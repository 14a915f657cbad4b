SPECIFICATION FairClientSpec
CONSTANTS
  s1 = s1
  r1 = r1
  r2 = r2
  w1 = w1
  w2 = w2
  x = x
  y = y
  None = None
  Sessions = {s1}
  Requests = {r1, r2}
  Workers = {w1, w2}
  Contents = {x, y}
  ClientTypes = {"DecisionMade"}
  VerificationTypes = {"VerificationFailed"}
  MaxIds = 2
  MaxTime = 1
  MaxRollbacks = 1
  MaxCommits = 2
CHECK_DEADLOCK FALSE
INVARIANTS RollbacksTriggerOnce HostedRecoveryIsReal
 
