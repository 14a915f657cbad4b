SPECIFICATION Spec
CONSTANTS
  s1 = s1
  s2 = s2
  r1 = r1
  r2 = r2
  w1 = w1
  x = x
  None = None
  Sessions = {s1, s2}
  Requests = {r1, r2}
  Workers = {w1}
  Contents = {x}
  ClientTypes = {"DecisionMade"}
  VerificationTypes = {"VerificationFailed"}
  MaxIds = 3
  MaxTime = 2
  MaxRollbacks = 0
CHECK_DEADLOCK FALSE
INVARIANTS CausalIntegrity 
SYMMETRY Interchangeable
