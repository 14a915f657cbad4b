SPECIFICATION FairSpec
CONSTANTS
  c1 = c1
  k1 = k1
  a = a
  h1 = h1
  w1 = w1
  w2 = w2
  None = None
  Clients = {c1}
  Checkpoints = {k1}
  Objects = {a}
  ObjectsOf <- JustOne
  Limits = {1}
  Hooks = {h1}
  Senders = {w1, w2}
  MaxAttempts = 2
INVARIANTS DeliveriesAreHonest
PROPERTIES DeliveriesSettle
