SPECIFICATION SyncSpec
CONSTANTS
  c1 = c1
  c2 = c2
  k1 = k1
  k2 = k2
  a = a
  b = b
  None = None
  Clients = {c1, c2}
  Checkpoints = {k1, k2}
  Objects = {a, b}
  ObjectsOf <- OneEach
  Limits = {1, 2}
INVARIANTS HostedStateComplete
PROPERTIES StorageGrowsWithinLimit
