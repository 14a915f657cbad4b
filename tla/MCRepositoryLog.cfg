SPECIFICATION Spec
CONSTANTS
  Paths = {a, b}
  Contents = {x}
  Streams = {main, feature}
  Main = main
  Absent = Absent
  Unstaged = Unstaged
  MaxCheckpoints = 2
  MaxLog = 2
  MaxConflicts = 1
SYMMETRY Symmetric
INVARIANTS TypeOK ResolutionLogged
PROPERTIES   IntegrationMovesForward
