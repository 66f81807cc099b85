SPECIFICATION ArrivalsSpec
CONSTANTS
  ada = ada
  ben = ben
  e1 = e1
  e2 = e2
  Members = {ada, ben}
  Hosts = {ada}
  Ids = {e1, e2}
  MaxElements = 1
  NoRow = NoRow
  MaxSeq = 4
  MaxUndo = 2
  Scopes <- MCScopes
INVARIANTS Convergence
PROPERTIES PendingResolves
CHECK_DEADLOCK FALSE
