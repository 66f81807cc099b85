SPECIFICATION MCSpec
CONSTANTS
  ada = ada
  ben = ben
  e1 = e1
  e2 = e2
  Members = {ada, ben}
  Hosts = {ada}
  Ids = {e1, e2}
  MaxElements = 2
  NoRow = NoRow
  None = None
  MaxSeq = 3
  MaxUndo = 1
  Scopes <- MCScopes
  MaxPoints = 4
  Samples <- MCSamples
INVARIANTS DraftReplaced StrokeWhole
PROPERTIES DraftsGo
CHECK_DEADLOCK FALSE
