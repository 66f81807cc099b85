SPECIFICATION TxSpec
CONSTANTS
  ada = ada
  ben = ben
  Members = {ada, ben}
  Hosts = {ada}
  Ids = {e1, e2}
  MaxElements = 1
  NoRow = NoRow
  Calls = {c1, c2}
  NoCall = NoCall
  MaxSeq = 3
INVARIANTS RowsAreLog
PROPERTIES ImplementsBoard
CHECK_DEADLOCK FALSE
SYMMETRY CallsAndIds
