SPECIFICATION AccountsFair
CONSTANTS
  tabA = tabA
  tabB = tabB
  tabC = tabC
  req1 = req1
  req2 = req2
  MaxSessions = 2
  Tabs = {tabA, tabB, tabC}
  BrowserOf <- MCBrowserOf
  Requests = {req1, req2}
  MaxGen = 4
  Grace = 1
  AccessTtl = 2
  RefreshTtl = 3
  FamilyTtl = 3
  Limit = 1
  Window = 2
  LinkTtl = 2
  None = None
  Scripts <- MCScripts
INVARIANTS ReuseMeansLost SocketsClosed
PROPERTIES  RefreshEnds
CHECK_DEADLOCK FALSE
