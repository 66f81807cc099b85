SPECIFICATION FairSpec
CONSTANTS
  u1 = u1
  u2 = u2
  s1 = s1
  s1b = s1b
  s2 = s2
  s2b = s2b
  i1 = i1
  i2 = i2
  NoEntry = NoEntry
  Nobody = Nobody
  NoRoom = NoRoom
  Users = {u1}
  Sockets = {s1}
  UserOf <- UserOf1
  Instances = {i1}
  InstanceOf <- InstanceOf1
  Rooms = {a, b}
  Media = {on}
  MaxSeats = 2
  StaleAge = 1
  KeyTtl = 2
  MaxInflight = 2
  Faults = {"timeout", "overtake", "stall", "time"}
PROPERTIES StraySeatsGo
CHECK_DEADLOCK FALSE
