SPECIFICATION Spec
CONSTANTS
  u1 = u1
  u2 = u2
  s1 = s1
  s1b = s1b
  s2 = s2
  s2b = s2b
  i1 = i1
  i2 = i2
  NoEntry = NoEntry
  Nobody = Nobody
  NoRoom = NoRoom
  Users = {u1, u2}
  Sockets = {s1, s1b, s2}
  UserOf <- UserOf3
  Instances = {i1, i2}
  InstanceOf <- InstanceOf3
  Rooms = {a}
  Media = {on}
  MaxSeats = 2
  StaleAge = 2
  KeyTtl = 8
  MaxInflight = 2
  Faults = {"refuse", "share"}
INVARIANTS HearersSeated PresenterHoldsSlot
PROPERTIES StoreSpec
CHECK_DEADLOCK FALSE
