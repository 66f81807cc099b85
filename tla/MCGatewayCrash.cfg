SPECIFICATION FairSpec
CONSTANTS
  u1 = u1
  u2 = u2
  s1 = s1
  s1b = s1b
  s2 = s2
  s2b = s2b
  i1 = i1
  i2 = i2
  NoEntry = NoEntry
  Nobody = Nobody
  NoRoom = NoRoom
  Users = {u1, u2}
  Sockets = {s1, s2}
  UserOf <- UserOf2
  Instances = {i1, i2}
  InstanceOf <- InstanceOf2
  Rooms = {a}
  Media = {on}
  MaxSeats = 2
  StaleAge = 2
  KeyTtl = 4
  MaxInflight = 1
  Faults = {"share", "crash", "disconnect", "time"}
INVARIANTS SeatedIn
PROPERTIES SeatKept GhostsGo SlotFreed
CHECK_DEADLOCK FALSE
