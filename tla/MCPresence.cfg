SPECIFICATION AbandonedPresenceSpec
CONSTANTS
  u1 = u1
  u2 = u2
  u3 = u3
  s1 = s1
  s1b = s1b
  s2 = s2
  s3 = s3
  NoEntry = NoEntry
  Users = {u1, u2, u3}
  Sockets = {s1, s1b, s2, s3}
  UserOf <- MCUserOf
  Rooms = {a}
  Media = {on, off}
  MaxSeats = 2
  StaleAge = 2
  KeyTtl = 8
INVARIANTS
  SeatsBeat
  Capacity
PROPERTIES AbandonedRoomsExpire
CHECK_DEADLOCK FALSE
