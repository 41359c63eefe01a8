CONSTANTS
  q1 = q1
  q2 = q2
  q3 = q3
  a1 = a1
  a2 = a2
  u1 = u1
  u2 = u2
  s1 = s1
  s2 = s2
  Questions = {q1, q2, q3}
  Mcp = {q2}
  Ips = {a1, a2}
  Users = {u1, u2}
  Sessions = {s1, s2}
  IpOf <- AddressOf
  UserOf <- OwnerOf
  SessionOf <- PlaceOf
  Total = 2
  PerIp = 1
  HourLimit = 1
  DayLimit = 2
  SessionLimit = 2
  Hour = 1
  Day = 2
  Patience = 1
  MaxTime = 1
SPECIFICATION FairSpec
CHECK_DEADLOCK FALSE
INVARIANTS SlotsExact NothingFreeIsCounted
PROPERTY EveryCallerIsAnswered
