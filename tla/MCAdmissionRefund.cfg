CONSTANTS
  q1 = q1
  q2 = q2
  q3 = q3
  q4 = q4
  a1 = a1
  u1 = u1
  s1 = s1
  Questions = {q1, q2, q3, q4}
  Mcp = {}
  Ips = {a1}
  Users = {u1}
  Sessions = {s1}
  IpOf <- OneAddress
  UserOf <- OneUser
  SessionOf <- OneSession
  Total = 2
  PerIp = 2
  HourLimit = 2
  DayLimit = 4
  SessionLimit = 4
  Hour = 2
  Day = 4
  Patience = 1
  MaxTime = 2
SPECIFICATION Spec
INVARIANT NeverOverdrawn
SYMMETRY Interchangeable
CHECK_DEADLOCK FALSE

CONSTRAINT NobodyWaits
