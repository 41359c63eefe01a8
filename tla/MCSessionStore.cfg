CONSTANTS
  r1 = r1
  r2 = r2
  u1 = u1
  u2 = u2
  a = a
  b = b
  c = c
  Requests = {r1, r2}
  Users = {u1, u2}
  Ids = {a, b, c}
  Nobody = nobody
  Existing <- TwoSessions
  OwnerAtFirst <- Owners
  MaxSessions = 2
  Ttl = 1
  CacheCap = 1
  Dawdle = 1
  MaxVersion = 2
  MaxTime = 3
SPECIFICATION Spec
SYMMETRY Interchangeable
CHECK_DEADLOCK FALSE
INVARIANT OneHolder
PROPERTIES DropsAreDue OverviewIsCurrent
