\* Two requests at a time, three ids, two emails; a token lives a second and
\* is made at most one second after its row.
SPECIFICATION AccountsSpec
CONSTANTS
  Requests = {r1, r2}
  Ids = {i1, i2, i3}
  Emails = {m1, m2}
  None = None
  Ttl = 1
  Dawdle = 1
  MaxTime = 2
SYMMETRY Sym
CHECK_DEADLOCK FALSE
INVARIANT OneAccountPerEmail
PROPERTY MembersKeepTheirAccount
