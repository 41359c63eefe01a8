\* One question that may nap and one cross-check that may not, over two
\* entries; all failures, one allowance, a cooldown of an hour shortened to 3.
SPECIFICATION PoolSpec
CONSTANTS
  c1 = c1
  c2 = c2
  c3 = c3
  e1 = e1
  e2 = e2
  Calls = {c1, c2}
  Entries = {e1, e2}
  Chain <- MCChain
  Avoided <- MCAvoided
  Waits = {c1}
  WithSchema = {c2}
  Prompt <- MCPrompt
  Need <- MCNeed
  Hints = {2}
  Trouble = 1
  Parked = 3
  Allowances = {2}
  Resets = {1}
  MaxWaits = 2
  MaxWaitS = 2
  MinHint = 3
  CallsPerDay = 3
  LastDay = 1
CHECK_DEADLOCK FALSE
INVARIANTS ParkedStaysParked ReservationsSettled
PROPERTY EveryCallEnds
