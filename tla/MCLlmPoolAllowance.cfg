\* Questions asked at once of an entry whose allowance fits one of them.
SPECIFICATION PoolSpec
CONSTANTS
  c1 = c1
  c2 = c2
  c3 = c3
  e1 = e1
  e2 = e2
  Calls = {c1, c2, c3}
  Entries = {e1}
  Chain <- RaceChain
  Avoided <- RaceAvoided
  Waits = {}
  WithSchema = {}
  Prompt <- RacePrompt
  Need <- RaceNeed
  Hints = {2}
  Trouble = 1
  Parked = 3
  Allowances = {2}
  Resets = {1}
  MaxWaits = 0
  MaxWaitS = 0
  MinHint = 3
  CallsPerDay = 4
  LastDay = 1
PROPERTY AllowanceKept
CHECK_DEADLOCK FALSE
