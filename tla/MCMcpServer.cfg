CONSTANTS
  Messages <- MCMessages
  MaxBatch = 2
  MaxPosts = 1
  Allowance = 1
SPECIFICATION Spec
CHECK_DEADLOCK FALSE
INVARIANTS EveryRequestAnsweredInTurn BilledAreAnswered OnlyGoodAsksAreBilled NamesOnlyOnRequest
