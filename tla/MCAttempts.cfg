\* MAX_REPAIRS as in the code; two slow calls use up the time.
SPECIFICATION Spec
CONSTANTS
  MaxRepairs = 2
  BudgetS = 3
  Delays = {0, 2}
  Extras = {"vetted", "nulls"}
CHECK_DEADLOCK FALSE
INVARIANTS AttemptsChain BadgeIsHonest
PROPERTY QuestionEnds
