CONSTANTS
  k1 = k1
  k2 = k2
  k3 = k3
  Keys = {k1, k2, k3}
  Limit = 2
  Window = 3
  MaxKeys = 2
  SecondTicks = 2
  Dawdle = 1
  MaxTime = 4
SPECIFICATION WindowSpec
SYMMETRY KeySymmetry
INVARIANTS WithinLimit PromiseKept
PROPERTY DecidesAlike
