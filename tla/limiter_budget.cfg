CONSTANTS
  Callers = {g1, g2}
  Ids = {i1, i2}
  Buckets = {b1, b2, b3}
  None = None
  Burst = 1
  Cost = 2
  Second = 2
  MaxTime = 3
  MaxCalls = 3
SPECIFICATION Spec
SYMMETRY Symmetry
INVARIANTS
  WithinBudget
  QuietInstanceAllowed
  RetryIsPositive
CHECK_DEADLOCK FALSE
