CONSTANTS
  Callers = {g1}
  Ids = {i1}
  Buckets = {b1}
  None = None
  Burst = 1
  Cost = 2
  Second = 2
  MaxTime = 4
  MaxCalls = 4
SPECIFICATION Spec
SYMMETRY Symmetry
INVARIANT
  RetryHonoured
CHECK_DEADLOCK FALSE
