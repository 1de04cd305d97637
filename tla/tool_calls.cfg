CONSTANTS
  Calls = {c1}
  Instances = {i1, i2}
  None = None
  MaxSends = 3
SPECIFICATION Spec
INVARIANTS
  AddedOnce
  DoneIsOver
  ChargedIsTarget
  ResultsAreTrue
PROPERTIES
  CallsEnd
