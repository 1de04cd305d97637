CONSTANTS
  Ids = {q1, q2}
  TTL = 2
  None = None
SPECIFICATION Spec
INVARIANTS
  CodeHasTimers
  SuccessIsFounded
PROPERTIES
  SpinnerEnds
  ConnectionNoticed
  ComesToRest
