CONSTANTS
  Ids = {i1, i2}
  Creds = {k1, k2}
  Unset = Unset
  Sources <- AnySource
  Calls = {c1}
  Pushes = {p1}
SPECIFICATION Spec
INVARIANT ShutdownIsGraceful
CHECK_DEADLOCK FALSE
