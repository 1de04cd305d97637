CONSTANTS
  Ids = {i1, i2}
  Creds = {k1, k2}
  Unset = Unset
  Sources <- AnySource
  Calls = {c1}
  Pushes = {p1, p2}
SPECIFICATION Spec
INVARIANTS
  WaitsAreOwed
  ExitedMeansStopped
  ConfirmedMeansHandled
PROPERTIES
  SignalEndsProcess
  WatcherLeaves
  RegisteredAsConfigured
CHECK_DEADLOCK FALSE
