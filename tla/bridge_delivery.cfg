CONSTANTS
  Instances = {i1}
  Configured = {i1}
  MaxNotes = 3
  MaxCrashes = 1
SPECIFICATION FairSpec
INVARIANTS
  NothingDropped
  StoppedMeansQuiet
PROPERTIES
  ImplementsDelivery
  EveryNoteHandled
  StopTerminates
CHECK_DEADLOCK FALSE
