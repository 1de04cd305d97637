CONSTANTS
  i1 = i1
  genuine1 = genuine1
  wrong1 = wrong1
  NoCreds = NoCreds
  NoInstance = NoInstance
  Requests = {r1, r2, r3}
  Ids <- OneId
  Creds <- OneCreds
  InstanceOf <- OneInstanceOf
  Genuine <- OneGenuine
  Configured <- OneConfigured
  Doors <- AllDoors
  Tools <- AllTools
SPECIFICATION Spec
CONSTRAINT PairOnceContended
SYMMETRY RequestSymmetry
INVARIANTS
  SwapLeavesNoTrace
  RecordedMeansVouched
  OnlyVouchedPass
  CallsUseOwnCredentials
  InstanceWasVouched
