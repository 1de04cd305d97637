CONSTANTS
  i1 = i1
  genuine1 = genuine1
  wrong1 = wrong1
  NoCreds = NoCreds
  NoInstance = NoInstance
  Requests = {r1, r2}
  Ids <- OneId
  Creds <- OneCreds
  InstanceOf <- OneInstanceOf
  Genuine <- OneGenuine
  Configured <- NoneConfigured
  Doors <- HeaderDoor
  Tools <- MethodTools
SPECIFICATION Spec
INVARIANT
  CachedWereValidated
