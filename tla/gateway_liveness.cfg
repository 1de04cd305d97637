CONSTANTS
  i1 = i1
  genuine1 = genuine1
  wrong1 = wrong1
  NoCreds = NoCreds
  NoInstance = NoInstance
  Requests = {r1, r2}
  Ids <- OneId
  Creds <- SoleCreds
  InstanceOf <- SoleInstanceOf
  Genuine <- OneGenuine
  Configured <- NoneConfigured
  Doors <- AllDoors
  Tools <- AllTools
SPECIFICATION Spec
PROPERTY
  EveryRequestAnswered
