CONSTANTS
  MaxProcesses = 2
  MaxRoots = 1
  MaxObjects = 2
  MaxEpoch = 2
  Shapes <- ChannelShapesDef
  MaxGrants = 3
  MaxChannels = 2
  MaxQueue = 2
  HandleSpace = 8
  NewRights = {}
  DerivedRights <- DerivedRightsDef
  Regranted = {}
SPECIFICATION IpcSpec
INVARIANTS
  MovedIsSoleAuthority
PROPERTIES
  StrandedForever
CHECK_DEADLOCK FALSE
