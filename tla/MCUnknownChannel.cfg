CONSTANTS
  MaxProcesses = 2
  MaxRoots = 1
  MaxObjects = 2
  MaxEpoch = 2
  Shapes <- ShapesDef
  MaxGrants = 3
  MaxChannels = 1
  MaxQueue = 2
  HandleSpace = 8
  NewRights <- NewRightsDef
  DerivedRights <- DerivedRightsDef
  Regranted <- NewRightsDef
SPECIFICATION IpcSpec
INVARIANTS
  DestroyedChannelIsUnknown
CHECK_DEADLOCK FALSE
