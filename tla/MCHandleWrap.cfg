CONSTANTS
  MaxProcesses = 1
  MaxRoots = 1
  MaxObjects = 2
  MaxEpoch = 3
  Shapes <- MoveShapesDef
  MaxGrants = 5
  MaxChannels = 1
  MaxQueue = 2
  HandleSpace = 3
  NewRights <- NewRightsDef
  DerivedRights <- DerivedRightsDef
  Regranted <- NewRightsDef
SPECIFICATION IpcSpec
PROPERTIES
  HandlesAreFresh
CHECK_DEADLOCK FALSE
