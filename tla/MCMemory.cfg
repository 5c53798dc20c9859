CONSTANTS
  MaxProcesses = 2
  MaxRoots = 1
  MaxObjects = 2
  MaxEpoch = 1
  Shapes <- ShapesDef
  MaxGrants = 3
  MaxChannels = 1
  MaxQueue = 1
  HandleSpace = 8
  NewRights = {}
  DerivedRights <- DerivedRightsDef
  Regranted <- RegrantedDef
  MaxRegions = 1
  RegionSizes = {0, 2}
  UsizeValues = 4
SPECIFICATION MemorySpec
INVARIANTS
  MemoryTypeOK
  LiveRegionsKeepTheirBytes
PROPERTIES
  InFlightIsFrozen
  DestroyedStaysUntouched
CHECK_DEADLOCK FALSE
