CONSTANTS
  Configs <- ConfigsDef
  HandleSpace = 1000
SPECIFICATION TraceSpec
INVARIANTS
  NoCallFails
  LeastPrivilege
  OneOwnerPerRegion
  RegionsRotate
  StampsTellTheSchedule
PROPERTIES
  ImplementsBaseline
CHECK_DEADLOCK FALSE
