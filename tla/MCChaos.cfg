CONSTANTS
  HandleSpace = 1000
  CHANNELS = 1
  MAX_PROCESSES = 2
  BootRegions = 0
  BootSize = 2
  Sizes = {2}
  Spans <- SpansDef
  ArbRights <- ArbRightsDef
  MaxBatch = 2
  MaxRegions = 1
  MaxHandles = 3
  MaxInFlight = 1
  MaxEpoch = 1
  UsizeValues = 1000
SPECIFICATION Spec
INVARIANTS
  FailsExactlyOnFault
  ModelIsExact
CHECK_DEADLOCK FALSE
