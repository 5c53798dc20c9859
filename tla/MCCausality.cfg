CONSTANTS
  MaxProcesses = 3
  Channel = {c1, c2}
  MaxEvents = 3
  MaxQueue = 2
  Roots = 2
  MaxRecorded = 7
SYMMETRY Channels
SPECIFICATION AuditSpec
INVARIANTS
  TypeOK
  StampsDecideCausality
  StampsIdentifyEvents
  TotalOrderExtendsCausality
  NobodyKnowsTheFuture
  AuditIsExact
CHECK_DEADLOCK FALSE
