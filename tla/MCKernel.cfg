CONSTANTS
  MaxObjects = 2
  MaxEpoch = 2
  Requests <- RequestsDef
SPECIFICATION Spec
INVARIANTS
  TypeOK
  NothingFromTheFuture
  WithinTheRoot
PROPERTIES
  VerdictOnlyDegrades
  NoResurrection
  ImplementsAuthority
CHECK_DEADLOCK FALSE
