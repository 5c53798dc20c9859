CONSTANTS
  Handle <- HandleDef
  Object <- ObjectDef
  Inputs <- InputsDef
SPECIFICATION Spec
INVARIANTS
  NoPanic
  RefusedChangesNothing
  ComputesTheBatch
  NothingDeadOnArrival
CHECK_DEADLOCK FALSE
