CONSTANTS
  Configs <- ConfigsDef
SPECIFICATION Spec
INVARIANTS
  ResultsAreTheReference
  LockStep
  AtFullRate
PROPERTIES
  Completes
CHECK_DEADLOCK FALSE
