CONSTANTS
  MaxProcesses = 3
  MaxRoots = 2
  MaxObjects = 1
  MaxEpoch = 1
  Shapes <- ShapesDef
  MaxGrants = 2
  HandleSpace = 8
  NewRights <- NewRightsDef
  DerivedRights <- DerivedRightsDef
  Regranted <- NewRightsDef
SPECIFICATION Spec
INVARIANTS
  QueueIsAPermutation
PROPERTIES
  EveryoneGetsATurn
  HandoffIsExclusive
CHECK_DEADLOCK FALSE
