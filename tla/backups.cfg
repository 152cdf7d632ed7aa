SPECIFICATION Spec
CONSTANTS
  Server <- MCServer
  Retained = 2
  MaxTime = 3
  MaxInst = 2
  MaxCycles = 3
INVARIANTS TypeOK PickedKept
PROPERTIES OwnBackup Pruned
CHECK_DEADLOCK FALSE
