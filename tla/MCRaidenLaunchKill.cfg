SPECIFICATION Spec
CONSTANTS
  MaxPid = 2
  MaxByHand = 1
  MaxCrashes = 0
INVARIANTS
  AloneAfterKill
CHECK_DEADLOCK FALSE
