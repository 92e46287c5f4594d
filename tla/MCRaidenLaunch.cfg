SPECIFICATION FairSpec
CONSTANTS
  MaxPid = 4
  MaxByHand = 1
  MaxCrashes = 2
INVARIANTS
  TypeOK
  OnlyWholeBinaryRuns
  OneLaunch
  KillsOnlyDead
  PassphraseErased
  PassphraseRead
PROPERTIES
  OnlyDeadHangs
CHECK_DEADLOCK FALSE
