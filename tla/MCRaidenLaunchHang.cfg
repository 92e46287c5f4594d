SPECIFICATION FairSpec
CONSTANTS
  MaxPid = 1
  MaxByHand = 0
  MaxCrashes = 0
PROPERTIES
  Answered
CHECK_DEADLOCK FALSE
