SPECIFICATION FairSpec
CONSTANTS
  Confirmations = 3
  Timeout = 6
  Drops = FALSE
  MaxDepth = 2
  MaxHeight = 8
INVARIANTS
  TypeOK
PROPERTIES
  ConfirmedIsMined
  ConfirmedIsDeep
  CallReturns
CHECK_DEADLOCK FALSE
