SPECIFICATION Spec
CONSTANTS
  Confirmations = 3
  Timeout = 6
  Drops = TRUE
  MaxDepth = 2
  MaxHeight = 8
PROPERTIES
  ConfirmedIsMined
CHECK_DEADLOCK FALSE
