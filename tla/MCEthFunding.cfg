SPECIFICATION FairSpec
CONSTANTS
  Required = 2
  Txs = {1, 2}
  Confirmations = 2
  MaxLeft = 4
  MaxHeight = 5
  MaxQueue = 1
  MaxClicks = 1
  MaxFaults = 1
INVARIANTS
  TypeOK
  SwapFunded
  NoSecondOffer
  FundsConfirmed
PROPERTIES
  FundedGetsOn
CHECK_DEADLOCK FALSE
