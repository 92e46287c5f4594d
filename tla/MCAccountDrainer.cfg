SPECIFICATION FairSpec
CONSTANTS
  Accounts = {a, b}
  Receiver = b
  Holdings <- MCHoldings
  EthFee = 2
  CallFee = 2
  MaxOthers = 1
  MaxFaults = 2
INVARIANTS
  TypeOK
  EthLast
PROPERTIES
  Ends
CHECK_DEADLOCK FALSE
