SPECIFICATION Spec
CONSTANTS
  Required = 2
  SwapAmount = 3
  Deliveries = {2, 5}
  Transfers = {3}
  Exact = 4
  Grain = 2
  MaxTokens = 9
  MaxClaims = 2
  MaxPool = 4
  MaxFaults = 3
INVARIANTS
  TypeOK
  DepositCovered
  ApprovesFromZero
  CleanRequestSettles
PROPERTIES
  NoDoubleDeposit
  ImplementsEscrow
