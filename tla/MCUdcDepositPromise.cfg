SPECIFICATION Spec
CONSTANTS
  Required = 2
  SwapAmount = 8
  Deliveries = {7}
  Transfers = {}
  Exact = 4
  Grain = 2
  MaxTokens = 8
  MaxClaims = 1
  MaxPool = 4
  MaxFaults = 1
INVARIANTS
  BoughtAndDeposited
