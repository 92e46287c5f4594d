SPECIFICATION FairSpec
CONSTANTS
  Exchanges = {kyber}
  NoExchange = NoExchange
  PageRequired = 1
  Required = 2
  SwapAmount = 3
  MaxPolls = 2
  MaxSwaps = 2
  MaxInbox = 2
  MaxFaults = 1
INVARIANTS
  TypeOK
  MainMeansIdle
  SpinnerMeansWork
  EstimateFailed
  SecondSwapAfterTimeout
  LaunchFunded
PROPERTIES
  MovesOn
CHECK_DEADLOCK FALSE
