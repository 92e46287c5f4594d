SPECIFICATION Spec
CONSTANTS
  Words = {"a", "b"}
  NWallets = 2
  MaxFaults = 2
INVARIANTS
  TypeOK
  LaunchedWithOwn
  ConfigHasKey
  HeldPassphraseOpens
  TornKeyHidesNothing
  PollsServed
PROPERTIES
  KeysSurvive
