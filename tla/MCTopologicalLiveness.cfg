CONSTANTS
  K = 3
  AlphaPreference = 2
  TerminationConditions <- MCTerminationConditions
  NumBits = 3
  BitsPerByte = 1
  Id <- MCBlock
  Block <- MCBlock
  Genesis <- MCGenesis
  Parent <- MCParent
  Height <- MCHeight
  Ancestors <- MCAncestors
SPECIFICATION LiveSpec
INVARIANTS
  DeferredFaltersAreExact
  PreferredBranchIsCurrent
  NoDecisionIsLeft
PROPERTIES
  ImplementsLedger
  EverythingIsDecided
CHECK_DEADLOCK FALSE
