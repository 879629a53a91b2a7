CONSTANTS
  K = 4
  AlphaPreference = 3
  TerminationConditions <- MCTerminationConditions
  NumBits = 3
  BitsPerByte = 1
  Id <- MCBlock
  Block <- MCBlock
  Genesis <- MCGenesis
  Parent <- MCParent
  Height <- MCHeight
  Ancestors <- MCAncestors
SPECIFICATION Spec
INVARIANTS
  StackIsTheMajorityBranch
