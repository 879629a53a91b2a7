CONSTANTS
  K = 5
  AlphaPreference = 3
  TerminationConditions <- MCTerminationConditions
  NumBits = 2
  Id <- MCBlock
  Block <- MCBlock
  Genesis <- MCGenesis
  Parent <- MCParent
  Height <- MCHeight
  Ancestors <- MCAncestors
  Validator = {"v1", "v2", "v3", "v4"}
  Samples <- MCSamples
  RequestID = {1, 2}
SPECIFICATION Spec
INVARIANTS
  ResultsInOrder
  FirstAnswersCount
PROPERTIES
  EveryPollFinishes
  EarlyFinishIsFinal
CHECK_DEADLOCK FALSE
