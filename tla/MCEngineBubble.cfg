CONSTANTS
  MCBlock = {"a1", "a2", "b1"}
  Block <- MCBlock
  Genesis = "g"
  Parent <- MCParent
  Height <- MCHeight
  Ancestors <- MCAncestors
  Voter = {"v"}
  Options <- MCStartOptions
  ConcurrentRepolls = 1
  OptimalProcessing = 2
  MaxBuilds = 2
  QueriesMayFail = TRUE
SPECIFICATION Spec
INVARIANT
  BubbledVoteIsProcessing
