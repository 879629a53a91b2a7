CONSTANTS
  MCBlock = {"a1", "a2", "b1"}
  Block <- MCBlock
  Genesis = "g"
  Parent <- MCParent
  Height <- MCHeight
  Ancestors <- MCAncestors
  Voter = {"v1", "v2"}
  Options <- MCStartOptions
  ConcurrentRepolls = 2
  OptimalProcessing = 2
  MaxBuilds = 1
  QueriesMayFail = FALSE
SPECIFICATION FairSpec
INVARIANTS
  NoJobIsLost
  PollsWhileProcessing
PROPERTIES
  HandlersReturn
  VotersExecute
