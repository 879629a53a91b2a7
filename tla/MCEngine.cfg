CONSTANTS
  MCBlock = {"a1", "a2", "a3", "b1", "c2"}
  Block <- MCBlock
  Genesis = "g"
  Parent <- MCParent
  Height <- MCHeight
  Ancestors <- MCAncestors
  Voter = {"v"}
  Options <- MCOptions
  ConcurrentRepolls = 1
  OptimalProcessing = 2
  MaxBuilds = 0
  QueriesMayFail = TRUE
SPECIFICATION Spec
INVARIANTS
  DependenciesAreLive
  NoIssuableIsPending
  RequestsAreMissing
  UnverifiedIsRooted
  VotesGoToNearest
PROPERTY
  ImplementsLedger
