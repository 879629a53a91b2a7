SPECIFICATION FairSpec
CONSTANTS
  Block = {"c1", "c2", "c3", "c4", "f2"}
  Genesis = "g"
  Parent <- MCParent
  Height <- MCHeight
  Ancestors <- MCAncestors
  MaxHeight = 15
  Beacon = {"n1", "n2", "n3"}
  Weight <- MCWeight
  MaxOutstanding = 2
  SampleK = 2
  MaxInt64 = 7
  NetworkChain = {"c1", "c2", "c3", "c4"}
  FirstTip = "c3"
  Faulty = {"n3"}
  Checkpoints = {"c2"}
  MaxAncestors = 2
  BatchWritePeriod = 2
  Unlimited = 20
  MaxStops = 2
  MaxFailures = 1
INVARIANTS
  StoreIsConsistent
  GapsAreMissing
PROPERTIES
  FollowsTheNetwork
  EntersNormalOperation
CHECK_DEADLOCK FALSE
