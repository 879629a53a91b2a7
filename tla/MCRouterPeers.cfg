SPECIFICATION FairSpec
CONSTANTS
  Node = {"n1"}
  Chain = {"P", "S"}
  Subnet = {"primary", "subnet"}
  PrimaryNetwork = "primary"
  PlatformChain = "P"
  SubnetOf <- MCSubnetOf
  Tracks <- MCTracks
  Weight <- MCWeight
  Threshold = 1
  MaxBenched <- MCMaxBenched
  MaxConnects = 2
  None = "none"
INVARIANTS
  ToldWhoIsThere
PROPERTIES
  EveryBenchEnds
CHECK_DEADLOCK FALSE
