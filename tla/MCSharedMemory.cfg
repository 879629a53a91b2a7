SPECIFICATION Spec
CONSTANTS
  Chain = {1, 2, 3}
  Key = {"k"}
  Traits <- MCTraits
  Hash <- MCHash
  Blocks <- MCBlocks
  Syncable = {3}
  Bonus = {2}
  BatchSize = 0
  MinBlocks = 2
  MaxCrashes = 1
  Lookups <- MCLookups
  Indexed = Indexed
  None = None
INVARIANTS
  MemoryIsWhatChainsDid
  NothingFails
  NoCircularWait
CHECK_DEADLOCK FALSE
