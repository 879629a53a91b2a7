CONSTANTS
  K = 3
  AlphaPreference = 2
  TerminationConditions <- MCTerminationConditions
  NumBits = 6
  BitsPerByte = 2
  Id <- MCId
SPECIFICATION Spec
INVARIANTS
  TreeIsForest
  PreferenceIsCurrent
  DecidesFromTheRoot
