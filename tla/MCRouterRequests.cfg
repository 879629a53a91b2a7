SPECIFICATION FairSpec
CONSTANTS
  Chain = {"P"}
  Request = {"r1", "r2", "r3"}
  On <- MCOn
  None = "none"
INVARIANTS
  AnsweredOnce
PROPERTIES
  EveryRequestEnds
CHECK_DEADLOCK FALSE
