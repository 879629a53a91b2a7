SPECIFICATION Spec
CONSTANTS
  Chains <- MCChains
  Txs <- MCTxs
  Answers <- MCAnswers
  Genesis <- MCGenesis
  TxGas = 1
  Capacity = 6
  GasLimit = 8
  Word = 65536
  MaxTxs = 3
  Nil = Nil
INVARIANTS
  SupplyAccounted
  GasIsConserved
  BuiltBlockVerifies
  IncludedOnce
PROPERTIES
  
  PaysWhatIsOwed
CHECK_DEADLOCK FALSE
