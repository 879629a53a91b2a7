-------------------------- MODULE MCStateTransition --------------------------
(***************************************************************************)
(* Five chains: Titan, which shares fees out and has all forks from its    *)
(* genesis on; the same with all fees for the validators; Flare before     *)
(* Durango, with the settings contracts and the state connector; Flare     *)
(* before Granite; Songbird, where the burn address is the coinbase.  Two  *)
(* senders, the second with too little for some of its transactions.       *)
(***************************************************************************)
EXTENDS StateTransition

MCGenesis ==
  [alice |-> 60, bob |-> 9, blackhole |-> 0, dead |-> 0, pool |-> 0, daemon |-> 0,
   ftso |-> 0, submitter |-> 0, connector |-> 0, governance |-> 0, airdropChange |-> 0,
   distributionChange |-> 0, airdrop |-> 3, distribution |-> 2, target |-> 0, created |-> 0]

Titan == [isFlare |-> TRUE, isSongbird |-> FALSE, distributes |-> TRUE, percent |-> 50,
          baseFee |-> 2, nominalGasPrice |-> 2, maxGasLimit |-> 3, mintMax |-> 2,
          connector |-> FALSE, settings |-> FALSE, submitter |-> TRUE, prefixes |-> TRUE,
          attestors |-> {}, target |-> "dead", invalidates |-> FALSE]

Flare == [Titan EXCEPT !.distributes = FALSE, !.connector = TRUE, !.settings = TRUE,
                       !.submitter = FALSE, !.prefixes = FALSE,
                       !.attestors = {"f1", "f2", "f3"}, !.target = "target"]

FlareBeforeGranite ==
  [Flare EXCEPT !.connector = FALSE, !.submitter = TRUE, !.prefixes = TRUE,
                !.invalidates = TRUE]

Songbird == [Flare EXCEPT !.isFlare = FALSE, !.isSongbird = TRUE, !.settings = FALSE,
                          !.baseFee = 0, !.nominalGasPrice = 3, !.maxGasLimit = 9]

TitanForValidators == [Titan EXCEPT !.percent = 100]

MCChains == {Titan, TitanForValidators, Flare, FlareBeforeGranite, Songbird}

Transaction(from, nonce, gas, to, data) ==
  [from |-> from, nonce |-> nonce, gas |-> gas, tip |-> 2, feeCap |-> 4, value |-> 0,
   to |-> to, data |-> data, permitted |-> FALSE, long |-> FALSE]

MCTxs ==
  {Transaction("alice", 0, 3, "ftso", "prioritised"),
   [Transaction("alice", 0, 1, Nil, "other") EXCEPT !.value = 2],
   Transaction("alice", 0, 2, "connector", "submitAttestation"),
   Transaction("alice", 0, 4, "submitter", "prioritised"),
   Transaction("alice", 1, 3, "submitter", "prioritised"),
   Transaction("alice", 1, 2, "airdropChange", "update"),
   Transaction("alice", 1, 0, "ftso", "prioritised"),
   [Transaction("bob", 0, 2, "ftso", "other") EXCEPT !.value = 1, !.tip = 0],
   [Transaction("bob", 0, 2, "governance", "setTimelock") EXCEPT !.permitted = TRUE],
   Transaction("bob", 1, 2, "distributionChange", "update")}

Plain == [vmerr |-> FALSE, gas |-> 1, ret |-> "one", signal |-> TRUE, invalidated |-> FALSE,
          daemon |-> "error", request |-> 1, replies |-> [f1 |-> "r", f2 |-> "r", f3 |-> "s"]]

MCAnswers ==
  {Plain,
   [Plain EXCEPT !.vmerr = TRUE, !.gas = 0],
   [Plain EXCEPT !.signal = FALSE, !.gas = 9, !.daemon = "word", !.request = 2],
   [Plain EXCEPT !.invalidated = TRUE, !.gas = 0],
   [Plain EXCEPT !.daemon = "word", !.request = 3,
                 !.replies = [f1 |-> "r", f2 |-> "s", f3 |-> ""]],
   [Plain EXCEPT !.ret = "zero", !.daemon = "other"]}

=============================================================================
