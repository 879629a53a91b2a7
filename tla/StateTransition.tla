--------------------------- MODULE StateTransition ---------------------------
(***************************************************************************)
(* How the C-chain applies transactions (coreth, core and miner): a worker *)
(* builds a block from pending transactions, dropping those that fail, and *)
(* every node then processes the block again from its parent's state and   *)
(* compares.  TransitionDb is taken in the steps of the code: checks and   *)
(* purchase of gas, execution, the calls that signal genesis contracts by  *)
(* changing block.coinbase, refund, fees, the daemon and its mint.         *)
(*                                                                         *)
(* The EVM and the contracts are external: what they answer is chosen when *)
(* the worker starts a transaction and is the same when the block is       *)
(* processed, for they are deterministic.  The iteration order of a Go map *)
(* is not.                                                                 *)
(***************************************************************************)
EXTENDS Integers, SequencesExt

CONSTANTS
  Chains,           \* the chains of the family, as records of their parameters
  Txs,              \* the transactions that may be pending
  Answers,          \* what the EVM and the contracts may answer to a transaction
  Genesis,          \* the balances at the start, a function on the accounts
  TxGas,            \* ethparams.TxGas, the intrinsic gas
  Capacity,         \* the gas the worker may use in a block
  GasLimit,         \* the gas limit in the header
  Word,             \* 2^256
  MaxTxs,           \* bound: the transactions included
  Nil               \* no recipient: a contract creation

Account == DOMAIN Genesis
Supply == FoldFunction(+, 0, Genesis)

\* No balance, nor a hundred times it, reaches the width of a word.
ASSUME SupplyFits ==
  \A c \in Chains : 100 * (Supply + MaxTxs * c.mintMax) < Word
ASSUME CapacityFits == Capacity <= GasLimit

VARIABLES
  chain,            \* the chain of this behaviour
  phase,            \* "build", "process", or "bad" when a block was refused
  parent,           \* the state after the last accepted block
  state,            \* the StateDB: balances, nonces, storage of the contracts
  coinbase,         \* evm.Context.Coinbase
  gp,               \* the gas pool
  usedGas,          \* of the block so far
  block,            \* the transactions of the block, with the answers they got
  todo,             \* what of the block is still to be processed
  header,           \* the root (as the state) and the gas used, Nil when not built here
  tried,            \* the pending transactions the worker is done with
  accepted,         \* the transactions of the accepted blocks
  pc, tx, ans,      \* the step, transaction and answers being applied
  snap,             \* state and gas pool before the transaction
  execution,        \* the snapshot before execution
  gasRemaining

stateVars == <<state, gp, gasRemaining>>
blockVars == <<chain, phase, parent, block, todo, header, tried, accepted>>
txVars == <<tx, ans, snap, execution>>
vars == <<stateVars, blockVars, txVars, coinbase, usedGas, pc>>

Blackhole == "blackhole"

Init ==
  /\ chain \in Chains
  /\ phase = "build"
  /\ state = [balance |-> Genesis, nonce |-> [a \in Account |-> 0],
              requested |-> 0, unanswered |-> 0, signals |-> {}]
  /\ parent = state
  /\ coinbase = Blackhole
  /\ gp = Capacity
  /\ usedGas = 0
  /\ block = <<>> /\ todo = <<>>
  /\ header = Nil
  /\ tried = {}
  /\ accepted = <<>>
  /\ pc = "idle"
  /\ tx = Nil /\ ans = Nil /\ snap = Nil /\ execution = Nil
  /\ gasRemaining = 0

-----------------------------------------------------------------------------
\* Balances and prices.  Products are of machine words.

Mul(a, b) == (a * b) % Word
Lesser(a, b) == IF a < b THEN a ELSE b

Credit(s, a, amount) == [s EXCEPT !.balance[a] = @ + amount]
Debit(s, a, amount) == [s EXCEPT !.balance[a] = @ - amount]

GasPrice == Lesser(tx.tip + chain.baseFee, tx.feeCap)
GasUsed == tx.gas - gasRemaining

\* The burn address, Nil when stateTransitionParamsSongbird fails.
BurnAddress ==
  IF ~chain.isSongbird THEN "dead"
  ELSE IF coinbase = Blackhole THEN Blackhole
  ELSE Nil

-----------------------------------------------------------------------------
\* The checks, the purchase of gas and the execution.

\* Bug: preCheck lets a nonce through that was used before.
NonceNotTooHigh == tx.nonce <= state.nonce[tx.from]

NonceIsCorrect == tx.nonce = state.nonce[tx.from]

PreCheckPasses ==
  /\ NonceIsCorrect
  /\ tx.tip <= tx.feeCap
  /\ chain.baseFee <= tx.feeCap
  /\ tx.gas * tx.feeCap + tx.value <= state.balance[tx.from]
  /\ tx.gas <= gp

PreCheck ==
  /\ pc = "preCheck"
  /\ IF PreCheckPasses
     THEN /\ state' = Debit(state, tx.from, tx.gas * GasPrice)
          /\ gp' = gp - tx.gas
          /\ gasRemaining' = tx.gas
          /\ pc' = "execute"
     ELSE pc' = "failed" /\ UNCHANGED stateVars
  /\ UNCHANGED <<blockVars, txVars, coinbase, usedGas>>

\* What evm.Call and evm.Create do: Create counts the nonce itself, and an
\* error in the call undoes the transfer but not the nonce.
Executed ==
  LET to == IF tx.to = Nil THEN "created" ELSE tx.to
      counted == [state EXCEPT !.nonce[tx.from] = @ + 1]
  IN  IF ans.vmerr THEN counted
      ELSE Credit(Debit(counted, tx.from, tx.value), to, tx.value)

Execute ==
  /\ pc = "execute"
  /\ IF /\ TxGas <= gasRemaining
        /\ tx.value <= state.balance[tx.from]
        /\ BurnAddress # Nil
     THEN /\ execution' = state
          /\ state' = Executed
          /\ gasRemaining' = gasRemaining - Lesser(ans.gas, gasRemaining - TxGas) - TxGas
          /\ pc' = "contracts"
     ELSE pc' = "failed" /\ UNCHANGED <<state, gasRemaining, execution>>
  /\ UNCHANGED <<blockVars, tx, ans, snap, coinbase, usedGas, gp>>

-----------------------------------------------------------------------------
\* The calls that signal a genesis contract.

Roots(replies) == {replies[a] : a \in DOMAIN replies} \ {""}
Votes(replies, root) == Cardinality({a \in DOMAIN replies : replies[a] = root})

\* The roots the loop over the map of frequencies may end with.
Pluralities(replies) ==
  {r \in Roots(replies) : \A s \in Roots(replies) : Votes(replies, s) <= Votes(replies, r)}

\* Bug: the first plurality decides.
AnyPlurality(replies) == Pluralities(replies)

\* The decision of CountAttestations; no element without a majority.
CountAttestations(replies) ==
  {r \in Pluralities(replies) : Votes(replies, r) > Cardinality(DOMAIN replies) \div 2}

AttestationSubmitted ==
  /\ chain.connector
  /\ tx.to = "connector" /\ tx.data = "submitAttestation"
  /\ ans.ret = "one"

SettingCalled ==
  /\ chain.settings
  /\ \/ /\ tx.to = "governance"
        /\ tx.data \in {"setGovernanceAddress", "setTimelock"} /\ tx.permitted
     \/ /\ tx.to \in {"airdropChange", "distributionChange"}
        /\ tx.data = "update"

\* What is signalled after the execution, by handleSongbirdTransitionDbContracts
\* or handleFlareTransitionDbContracts: no element for nothing, several when
\* the order of a map decides.
Signals ==
  IF ans.vmerr \/ tx.to = Nil \/ (chain.isFlare /\ coinbase # Blackhole) THEN {}
  ELSE IF AttestationSubmitted THEN CountAttestations([a \in chain.attestors |-> ans.replies[a]])
  ELSE IF chain.isFlare /\ SettingCalled THEN {tx.data}
  ELSE {}

\* block.coinbase becomes the signal for the duration of a DaemonCall.
Signal ==
  /\ pc = "contracts"
  /\ \E s \in Signals :
       /\ coinbase' = s
       /\ pc' = "signalled"
  /\ UNCHANGED <<stateVars, blockVars, txVars, usedGas>>

NoSignal ==
  /\ pc = "contracts"
  /\ Signals = {}
  /\ pc' = "refund"
  /\ UNCHANGED <<stateVars, blockVars, txVars, coinbase, usedGas>>

\* Moves all of one account to another, which may be the same.
Moved(s, from, to) == Credit(Debit(s, from, s.balance[from]), to, s.balance[from])

\* The effect of a signal the contract does not refuse.
Signalled(s) ==
  LET told == [s EXCEPT !.signals = @ \cup {<<tx.to, coinbase>>}]
  IN  CASE tx.to = "airdropChange"      -> Moved(told, "airdrop", chain.target)
        [] tx.to = "distributionChange" -> Moved(told, "distribution", chain.target)
        [] OTHER                        -> told

\* Bug: the coinbase is not put back when the call fails.
SignalReturnsEarly ==
  /\ pc = "signalled"
  /\ IF ans.signal
     THEN state' = Signalled(state) /\ coinbase' = Blackhole
     ELSE UNCHANGED <<state, coinbase>>
  /\ pc' = "refund"
  /\ UNCHANGED <<blockVars, txVars, usedGas, gp, gasRemaining>>

\* The deferred function puts the coinbase back however the call ends.
SignalReturns ==
  /\ pc = "signalled"
  /\ state' = IF ans.signal THEN Signalled(state) ELSE state
  /\ coinbase' = Blackhole
  /\ pc' = "refund"
  /\ UNCHANGED <<blockVars, txVars, usedGas, gp, gasRemaining>>

-----------------------------------------------------------------------------
\* Refund and fees.

\* All chains of the family have Apricot phase 1: the refund counter is not used.
RefundGas ==
  /\ pc = "refund"
  /\ state' = Credit(state, tx.from, Mul(gasRemaining, GasPrice))
  /\ gp' = gp + gasRemaining
  /\ pc' = "fees"
  /\ UNCHANGED <<blockVars, txVars, coinbase, usedGas, gasRemaining>>

IsPrioritisedContractCall ==
  /\ tx.gas <= chain.maxGasLimit
  /\ \/ tx.to = "ftso" /\ (chain.prefixes => tx.data = "prioritised")
     \/ /\ tx.to = "submitter" /\ chain.submitter
        /\ ans.ret = "one"
        /\ chain.prefixes => tx.data = "prioritised" /\ ~tx.long


SplitCChainBaseFee(fee, gasUsed) ==
  LET base == IF chain.baseFee > 0 THEN Lesser(Mul(gasUsed, chain.baseFee), fee) ELSE fee
      pool == IF chain.percent >= 100 THEN fee ELSE Mul(base, chain.percent) \div 100
  IN  [burn |-> fee - pool, pool |-> pool]

CreditCChainFees(s, fee, gasUsed) ==
  LET split == SplitCChainBaseFee(fee, gasUsed)
  IN  IF BurnAddress = Nil THEN s
      ELSE IF ~chain.distributes THEN Credit(s, BurnAddress, fee)
      ELSE Credit(Credit(s, BurnAddress, split.burn), "pool", split.pool)

\* Bug: what a prioritised call gets back is measured by its gas limit.
FeeOfGasLimit == Mul(tx.gas, GasPrice)

ActualFee == Mul(GasUsed, GasPrice)

CreditFees ==
  LET nominalFee == Mul(TxGas, chain.nominalGasPrice)
  IN
  /\ pc = "fees"
  /\ state' =
       IF ~ans.vmerr /\ IsPrioritisedContractCall /\ ActualFee > nominalFee
       THEN CreditCChainFees(Credit(state, tx.from, ActualFee - nominalFee), nominalFee, TxGas)
       ELSE CreditCChainFees(state, Mul(GasUsed, GasPrice), GasUsed)
  /\ pc' = "daemon"
  /\ UNCHANGED <<blockVars, txVars, coinbase, usedGas, gp, gasRemaining>>

-----------------------------------------------------------------------------
\* The daemon, and the end of a transaction.

\* The daemon contract records a request and what of its requests it did not
\* return as a word.  evm.Call undoes a call that ends in an error; an answer that
\* is empty or has another length than a word is an error of daemon() only, which
\* keeps what the call did and mints nothing; a request above the limit takes the
\* call back.
AtomicDaemonAndMint(s) ==
  LET called == [s EXCEPT !.requested = @ + ans.request]
  IN  CASE ans.daemon = "error" -> s
        [] ans.daemon = "other" -> [called EXCEPT !.unanswered = @ + ans.request]
        [] ans.daemon = "word"  -> IF ans.request <= chain.mintMax
                                   THEN Credit(called, "daemon", ans.request)
                                   ELSE s

Daemon ==
  /\ pc = "daemon"
  /\ state' = IF ~ans.vmerr /\ (chain.isFlare \/ chain.isSongbird)
              THEN AtomicDaemonAndMint(state)
              ELSE state
  /\ pc' = "end"
  /\ UNCHANGED <<blockVars, txVars, coinbase, usedGas, gp, gasRemaining>>

ExecutionInvalidated ==
  /\ pc = "end"
  /\ ans.invalidated
  /\ state' = execution
  /\ pc' = "failed"
  /\ UNCHANGED <<blockVars, txVars, coinbase, usedGas, gp, gasRemaining>>

ReceiptOf == [tx |-> tx, ans |-> ans]

\* The StateTransition value is garbage.
Forget == tx' = Nil /\ ans' = Nil /\ snap' = Nil /\ execution' = Nil /\ gasRemaining' = 0

\* applyTransaction returns a receipt to the worker or to Process.
TransactionApplied ==
  /\ pc = "end"
  /\ ~ans.invalidated
  /\ usedGas' = usedGas + GasUsed
  /\ IF phase = "build"
     THEN block' = Append(block, ReceiptOf) /\ tried' = tried \cup {tx}
     ELSE UNCHANGED <<block, tried>>
  /\ pc' = "idle"
  /\ Forget
  /\ UNCHANGED <<state, gp, chain, phase, parent, todo, header, accepted, coinbase>>

-----------------------------------------------------------------------------
\* The worker.

Untried == Txs \ tried

\* Delegate calls of a precompile invalidate an execution only from
\* InvalidateDelegateUnix to Granite.
AnswersOfChain == {a \in Answers : a.invalidated => chain.invalidates}

\* commitTransactions takes the transactions of an account by nonce; NewEVM
\* makes a context of its own for each.  The pool holds no transaction with
\* less than its intrinsic gas.
CommitTransaction ==
  /\ phase = "build" /\ pc = "idle"
  /\ TxGas <= gp
  /\ Len(accepted) + Len(block) < MaxTxs
  /\ \E t \in Untried, a \in AnswersOfChain :
       /\ \A u \in Untried : u.from = t.from => t.nonce <= u.nonce
       /\ TxGas <= t.gas /\ t.gas <= gp
       /\ tx' = t /\ ans' = a
  /\ coinbase' = Blackhole
  /\ snap' = [state |-> state, gp |-> gp]
  /\ pc' = "preCheck"
  /\ UNCHANGED <<stateVars, blockVars, execution, usedGas>>

\* Bug: the gas pool is not set back.
DropKeepsGas ==
  /\ phase = "build" /\ pc = "failed"
  /\ state' = snap.state
  /\ tried' = tried \cup IF tx.nonce < state.nonce[tx.from] THEN {tx}
                         ELSE {u \in Txs : u.from = tx.from}
  /\ pc' = "idle"
  /\ Forget
  /\ UNCHANGED <<chain, phase, parent, block, todo, header, accepted, coinbase, usedGas, gp>>

\* On an error the worker reverts state and gas pool; it goes on with the next
\* nonce of the account after a nonce too low, and skips the account otherwise.
DropTransaction ==
  /\ phase = "build" /\ pc = "failed"
  /\ state' = snap.state
  /\ gp' = snap.gp
  /\ tried' = tried \cup IF tx.nonce < state.nonce[tx.from] THEN {tx}
                         ELSE {u \in Txs : u.from = tx.from}
  /\ pc' = "idle"
  /\ Forget
  /\ UNCHANGED <<chain, phase, parent, block, todo, header, accepted, coinbase, usedGas>>

\* The block is assembled and its processing starts, with one context for all
\* of its transactions.
Assemble ==
  /\ phase = "build" /\ pc = "idle"
  /\ block # <<>>
  /\ header' = [root |-> state, gasUsed |-> usedGas]
  /\ phase' = "process"
  /\ todo' = block
  /\ state' = parent
  /\ coinbase' = Blackhole
  /\ gp' = GasLimit
  /\ usedGas' = 0
  /\ tried' = {}
  /\ UNCHANGED <<chain, parent, block, accepted, txVars, pc, gasRemaining>>

-----------------------------------------------------------------------------
\* Process and ValidateState.

\* A block of another proposer, whose header is not that of its transactions.
ReceiveBlock ==
  /\ phase = "build" /\ pc = "idle"
  /\ block = <<>> /\ tried = {}
  /\ Len(accepted) < MaxTxs
  /\ \E t \in Txs, a \in AnswersOfChain : block' = <<[tx |-> t, ans |-> a]>>
  /\ todo' = block'
  /\ phase' = "process"
  /\ coinbase' = Blackhole
  /\ gp' = GasLimit
  /\ UNCHANGED <<chain, parent, state, header, tried, accepted, txVars, usedGas, pc, gasRemaining>>

ProcessTransaction ==
  /\ phase = "process" /\ pc = "idle"
  /\ todo # <<>>
  /\ tx' = Head(todo).tx /\ ans' = Head(todo).ans
  /\ todo' = Tail(todo)
  /\ snap' = [state |-> state, gp |-> gp]
  /\ pc' = "preCheck"
  /\ UNCHANGED <<stateVars, chain, phase, parent, block, header, tried, accepted,
                 execution, coinbase, usedGas>>

\* An error of any transaction refuses the block.
ProcessFails ==
  /\ phase = "process" /\ pc = "failed"
  /\ phase' = "bad"
  /\ UNCHANGED <<stateVars, chain, parent, block, todo, header, tried, accepted,
                 txVars, coinbase, usedGas, pc>>

\* ValidateState compares the gas used and the state root; then the block is
\* accepted and the worker may build on it.
ValidateState ==
  /\ phase = "process" /\ pc = "idle"
  /\ todo = <<>>
  /\ IF header = [root |-> state, gasUsed |-> usedGas]
     THEN /\ phase' = "build"
          /\ parent' = state
          /\ accepted' = accepted \o [i \in DOMAIN block |-> block[i].tx]
          /\ gp' = Capacity
          /\ usedGas' = 0
          /\ block' = <<>>
          /\ header' = Nil
     ELSE phase' = "bad" /\ UNCHANGED <<parent, accepted, gp, usedGas, block, header>>
  /\ UNCHANGED <<chain, state, todo, tried, txVars, coinbase, pc, gasRemaining>>

\* A refused block leaves the node where it was.
RefuseBlock ==
  /\ phase = "bad"
  /\ phase' = "build"
  /\ state' = parent
  /\ gp' = Capacity
  /\ usedGas' = 0
  /\ block' = <<>> /\ todo' = <<>>
  /\ header' = Nil
  /\ pc' = "idle"
  /\ Forget
  /\ UNCHANGED <<chain, parent, tried, accepted, coinbase>>

Next ==
  \/ PreCheck \/ Execute
  \/ Signal \/ NoSignal \/ SignalReturns
  \/ RefundGas \/ CreditFees \/ Daemon
  \/ ExecutionInvalidated \/ TransactionApplied
  \/ CommitTransaction \/ DropTransaction \/ Assemble
  \/ ReceiveBlock \/ ProcessTransaction \/ ProcessFails \/ ValidateState \/ RefuseBlock

Spec == Init /\ [][Next]_vars

-----------------------------------------------------------------------------
\* Between transactions the balances sum up to those of the genesis and what
\* the storage of the daemon contract says it requested, apart from requests it
\* did not return as a word, for which nothing is ever minted: purchase of gas,
\* transfers, moves of genesis contracts, refunds, the nominal fee of a
\* prioritised call, the split of the fee and the mint neither lose nor make
\* anything, also when a signal or the daemon's call fails or a mint is refused.
SupplyAccounted ==
  pc = "idle" =>
    FoldFunction(+, 0, state.balance) = Supply + state.requested - state.unanswered

\* Between transactions the gas pool and the gas used add up to what the block
\* started with, although transactions take their limit from the pool, return
\* the rest, or fail in between and are dropped.
GasIsConserved ==
  /\ pc = "idle" /\ phase = "build" => gp + usedGas = Capacity
  /\ pc = "idle" /\ phase = "process" => gp + usedGas = GasLimit

\* A block the worker built is never refused: processing it again reaches the
\* same state and gas, although the worker tried other transactions in between
\* and made a context for each, and whatever the order in which the votes of
\* the attestors are counted.
BuiltBlockVerifies == phase = "bad" => header = Nil

\* No transaction is included twice in a chain, although it may stay pending
\* after its block.
IncludedOnce == IsInjective(accepted)

\* What the transaction cost its sender, besides the value.
FeePaid(after) ==
  snap.state.balance[tx.from] - after.balance[tx.from] - IF ans.vmerr THEN 0 ELSE tx.value

\* A sender pays the value if it was transferred and, for the fee, the price
\* of the gas used, but no more than the nominal fee for a prioritised call.
PaysWhatIsOwed ==
  [][pc = "end" /\ pc' = "idle" =>
       LET fee == (usedGas' - usedGas) * GasPrice
       IN  FeePaid(state') = IF ~ans.vmerr /\ IsPrioritisedContractCall
                             THEN Lesser(fee, TxGas * chain.nominalGasPrice)
                             ELSE fee]_vars


=============================================================================
