# A TLA+ model of go-titan

go-titan is a Snow consensus node (a fork of avalanchego) with its EVM chain (a
fork of coreth). The modules here model, from the source in `src/`, how a node
catches up with the network, agrees on blocks, keeps its requests and peers,
exchanges outputs between chains, and applies the transactions of the C-chain.
TLC checks them on small instances, and TLAPS proves what matters most about
seven of them. The properties below hold of the code as modelled, with one
exception: a comment of the engine says more than the code does (see Findings).

## The system

A node runs a number of chains. For each one it

1. **bootstraps** (`snow/engine/snowman/bootstrap`): it polls beacons for what
   the network has accepted, fetches the blocks it misses, keeps track of them in
   an interval tree on disk, and executes them oldest first;
2. collects **blocks** from its virtual machine and from peers, and issues a
   block to consensus once its ancestors are issued and it is verified
   (`snow/engine/snowman`);
3. asks samples of K validators, again and again, which block they prefer, and
   gathers the answers of each **poll** (`snow/consensus/snowman/poll`);
4. hands the votes to **Snowman consensus** (`snow/consensus/snowman`), which
   counts a vote for a block as a vote for its ancestors and lets the children
   of every block compete in
5. a **snow tree** (`snow/consensus/snowball/tree.go`): a patricia tree over the
   bits of the children's identifiers, with
6. a **snowflake instance** at every node (`snow/consensus/snowball/*_snowflake.go`)
   that switches its preference on `AlphaPreference` votes and is decided after
   `beta` consecutive polls with `AlphaConfidence` votes.

A decided child of the last accepted block is accepted and the blocks in conflict
with it are rejected. Requests go through the **router**
(`snow/networking/router`), which gives each a timeout (`utils/timer`), passes on
one answer or failure, and tells chains which peers are there, leaving out those
a **benchlist** (`snow/networking/benchlist`) holds for unresponsive. Accepted
blocks exchange outputs through **shared memory** (`chains/atomic`), which the
C-chain reaches through its **atomic backend**
(`coreth/plugin/evm/atomic/state`). The C-chain applies transactions with the
fork's own **state transition** (`coreth/core`): fees are shared between a burn
address and a reward pool, some calls are cheap, others signal genesis contracts
through `block.coinbase`, and a daemon contract is called after every transaction
and may mint. `PROJECT.json` lists all parts, modelled or not.

## Modules

| Module | Models | State and actions |
| --- | --- | --- |
| `Snowflake` | the three instance types | operators from an instance and a poll to the next instance; `CountPoll` and `Finalizes` are the loop over the termination conditions with its early returns |
| `NnarySnowflake` | one n-nary instance | `sf`; `RecordPoll`, `RecordUnsuccessfulPoll`; `streak` is an independent account of the polls |
| `IdBits` | `ids.EqualSubset`, `ids.FirstDifferenceSubset` | pure operators with byte masks, used by `SnowTree` |
| `SnowForest` | what a snow tree promises | one instance for each prefix, every reset at once |
| `SnowTree` | `snowball.Tree` with `unaryNode` and `binaryNode` | `TreeAdd`, `TreeRecordPoll`, `TreeRecordUnsuccessfulPoll`, and `ForestOf`, the forest a tree stands for |
| `SnowTreePolls` | one tree | `Add`, `RecordPoll`, `RecordUnsuccessfulPoll` on a tree and a forest side by side |
| `BlockTree` | the blocks there are | constants and their assumption |
| `Ledger` | what consensus promises the virtual machine | `Issue`, `Decide` |
| `Snowman` | what a poll means with nothing deferred | operators on forests, one for each block with children |
| `Topological` | `snowman.Topological` | `Add`, `RecordPoll` whole, with `blocks`, `shouldFalter`, the three preference caches; `eager` is `Snowman` given the same calls |
| `TopologicalLiveness` | the same, with polls that come to agree | `IssueBlock`, `ArbitraryPoll`, `CalmDown`, `UnanimousPoll` |
| `VotePropagation` | `calculateInDegree` and `pushVotes` step by step | `CountVote`, `PushVotes` in any order of the Go maps |
| `PollSet` | `poll.set` over `earlyTermPoll` | `Add`, `Vote`, `Drop`, and `Issue` of blocks meanwhile |
| `Engine` | the Snowman engine, with `job.Scheduler`, `ancestor.Tree`, `voter`, `issuer` and `memoryBlock` | one action for each handler (`Put`, `PullQuery`, `GetFailed`, `Chits`, `QueryFailed`, `Notify`, `Gossip`) and for each stretch of code between two nested calls; `stack` holds the calls in progress |
| `IntervalTree` | `interval.Tree` and its entries on disk | operators: `TreeAdd`, `TreeRemove`, `TreeContains`, and `EntriesAdd`, `EntriesRemove` for what they write |
| `BeaconPoll` | `Minority` and `Majority` | operators on a poll, and the samples that may be drawn |
| `Bootstrap` | `Bootstrapper`, `process`, `execute` | one action for each handler; the loops that a stop can cut take one step for each block; `Crash` keeps only `last` and `db`, `Halt` also writes the open batch |
| `RouterRequests` | requests and timeouts: `ChainRouter`, `timeout.Manager`, `adaptiveTimeoutManager`, `Timer` | `RegisterRequest` and `SendRequest` (the code between them runs unlocked), `HandleInbound`, `HandleInternal`, `TimeoutHandler`; the dispatch loop as `DispatchReset`, `DispatchFire`, `NextTimeout`, `TimeoutReturns` |
| `RouterPeers` | peers and chains in `ChainRouter`, one `benchlist` for each chain | `Connect`, `ConnectSubnet`, `Disconnected`, `AddChain`, `RemoveChain`, `RegisterFailure`, `RegisterResponse`; `run()` as `BencherWakes`, `BencherLooks`, `BencherReceives`, `RemovedExpiredNodes`, `DurationToSleep` |
| `SharedMemory` | `atomic.Memory` and `sharedMemory`, coreth's atomic backend | `Apply` as `ApplyMakesLock`, `ApplyLocks`, `ApplyWrites`, `ApplyReturns`; `Indexed` in its two reads; `Accept` of a block, the end of a state sync, `ApplyToSharedMemory` batch by batch; `Crash` |
| `StateTransition` | `TransitionDb` with the fork's additions, the miner's worker, `Process` and `ValidateState` | `PreCheck`, `Execute`, `Signal` and `SignalReturns`, `RefundGas`, `CreditFees`, `Daemon`, the end of a transaction; `CommitTransaction`, `DropTransaction`, `Assemble`; `ReceiveBlock`, `ProcessTransaction`, `ValidateState` |
| `LeastNumber` | the least-number principle the proofs use | |
| `*Proofs` | theorems about the module of that name | |

How they compose: `SnowTree` is built from `Snowflake` and `IdBits`,
`Topological` from one `SnowTree` for each block, and `PollSet` produces the bags
of votes that `Topological` takes. `Topological` takes the result of the Kahn
sort as an operator (`VoteStack`); `VotePropagation` shows that the code's sort
computes it. `Topological` implements `Ledger` (`ImplementsLedger`), and what is
proved of `Ledger` for every tree of blocks therefore holds of it as far as the
refinement is checked. `Engine` uses `Ledger` as its consensus, any decision it
allows being possible when a poll finishes, and counts its polls; that it only
takes steps of the ledger is its `ImplementsLedger`, which is proved. `PollSet`
and `Topological` are not composed with it. `Bootstrap` is composed of
`IntervalTree` and `BeaconPoll` and ends where `Engine` begins. The router's two
modules share its lock but no state other than the set of chains, so that they
are checked apart; `RouterRequests` is what justifies the fairness that `PollSet`,
`Engine` and `Bootstrap` assume of requests. Definitions whose comment begins
with *Bug:* are deliberately wrong variants of the definition after them, kept to
show that the properties notice.

Data is abstracted as follows. An identifier is a tuple of `NumBits` bits (256 in
the code) in bytes of `BitsPerByte`. A block is its identifier; the tree of all
blocks that may ever be issued is a constant, as a block names its parent for
good. A bag of votes is a function from blocks to counts. A request is known by a
name for its node, chain, number and operation. A deadline is whether it has
passed. A batch written to a database is one step. An amount is a number below
`Word`, and products are taken modulo `Word`. What the EVM, the contracts and the
attestors answer to a transaction is a record chosen when the worker runs it and
the same when the block is processed again. Logging, metrics and errors of the
databases and of the virtual machine's `Accept` and `Reject` (which stop the
chain) are left out.

## Runs

| Run | Configuration | Question |
| --- | --- | --- |
| `snow_tree` | 4 identifiers of 3 bytes of 2 bits, K = 3, beta = 2 | is a tree with shared instances and deferred resets one instance for each prefix with resets at once; is every cached preference current; can only the root be decided |
| `snowman` | 5 blocks in 3 levels with two conflicts, K = 3, beta = 2 | are deferred falters and cached preferences invisible; is every decision acted on in its poll; is `Ledger` implemented; does everything get decided once polls agree with the node |
| `vote_propagation` | 6 blocks, every issued subtree, K = 4 | is the stack the majority branch, in every order of the maps |
| `polls` | 2 polls of 5, 4 validators, repeated samples, 3 blocks | are results handed over in order and complete, with lost and repeated answers; is an early result final |
| `engine` | 5 blocks on two branches, one an oracle block, 1 waiting vote, queries may be dropped | does anything wait for what will not come; are votes bubbled to the nearest processing block, with any eviction from the cache; is consensus used as `Ledger` allows |
| `engine_voters` | 3 blocks, 2 waiting votes, 2 concurrent polls, a start at an oracle block, 1 block built | is a job lost or run twice; are there polls while blocks are processing; does every handler return, and every vote leave the scheduler |
| `engine_bubbled_vote` | 3 blocks, 1 waiting vote | a comment of `getProcessingAncestor`, which is violated |
| `bootstrap` | a chain of 4 blocks with a fork, 3 beacons, one faulty, 2 stops, 1 failure | can the disk be started from at any moment; is every gap known and asked for; is only the network's chain accepted, in order; does it end |
| `requests` | 3 requests of one chain | one answer each; does every request end |
| `peers` | 1 peer that connects twice, 2 chains on 2 subnets, with and without sybil protection | do the chains know who is there; does every bench end |
| `shared_memory` | 3 chains, 6 blocks, a state sync over 2 or 3 blocks, 1 crash, a lookup meanwhile | is shared memory what the accepted blocks make it; is an operation applied twice; can `Apply` deadlock |
| `state_transition` | 5 chains (Titan, Titan with all fees for the validators, Flare before Durango, Flare before Granite, Songbird), 2 senders, 10 transactions, 6 answers, 3 transactions included | is money accounted for, and gas; does every node accept what the worker built; is a transaction included twice; who pays and who gets what |

Why the bounds are enough. Three bytes of two bits give a range within a byte,
one over a boundary and one with a byte between, and the identifiers part at the
first bit, at the last and in the middle, so that all five cases of a split
(first, last, interior, only bit, no difference) and a split below a split occur.
The runs of the trees have more polls than any deferred mark can survive. Five
blocks give consensus a conflict below a conflict, a branch of length two beside
another, and a poll that accepts two blocks. `polls` has two siblings that share a
prefix and a grandchild, which is what its prefix counts tell apart, and a second
poll of one validator drawn five times, which finishes first. Five blocks give
the engine a branch of three that can arrive in any order, an oracle block with
its options, one of which has a child, and a block in conflict with them; one
waiting vote already names two blocks, and the second vote, with fewer blocks,
gives lists of more than one job. `MaxBuilds` bounds `pendingBuildBlocks`. The
number of outstanding answers is the number of `Voter`s. `LatePollBound` (in
`SnowTreePolls`) stops the counter of a decided tree one poll after the decision;
nothing reads that counter.

A chain of four with messages of at most two blocks and a write period of two
makes `bootstrap` fetch in pieces, from the checkpoint and from the tip, join
intervals from both sides, and stop with a batch half written; two stops
(`MaxStops`) give a stop after a restart, `MaxFailures` is one because a failed
request leaves nothing behind but the next request. Three requests are one that is
due, one that is answered and one that is added while `timeout()` runs. Two chains
can bench one peer at the same time, and what a benchlist does for two peers it
does for each (`MaxConnects` bounds reconnections; the theorem has no such
bounds). In `shared_memory` each chain has a block that touches both others, which
is what a circle of locks needs; keys are removed before and after they are put;
a batch is full after every key (`BatchSize` 0), and the crash (`MaxCrashes`) may
come between any two. In `state_transition` a block may hold transactions of both
senders, some of which fail before and after they bought gas; `MaxTxs` bounds the
transactions included, and `Capacity` and `GasLimit` let two or three into a block.
The answers of the daemon contract are an error, an answer that is not a word, a
request the limit allows and one above it.

Fairness. `EveryPollFinishes`: each validator asked answers, fails or times out
(`EveryRequestEnds` of `RouterRequests`). `EverythingIsDecided`: the engine polls
while blocks are processing (`Engine.repoll`), and from some point on every poll
returns K votes for the node's preference. `HandlersReturn` and `VotersExecute`: a
call goes on (one goroutine runs a handler to its end under the lock of the
chain), and no block is on request for ever (again the timeout, which calls
`GetFailed`). The fairness of these four is written as temporal formulas that say
what weak fairness of those steps says, as the comments next to them explain.
`EntersNormalOperation`: handlers run on, requests are answered or fail
(`MaxFailures` times), the network and the other chains of the subnet come to
rest. `EveryRequestEnds` and `EveryBenchEnds`: goroutines are scheduled and time
goes on; nobody has to answer. A goroutine that waits for a message is not helped
by fairness: `waitForBenchedNodes` looks at the heap in one step and receives from
`resetTimer` in another, and without the message that `bench` leaves there it
would wait for ever.

No deadlock is checked where the model really may stop: when every block is
decided, every bound is used up, or the node is shut down.

## Theorems

`NnarySnowflakeProofs`, for every K, alpha, list of termination conditions and
set of choices that `Parameters.Verify` and the comments of the instance types
allow (`ParametersVerified`). The inductive invariant is the conjunction of
`TypeOK`, `ConfidenceIsStreak`, `ConfidenceOrdered`, `UndecidedBelowBeta` and
`OnlyPreferenceStreaks`, which says that no other choice has a streak:
the order of the counters is needed to see that a loop which stops at condition i
has not skipped a later counter at its beta, and the streaks are what makes the
order inductive. `FinalDecisions` and `DecisionsOnStreaks` are action properties
that follow from it. These properties are proved and have no run.

`LedgerProofs`, for every tree of blocks (`BlocksFormATree`: heights increase by
one from parent to child, `Ancestors` is what following parents gives). That
ancestors are transitive and that the ancestors of a block form a line is proved
first, by looking at a lowest block for which it fails (`LowestBlock`, from
`LeastNumber`): the provers have no induction scheme over data. The inductive
invariant is the conjunction of `TypeOK`, `AcceptedIsChain`,
`ProcessingExtendsLast` and `RejectedConflicts`. They need each other: a rejected
block stays in conflict when the chain grows because the chain grows from its old
end, and it does so because processing blocks extend it. `OneBlockPerHeight` and
`OneStatePerBlock` follow. These too have no run of their own; the runs check that
`Topological` and `Engine` implement the ledger.

`EngineProofs`, for every tree of blocks, every choice of oracle blocks with
distinct children as options, any number of waiting votes and every bound
(`BlocksFormATree`, `EngineAssumption`). Every step of the engine is a step of
`Ledger` or leaves consensus alone. The ledger refuses a block that is issued
twice or was decided, and the code does not look: it tests that the parent is
processing or accepted last and that the block is not processing. That this is
enough is `Fresh`, from the invariant of `LedgerProofs`. For the options of an
oracle block the code tests nothing, so the inductive invariant has
`OptionsAreNew`: they are added by the innermost call, directly after their
parent, and those still to come are not in consensus. `Shapes` is the part of the
type invariant that the calls need.

`IntervalTreeProofs`, for every width of heights. A tree in its only form, as the
set of its maximal runs (`IsTree`), stays so; `TreeAdd` and `TreeRemove` insert
and remove one height (`AddIsInsertion`, `RemoveIsRemoval`), write to disk exactly
what they change in memory, and looking at one interval is enough to find a height
(`ContainsIsMembership`). `JoinedIsOneRun` is the heart of it: what Add puts in is
one run, apart from every interval it did not join.

`BootstrapProofs`, for every tree of blocks, set of beacons, message size, write
period and number of stops and failures: `StoreIsConsistent`. The inductive
invariant `StoreInv` says it of the disk and of the open batch, and adds that a
node that is down has no open batch but the disk, and that loops only hold blocks.
It rests on the theorems about the tree.

`RouterRequestsProofs`, for every set of chains and requests: `AnsweredOnce`. The
inductive invariant `AnswersInv` adds that whatever is in the hands of the
dispatcher, the sender and the peers has been registered.

`RouterPeersProofs`, for every set of nodes, chains and subnets and all stakes:
`ToldWhoIsThere`. The inductive invariant `PeersInv` adds that the router knows
the benches of all benchlists until it closes, that `Connected` comes once for
each subnet with the primary network first, and that a chain which is not
registered yet has been told nothing; `FullInv` adds that only benched nodes
expire. `NoWakeUpIsMissed` is the safety half of `EveryBenchEnds`: while a node is
benched, `run()` blocks only with a message in `resetTimer` or with its timer set
for a benched node. Its inductive invariant `WakeInv` needs no more than the types
of what `run()` reads and that only benched nodes expire.

Only model-checked: liveness, which the prover has no fairness for; everything
about `SnowTree`, `Topological`, `VotePropagation` and `PollSet` (the first two are
recursive on trees, which the provers cannot follow); the refinement of `Ledger`
by `Topological`; the properties of `Engine` other than `ImplementsLedger` and of
`Bootstrap` other than `StoreIsConsistent`; `SharedMemory` and `StateTransition`,
whose properties are about folds over sequences and sums over functions.

## Findings

`engine_bubbled_vote`. `getProcessingAncestor` says "If [bubbledVote] !=
[initialVote], it is guaranteed that [bubbledVote] is in processing." When a block
is accepted, `memoryBlock.Accept` forgets the descendants of its parent that are
reached through unverified blocks. The accepted block is verified, so an
unverified child of it stays in the tree, and a vote for the child is bubbled to
the accepted block. The code copes:
the walk that follows stops at a decided block and the vote is dropped. What does
hold is `UnverifiedIsRooted`, that such a vote is bubbled to a block that is
processing or was accepted last.

Observed while modelling, without a run:

- `atomicDaemonAndMint` takes the call of the daemon contract back when the mint is
  refused, and the EVM takes it back when it fails. A call that succeeds with an
  answer that is empty or not 32 bytes long is only logged (`daemon.go:286`): what
  the contract recorded stays, and nothing is minted for it. `SupplyAccounted`
  therefore leaves such requests out.
- `core/state_connector.go` keeps the state connector "for Titan from genesis",
  but its caller requires that Durango is not active, and Titan has Durango from
  genesis: on Titan the state connector is never signalled. `MCStateTransition`
  has it switched off there.
- When a chain is removed, its requests stay in `timedRequests` of the router:
  their timeouts are dropped for an unknown chain. `EveryRequestEnds` therefore
  speaks of chains that stay registered.

## Not modelled

- **Message handler and queue** (`snow/networking/handler`): which message is
  next depends on measured CPU usage. The engines take messages in any order.
- **State syncer** (`snow/engine/snowman/syncer`): polls like those of `BeaconPoll`
  over summaries whose meaning is the virtual machine's.
- **platformvm, avm, proposervm**: ledgers and schedules with data (stakes,
  rewards, signatures, seeded samplers) that no small instance represents without
  modelling all of it.
- **coreth's blockchain, tries, snapshots and leaf syncing**: their correctness is
  about the layout of a state database. `SharedMemory` takes the atomic trie as
  the set of its keys, `StateTransition` a state root as the state.
- **EVM, contracts, transaction pool, RPC**: external to `StateTransition`. Of
  `state_transition.go`, blob transactions, access lists, the checks skipped for
  RPC calls, the refund counter from before Apricot phase 1 and the price overflow
  check, which `preCheck` makes unreachable, are left out; of a block, what
  `Finalize` adds; of the state connector, the attestors of local networks.
- **Network, databases, node, API, indexer, wallet, command line, simplex**:
  sockets, storage engines, wiring and clients.
- `PollSet` and `Topological` inside `Engine`: the product is out of reach of TLC,
  and the engine's properties do not depend on which vote finishes which poll.
