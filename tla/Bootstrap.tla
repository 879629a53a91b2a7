------------------------------ MODULE Bootstrap ------------------------------
(***************************************************************************)
(* A node that catches up with the network (Bootstrapper, and storage.go   *)
(* beside it).  It polls the beacons for a block the network has accepted, *)
(* fetches the ancestry of that block from peers that may not answer, and  *)
(* executes what it fetched, oldest block first.  It may stop at any time, *)
(* and then only last and db are left.                                     *)
(*                                                                         *)
(* A request is known by the block it asks for: fetch never asks for a     *)
(* block twice, and an answer to a request that was given up is ignored.   *)
(* Handlers run under the lock of the chain; the loops that a stop can     *)
(* interrupt, process and execute, take one step for each block.           *)
(***************************************************************************)
EXTENDS BlockTree, IntervalTree, BeaconPoll

CONSTANTS
  NetworkChain,       \* the blocks the network accepts, without Genesis
  FirstTip,           \* the block it has reached at first
  Faulty,             \* the beacons that answer anything
  Checkpoints,        \* genesis.GetCheckpoints
  MaxAncestors,       \* the most blocks in one Ancestors message
  BatchWritePeriod,   \* batchWritePeriod
  Unlimited,          \* the first executedStateTransitions, math.MaxInt
  MaxStops,           \* bound: how often the node stops
  MaxFailures         \* bound: how many requests fail

ASSUME HeightsFit == \A b \in AnyBlock : Height[b] \in Height[Genesis]..MaxHeight

VARIABLES
  last,          \* the last accepted block, kept by the virtual machine
  db,            \* [blocks, intervals]: what bootstrapping has on disk
  mode,          \* where the bootstrapper is in its protocol
  minority,      \* the poll for the frontier
  majority,      \* the poll for the accepted blocks
  tree,
  missing,       \* missingBlockIDs
  outstanding,   \* the blocks asked for in outstandingRequests
  batch,         \* db as it will be when the open batch is written
  work,          \* how far the loop of the running handler is
  executed,      \* executedStateTransitions
  awaitingTimeout,
  synced,        \* the other chains of the subnet are bootstrapped
  network,       \* [tip, settled]: what the correct beacons have accepted
  faults         \* [stops, failures]: counted for the bounds

polls == <<minority, majority>>
outside == <<synced, network, faults>>
vars == <<last, db, mode, polls, tree, missing, outstanding, batch, work,
          executed, awaitingTimeout, outside>>

Idle == [kind |-> "idle"]

\* What a stop leaves of the memory of the node: nothing, until Start.
Stopped ==
  /\ mode' = "down"
  /\ minority' = NewMinority({}) /\ majority' = NewMajority
  /\ tree' = NewTree({}) /\ missing' = {} /\ outstanding' = {}
  /\ batch' = db' /\ work' = Idle
  /\ executed' = Unlimited /\ awaitingTimeout' = FALSE

Init ==
  /\ last = Genesis /\ db = [blocks |-> {}, intervals |-> {}]
  /\ mode = "down"
  /\ minority = NewMinority({}) /\ majority = NewMajority
  /\ tree = NewTree({}) /\ missing = {} /\ outstanding = {}
  /\ batch = db /\ work = Idle
  /\ executed = Unlimited /\ awaitingTimeout = FALSE
  /\ synced = FALSE
  /\ network = [tip |-> FirstTip, settled |-> FALSE]
  /\ faults = [stops |-> 0, failures |-> 0]

-----------------------------------------------------------------------------
(* Starting.                                                               *)

\* Bug: the hole just above the last accepted block is not looked for.
MissingAboveHole(blocks, known, h) ==
  {Parent[b] : b \in {a \in blocks : \E i \in known : i.lower = Height[a] /\ i.lower > h + 2}}

\* getMissingBlockIDs: the parent of the first block of every interval that
\* does not start at the block to accept next, or below.
MissingBlockIDs(blocks, known, h) ==
  {Parent[b] : b \in {a \in blocks : \E i \in known : i.lower = Height[a] /\ i.lower > h + 1}}

Start ==
  /\ mode = "down"
  /\ mode' = "starting"
  /\ tree' = NewTree(db.intervals)
  /\ missing' = MissingBlockIDs(db.blocks, db.intervals, Height[last])
  /\ UNCHANGED <<last, db, polls, outstanding, batch, work, executed,
                 awaitingTimeout, outside>>

\* startBootstrapping: a new sample, and the first requests of it.
StartBootstrapping ==
  /\ \E sample \in Samples :
       minority' \in Sent(NewMinority(sample))
  /\ majority' = NewMajority
  /\ mode' = "polling"
  /\ work' = Idle

\* tryStartBootstrapping, once the startup tracker sees enough stake connected.
Connected ==
  /\ mode = "starting"
  /\ StartBootstrapping
  /\ UNCHANGED <<last, db, tree, missing, outstanding, batch, executed,
                 awaitingTimeout, outside>>

-----------------------------------------------------------------------------
(* Syncing and executing are entered at the end of several handlers.       *)

\* tryStartExecuting, up to the loop of execute.  It returns early as long as
\* something is missing, or while it waits for the rest of the subnet.
TryStartExecuting ==
  IF missing' # {} \/ awaitingTimeout'
  THEN mode' = "syncing" /\ work' = Idle
  ELSE /\ mode' = "executing"
       /\ work' = [kind |-> "execute", left |-> db'.blocks, from |-> Height[last],
                   num |-> tree'.num, sinceWrite |-> 0, accepting |-> {}]

\* startSyncing.  The virtual machine has the accepted blocks: processing one
\* of them only removes it from the missing ones.
StartSyncing(accepted) ==
  /\ missing' = (missing \cup Checkpoints \cup accepted) \ Ancestors[last]
  /\ outstanding' = outstanding \cup missing'
  /\ UNCHANGED <<tree, db, batch, awaitingTimeout>>
  /\ TryStartExecuting

-----------------------------------------------------------------------------
(* The polls.                                                              *)

\* sendBootstrappingMessagesOrFinish, after an answer changed a poll to mi, ma.
SendMessagesOrFinish(mi, ma) ==
  IF NumToSend(mi) > 0 \/ ~Finished(mi)
  THEN /\ minority' \in Sent(mi)
       /\ majority' = ma
       /\ UNCHANGED <<mode, tree, db, batch, missing, outstanding, work, awaitingTimeout>>
  ELSE IF NumToSend(ma) > 0 \/ ~Finished(ma)
  THEN /\ minority' = mi
       /\ majority' \in Sent(ma)
       /\ UNCHANGED <<mode, tree, db, batch, missing, outstanding, work, awaitingTimeout>>
  ELSE IF AcceptedBlocks(ma) = {}
  THEN /\ StartBootstrapping
       /\ UNCHANGED <<tree, db, batch, missing, outstanding, awaitingTimeout>>
  ELSE /\ minority' = NewMinority({}) /\ majority' = NewMajority
       /\ StartSyncing(AcceptedBlocks(ma))

\* A correct beacon has accepted the tip, or is one block behind.
LastAcceptedOf(n) ==
  IF n \in Faulty THEN AnyBlock
  ELSE {network.tip} \cup (IF network.settled THEN {} ELSE {Parent[network.tip]})

AcceptedFrontier(n) ==
  /\ mode = "polling" /\ n \in minority.outstanding
  /\ \E b \in LastAcceptedOf(n) :
       SendMessagesOrFinish(RecordFrontier(minority, n, {b}), majority)
  /\ UNCHANGED <<last, executed, outside>>

Accepted(n) ==
  /\ mode = "polling" /\ n \in majority.outstanding
  /\ \E blks \in IF n \in Faulty THEN SUBSET minority.received
                 ELSE {minority.received \cap Ancestors[b] : b \in LastAcceptedOf(n)} :
       SendMessagesOrFinish(minority, RecordAccepted(majority, n, blks))
  /\ UNCHANGED <<last, executed, outside>>

RequestFails ==
  /\ faults.failures < MaxFailures
  /\ faults' = [faults EXCEPT !.failures = @ + 1]
  /\ UNCHANGED <<synced, network>>

\* GetAcceptedFrontierFailed and GetAcceptedFailed: an answer without blocks.
PollFailed(n) ==
  /\ mode = "polling"
  /\ RequestFails
  /\ \/ /\ n \in minority.outstanding
        /\ SendMessagesOrFinish(RecordFrontier(minority, n, {}), majority)
     \/ /\ n \in majority.outstanding
        /\ SendMessagesOrFinish(minority, RecordAccepted(majority, n, {}))
  /\ UNCHANGED <<last, executed>>

-----------------------------------------------------------------------------
(* Fetching.                                                               *)

\* A peer sends the block and the k - 1 blocks before it.
SentWith(b, k) == {a \in Ancestors[b] : Height[a] > Height[b] - k}

ReceiveAncestors(b, k) ==
  /\ mode = "syncing" /\ b \in outstanding
  /\ mode' = "processing"
  /\ outstanding' = outstanding \ {b}
  /\ work' = [kind |-> "process", blk |-> b, sent |-> SentWith(b, k)]
  /\ UNCHANGED <<last, db, polls, tree, missing, batch, executed,
                 awaitingTimeout, outside>>

\* Bug: a request that failed is forgotten.
AncestorsGivenUp(b) ==
  /\ mode = "syncing" /\ b \in outstanding
  /\ RequestFails
  /\ outstanding' = outstanding \ {b}
  /\ UNCHANGED <<last, db, mode, polls, tree, missing, batch, work, executed,
                 awaitingTimeout>>

\* GetAncestorsFailed, and Ancestors with no block, with blocks that do not
\* parse or with another first block: the block is asked for again.
AncestorsFailed(b) ==
  /\ mode = "syncing" /\ b \in outstanding
  /\ RequestFails
  /\ outstanding' = (outstanding \ {b}) \cup {b}
  /\ UNCHANGED <<last, db, mode, polls, tree, missing, batch, work, executed,
                 awaitingTimeout>>

PutBlock(blocks, b) == {a \in blocks : Height[a] # Height[b]} \cup {b}

\* One turn of the loop of process.
ProcessBlock ==
  /\ mode = "processing" /\ work.kind = "process"
  /\ LET b == work.blk
         h == Height[b]
         found == [kind |-> "processed", new |-> {}]
     IN  /\ missing' = missing \ {b}
         /\ IF h <= Height[last] \/ TreeContains(tree, h)
            THEN work' = found /\ UNCHANGED <<tree, batch>>
            ELSE /\ tree' = TreeAdd(tree, h)
                 /\ batch' = [blocks    |-> PutBlock(batch.blocks, b),
                              intervals |-> EntriesAdd(tree, batch.intervals, h)]
                 /\ work' = IF h - 1 = Height[last] \/ TreeContains(tree', h - 1)
                            THEN found
                            ELSE IF Parent[b] \in work.sent
                            THEN [work EXCEPT !.blk = Parent[b]]
                            ELSE [found EXCEPT !.new = {Parent[b]}]
  /\ UNCHANGED <<last, db, mode, polls, outstanding, executed, awaitingTimeout, outside>>

\* After the loop the batch is written and a new missing block asked for.
FinishProcessing ==
  /\ mode = "processing" /\ work.kind = "processed"
  /\ db' = batch
  /\ missing' = missing \cup work.new
  /\ outstanding' = outstanding \cup work.new
  /\ UNCHANGED <<last, polls, tree, batch, executed, awaitingTimeout, outside>>
  /\ TryStartExecuting

-----------------------------------------------------------------------------
(* Executing.                                                              *)

Lowest(blocks) == CHOOSE b \in blocks : \A a \in blocks : Height[b] <= Height[a]

\* One turn of the loop of execute, up to Verify and Accept.
ExecuteBlock ==
  /\ mode = "executing" /\ work.accepting = {} /\ work.left # {}
  /\ LET b == Lowest(work.left)
         h == Height[b]
         write == work.sinceWrite + 1 >= BatchWritePeriod
     IN  /\ tree' = TreeRemove(tree, h)
         /\ batch' = [blocks    |-> {a \in batch.blocks : Height[a] # h},
                      intervals |-> EntriesRemove(tree, batch.intervals, h)]
         /\ db' = IF write THEN batch' ELSE db
         /\ work' = [work EXCEPT !.left = @ \ {b},
                                 !.sinceWrite = IF write THEN 0 ELSE @ + 1,
                                 !.accepting = IF h <= work.from THEN {} ELSE {b}]
  /\ UNCHANGED <<last, mode, polls, missing, outstanding, executed,
                 awaitingTimeout, outside>>

\* Verify and Accept.  The virtual machine verifies a block that extends its
\* last accepted block; that no other block gets here is a property.
AcceptBlock ==
  /\ mode = "executing" /\ work.accepting # {}
  /\ last' \in work.accepting
  /\ work' = [work EXCEPT !.accepting = {}]
  /\ UNCHANGED <<db, mode, polls, tree, missing, outstanding, batch, executed,
                 awaitingTimeout, outside>>

RestartBootstrapping ==
  /\ outstanding' = {}
  /\ StartBootstrapping

\* onFinished: the engine of normal operation takes over.
OnFinished ==
  /\ mode' = "normal" /\ work' = Idle
  /\ UNCHANGED <<polls, outstanding>>

\* The end of execute, and of tryStartExecuting.
FinishExecuting ==
  /\ mode = "executing" /\ work.accepting = {} /\ work.left = {}
  /\ db' = batch
  /\ executed' = work.num
  /\ \/ /\ work.num > 0 /\ work.num < executed \div 2
        /\ RestartBootstrapping
        /\ UNCHANGED awaitingTimeout
     \/ /\ ~(work.num > 0 /\ work.num < executed \div 2)
        /\ IF synced
           THEN OnFinished /\ UNCHANGED awaitingTimeout
           ELSE /\ mode' = "syncing" /\ work' = Idle
                /\ awaitingTimeout' = TRUE
                /\ UNCHANGED <<polls, outstanding>>
  /\ UNCHANGED <<last, tree, missing, batch, outside>>

Timeout ==
  /\ mode = "syncing" /\ awaitingTimeout
  /\ awaitingTimeout' = FALSE
  /\ IF synced THEN OnFinished ELSE RestartBootstrapping
  /\ UNCHANGED <<last, db, tree, missing, batch, executed, outside>>

-----------------------------------------------------------------------------
(* Stops, and the world outside.                                           *)

MayStop ==
  /\ mode # "down" /\ faults.stops < MaxStops
  /\ faults' = [faults EXCEPT !.stops = @ + 1]
  /\ UNCHANGED <<last, synced, network>>

\* Halted ends the loop of execute, which still writes its batch.
Halt ==
  /\ mode = "executing" /\ work.accepting = {}
  /\ MayStop
  /\ db' = batch
  /\ Stopped

Crash ==
  /\ MayStop
  /\ UNCHANGED db
  /\ Stopped

NetworkAccepts ==
  /\ ~network.settled
  /\ \/ \E b \in NetworkChain : Parent[b] = network.tip /\ network' = [network EXCEPT !.tip = b]
     \/ /\ \A b \in NetworkChain : Parent[b] # network.tip
        /\ network' = [network EXCEPT !.settled = TRUE]
  /\ UNCHANGED <<last, db, mode, polls, tree, missing, outstanding, batch, work,
                 executed, awaitingTimeout, synced, faults>>

OthersBootstrapped ==
  /\ ~synced /\ synced' = TRUE
  /\ UNCHANGED <<last, db, mode, polls, tree, missing, outstanding, batch, work,
                 executed, awaitingTimeout, network, faults>>

\* What the node does by itself or when it is answered.
Step ==
  \/ Start
  \/ Connected
  \/ \E n \in Beacon : AcceptedFrontier(n) \/ Accepted(n)
  \/ \E b \in AnyBlock, k \in 1..MaxAncestors : ReceiveAncestors(b, k)
  \/ ProcessBlock
  \/ FinishProcessing
  \/ ExecuteBlock
  \/ AcceptBlock
  \/ FinishExecuting
  \/ Timeout

Next ==
  \/ Step
  \/ \E n \in Beacon : PollFailed(n)
  \/ \E b \in AnyBlock : AncestorsFailed(b)
  \/ Halt
  \/ Crash
  \/ NetworkAccepts
  \/ OthersBootstrapped

Spec == Init /\ [][Next]_vars

\* Messages are answered or fail, and the handlers run on; the network comes to
\* rest, and the other chains of the subnet finish.
FairSpec ==
  Spec /\ WF_vars(Step) /\ WF_vars(NetworkAccepts) /\ WF_vars(OthersBootstrapped)

-----------------------------------------------------------------------------
(* Properties.                                                             *)

HeightsOf(blocks) == {Height[b] : b \in blocks}

\* What is on disk can be started from at any moment: the intervals are those of
\* the stored blocks, and what a batch still has to write takes the disk to the
\* intervals in memory (process and execute write blocks and intervals together).
StoreIsConsistent ==
  /\ \A d \in {db, batch} :
       IsTree(d.intervals) /\ Heights(d.intervals) = HeightsOf(d.blocks)
  /\ mode # "down" => tree.known = batch.intervals

\* Below every gap-free run of fetched blocks the next block down is known to be
\* missing, also after a stop in the middle of execute, and while the node is
\* syncing every missing block has been asked for (getMissingBlockIDs, process,
\* fetch).  Execution so begins without a gap: nothing is missing then.
GapsAreMissing ==
  LET accepting == IF mode = "executing" THEN work.accepting ELSE {}
      next == Max(HeightsOf({last} \cup accepting)) + 1
  IN  /\ mode \notin {"down", "processing"} =>
           \A i \in tree.known :
             i.lower > next => \E b \in missing : Height[b] = i.lower - 1
      /\ mode = "syncing" => missing \subseteq outstanding

\* The node accepts the blocks of the network, each on top of the one before and
\* none twice, whatever a minority of the beacons answers and wherever it stops
\* (Majority, execute).
FollowsTheNetwork ==
  [][last' # last => last' \in NetworkChain /\ Parent[last'] = last]_vars

\* Bootstrapping ends although requests fail, the node stops and the network
\* goes on (step 6 in the comment on Bootstrapper).
EntersNormalOperation == <>[](mode = "normal")

=============================================================================
