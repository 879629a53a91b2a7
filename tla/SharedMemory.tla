---------------------------- MODULE SharedMemory -----------------------------
(***************************************************************************)
(* The shared memory through which the chains of a node pass outputs to    *)
(* each other (chains/atomic), with the blocks whose acceptance changes it *)
(* and, for the C-chain, the atomic backend that catches up after a state  *)
(* sync (coreth, plugin/evm/atomic/state).                                 *)
(*                                                                         *)
(* Each chain runs on its own.  What Apply writes for a block it writes in *)
(* one batch with the height of the chain; what the node holds in memory - *)
(* locks, pending writes, positions of iterators - is gone after a crash.  *)
(* Identifiers of chains are numbers, for their order matters.             *)
(***************************************************************************)
EXTENDS Integers, SequencesExt

CONSTANTS
  Chain,            \* a set of numbers
  Key,
  Traits,           \* Traits[k]: the traits of the element with key k
  Hash,             \* Hash[a, b], for a < b: where sharedID falls among the others
  Blocks,           \* Blocks[c][h][p]: the requests to peer p in block h of chain c
  Syncable,         \* the chains with an atomic backend
  Bonus,            \* the heights of bonus blocks, on Syncable chains
  BatchSize,        \* sharedMemoryApplyBatchSize
  MinBlocks,        \* how far ahead a summary has to be for a state sync
  MaxCrashes,       \* bound
  Lookups,          \* bound: the <<c, p>> for which Indexed is called
  Indexed,          \* stands for the goroutine that calls Indexed
  None

ASSUME ChainsAreNumbers == Chain \subseteq Nat \ {0} /\ {None, Indexed} \cap Chain = {}
ASSUME BlocksAreRequests ==
  \A c \in Chain : \A h \in DOMAIN Blocks[c] :
    /\ DOMAIN Blocks[c][h] \subseteq Chain \ {c}
    /\ \A p \in DOMAIN Blocks[c][h] :
         Blocks[c][h][p].removes \in Seq(Key) /\ Blocks[c][h][p].puts \in Seq(Key)

Pair == {<<a, b>> \in Chain \X Chain : a < b}

\* sharedID of a pair of chains, whatever its order.
SharedID(a, b) == <<Min({a, b}), Max({a, b})>>

\* The prefix of inbound and of outbound: each pair has a database for the chain
\* with the smaller identifier to read, and one for the other.
Inbound(me, peer) == IF me < peer THEN "smaller" ELSE "larger"
Outbound(me, peer) == IF me < peer THEN "larger" ELSE "smaller"

Slot == Pair \X {"smaller", "larger"} \X Key

VARIABLES
  memory,       \* memory[<<pair, side, key>>]: the element there and the traits listing it
  accepted,     \* accepted[c]: height of the last accepted block
  cursor,       \* cursor[c]: appliedSharedMemoryCursorKey
  locks,        \* locks[s]: the entry of Memory.locks, if its count is not 0
  mutex,        \* mutex[s][o]: who holds mutex o of pair s
  apply,        \* apply[c]: the call of Apply that chain c makes
  phase,        \* phase[c]: how far the start of chain c is
  pos,          \* pos[c]: the position of the iterator of ApplyToSharedMemory
  reader,       \* a call of Indexed
  failed,       \* the chains, and Indexed, that got an error
  crashes

diskVars == <<memory, accepted, cursor>>
lockVars == <<locks, mutex>>
vars == <<diskVars, lockVars, apply, phase, pos, reader, failed, crashes>>

Idle == [at |-> "idle"]

\* What the node starts with.
NoLocks == [s \in Pair |-> [count |-> 0, mutex |-> 0]]
AllFree == [s \in Pair |-> [o \in {0, 1} |-> None]]
FirstPhase(c) == IF c \in Syncable THEN "start" ELSE "run"

Init ==
  /\ memory = [e \in Slot |-> [value |-> "none", lists |-> {}]]
  /\ accepted = [c \in Chain |-> 0]
  /\ cursor = [c \in Chain |-> None]
  /\ locks = NoLocks /\ mutex = AllFree
  /\ apply = [c \in Chain |-> Idle] /\ reader = Idle
  /\ phase = [c \in Chain |-> FirstPhase(c)] /\ pos = [c \in Chain |-> None]
  /\ failed = {} /\ crashes = 0

-----------------------------------------------------------------------------
(* Elements (state.go).                                                    *)

\* Bug: an element that was removed before it came is not removed.
SetValueAnyway(e, k) ==
  IF e.value = "present" THEN [e EXCEPT !.value = "error"]
  ELSE [value |-> "present", lists |-> Traits[k]]

SetValue(e, k) ==
  CASE e.value = "removed" -> [e EXCEPT !.value = "none"]
    [] e.value = "none" -> [value |-> "present", lists |-> Traits[k]]
    [] OTHER -> [e EXCEPT !.value = "error"]

RemoveValue(e, k) ==
  CASE e.value = "none" -> [e EXCEPT !.value = "removed"]
    [] e.value = "present" -> [value |-> "none", lists |-> e.lists \ Traits[k]]
    [] OTHER -> [e EXCEPT !.value = "error"]

\* The writes that the requests of chain c to peer p make to m: first the removals
\* from what it receives, then the additions to what it sends.
Written(m, c, p, requests) ==
  LET in(k)   == <<SharedID(c, p), Inbound(c, p), k>>
      out(k)  == <<SharedID(c, p), Outbound(c, p), k>>
      removed == FoldLeft(LAMBDA d, k : [d EXCEPT ![in(k)] = RemoveValue(@, k)],
                          m, requests.removes)
      put     == FoldLeft(LAMBDA d, k : [d EXCEPT ![out(k)] = SetValue(@, k)],
                          removed, requests.puts)
  IN  [e \in {in(k) : k \in ToSet(requests.removes)} \cup
             {out(k) : k \in ToSet(requests.puts)} |-> put[e]]

-----------------------------------------------------------------------------
(* Locks (memory.go).  A deleted entry makes room for a new mutex.         *)

\* makeLock
MakeLock(s) ==
  locks' = [locks EXCEPT ![s] =
    [count |-> @.count + 1, mutex |-> IF @.count = 0 THEN 1 - @.mutex ELSE @.mutex]]

\* ReleaseSharedDatabase: releaseLock, then Unlock.  In between the pair is no longer
\* touched, so that one step stands for both.
ReleaseSharedDatabase(s, o) ==
  /\ locks' = [locks EXCEPT ![s].count = @ - 1]
  /\ mutex' = [mutex EXCEPT ![s][o] = None]

-----------------------------------------------------------------------------
(* Apply (shared_memory.go).                                               *)

\* A call with requests, and with a batch that sets the height and the cursor.
CallApply(c, requests, height, cur) ==
  apply' = [apply EXCEPT ![c] =
    [at |-> "loop", requests |-> requests, left |-> DOMAIN requests, held |-> <<>>,
     vdb |-> <<>>, height |-> height, cursor |-> cur]]

\* Bug: the order of the locks depends on the chain that takes them.
PeerAfter(c) ==
  CHOOSE p \in apply[c].left : \A q \in apply[c].left : (p > c /\ q < c) \/ (p <= q /\ (q > c => p > c))

\* The peer whose sharedID comes first.
NextPeer(c) ==
  CHOOSE p \in apply[c].left :
    \A q \in apply[c].left : Hash[SharedID(c, p)] <= Hash[SharedID(c, q)]

\* GetSharedDatabase, first part.
ApplyMakesLock(c) ==
  /\ apply[c].at = "loop" /\ apply[c].left # {}
  /\ LET s == SharedID(c, NextPeer(c))
     IN  /\ MakeLock(s)
         /\ apply' = [apply EXCEPT ![c].at = "lock", ![c].held = Append(@, <<s, locks'[s].mutex>>)]
  /\ UNCHANGED <<diskVars, mutex, phase, pos, reader, failed, crashes>>

\* The mutex is free: the requests of the pair are carried out on vdb.
ApplyLocks(c) ==
  /\ apply[c].at = "lock"
  /\ LET p      == NextPeer(c)
         lock   == Last(apply[c].held)
         writes == Written(apply[c].vdb @@ memory, c, p, apply[c].requests[p])
         error  == \E e \in DOMAIN writes : writes[e].value = "error"
     IN  /\ mutex[lock[1]][lock[2]] = None
         /\ mutex' = [mutex EXCEPT ![lock[1]][lock[2]] = c]
         /\ apply' = [apply EXCEPT ![c].at = IF error THEN "return" ELSE "loop",
                                   ![c].left = @ \ {p},
                                   ![c].vdb = writes @@ @]
         /\ failed' = IF error THEN failed \cup {c} ELSE failed
  /\ UNCHANGED <<diskVars, locks, phase, pos, reader, crashes>>

\* CommitBatch and WriteAll.
ApplyWrites(c) ==
  /\ apply[c].at = "loop" /\ apply[c].left = {}
  /\ memory' = apply[c].vdb @@ memory
  /\ accepted' = [accepted EXCEPT ![c] = apply[c].height]
  /\ cursor' = [cursor EXCEPT ![c] = apply[c].cursor]
  /\ apply' = [apply EXCEPT ![c].at = "return"]
  /\ UNCHANGED <<lockVars, phase, pos, reader, failed, crashes>>

\* The deferred calls, the last lock first.
ApplyReturns(c) ==
  /\ apply[c].at = "return"
  /\ LET held == apply[c].held
     IN  IF held = <<>>
         THEN apply' = [apply EXCEPT ![c] = Idle] /\ UNCHANGED lockVars
         ELSE /\ ReleaseSharedDatabase(Last(held)[1], Last(held)[2])
              /\ apply' = [apply EXCEPT ![c].held = Front(held)]
  /\ UNCHANGED <<diskVars, phase, pos, reader, failed, crashes>>

ApplyStep(c) == ApplyMakesLock(c) \/ ApplyLocks(c) \/ ApplyWrites(c) \/ ApplyReturns(c)

-----------------------------------------------------------------------------
(* Blocks, and the atomic backend.                                         *)

Running(c) == c \notin failed /\ apply[c] = Idle

IsBonus(c, h) == c \in Syncable /\ h \in Bonus

\* Accept of a block: its requests, with the height in the same batch; or only
\* the batch, for a bonus block.
Accept(c) ==
  LET h == accepted[c] + 1
  IN  /\ Running(c) /\ phase[c] \in {"fresh", "run"} /\ h \in DOMAIN Blocks[c]
      /\ phase' = [phase EXCEPT ![c] = "run"]
      /\ IF IsBonus(c, h)
         THEN accepted' = [accepted EXCEPT ![c] = h] /\ UNCHANGED apply
         ELSE CallApply(c, Blocks[c][h], h, cursor[c]) /\ UNCHANGED accepted
      /\ UNCHANGED <<memory, cursor, lockVars, pos, reader, failed, crashes>>

\* The keys of the atomic trie up to the last accepted height, a height and a peer,
\* and their order.
TrieKeys(c) == {<<h, p>> \in (1..accepted[c]) \X Chain : p \in DOMAIN Blocks[c][h]}
Follows(x, y) == x[1] > y[1] \/ (x[1] = y[1] /\ x[2] > y[2])

\* Bug: the iteration resumes with the key that was applied last.
StartAtCursor(c) ==
  IF Len(cursor[c]) = 2 THEN <<cursor[c][1], cursor[c][2] - 1>> ELSE <<cursor[c][1], 0>>

\* Where the iteration starts, from a cursor that is a key, which was applied and is
\* skipped, or a height.  Keys follow the position.
StartOf(c) == IF Len(cursor[c]) = 2 THEN cursor[c] ELSE <<cursor[c][1], 0>>

\* The keys that follow position x, up to key y, except bonus blocks.
KeysIn(c, x, y) ==
  {z \in TrieKeys(c) : Follows(z, x) /\ ~Follows(z, y) /\ ~IsBonus(c, z[1])}

\* How many operations they hold.
Operations(c, x, y) ==
  MapThenSumSet(LAMBDA z : LET r == Blocks[c][z[1]][z[2]] IN Len(r.removes) + Len(r.puts),
                KeysIn(c, x, y))

\* The first key after position x at which a batch is large enough, if there is one.
BatchEnd(c, x) ==
  LET large == {y \in TrieKeys(c) : y \in KeysIn(c, x, y) /\ Operations(c, x, y) > BatchSize}
  IN  {y \in large : \A z \in large : ~Follows(y, z)}

\* mergeAtomicOpsToMap of these keys.
BatchOps(c, x, y) ==
  LET keys == KeysIn(c, x, y)
      merged(p, of(_)) == FlattenSeq([h \in 1..accepted[c] |->
        IF <<h, p>> \in keys THEN of(Blocks[c][h][p]) ELSE <<>>])
  IN  [p \in {z[2] : z \in keys} |->
         [removes |-> merged(p, LAMBDA r : r.removes), puts |-> merged(p, LAMBDA r : r.puts)]]

\* A chain starts.  NewAtomicBackend calls ApplyToSharedMemory, which does nothing
\* without a cursor.
StartChain(c) ==
  /\ phase[c] = "start"
  /\ phase' = [phase EXCEPT ![c] = IF cursor[c] = None THEN "fresh" ELSE "resume"]
  /\ pos' = [pos EXCEPT ![c] = IF cursor[c] = None THEN None ELSE StartOf(c)]
  /\ UNCHANGED <<diskVars, lockVars, apply, reader, failed, crashes>>

\* A state sync to a summary at height h is done: MarkApplyToSharedMemoryCursor and
\* the last accepted block are committed together,
FinishSync(c, h) ==
  /\ Running(c) /\ phase[c] = "fresh" /\ c \in Syncable
  /\ accepted[c] + MinBlocks <= h
  /\ cursor' = [cursor EXCEPT ![c] = <<accepted[c] + 1>>]
  /\ accepted' = [accepted EXCEPT ![c] = h]
  /\ phase' = [phase EXCEPT ![c] = "synced"]
  /\ UNCHANGED <<memory, lockVars, apply, pos, reader, failed, crashes>>

\* and then ApplyToSharedMemory begins.
OnFinishAfterCommit(c) ==
  /\ phase[c] = "synced" /\ pos[c] = None
  /\ pos' = [pos EXCEPT ![c] = StartOf(c)]
  /\ UNCHANGED <<diskVars, lockVars, apply, phase, reader, failed, crashes>>

\* ApplyToSharedMemory: the next full batch, which moves the cursor, or the rest,
\* which deletes it.
ApplyToSharedMemory(c) ==
  /\ Running(c) /\ pos[c] # None
  /\ \/ \E y \in BatchEnd(c, pos[c]) :
          /\ CallApply(c, BatchOps(c, pos[c], y), accepted[c], y)
          /\ pos' = [pos EXCEPT ![c] = y]
          /\ UNCHANGED phase
     \/ /\ BatchEnd(c, pos[c]) = {}
        /\ CallApply(c, BatchOps(c, pos[c], <<accepted[c] + 1, 0>>), accepted[c], None)
        /\ pos' = [pos EXCEPT ![c] = None]
        /\ phase' = [phase EXCEPT ![c] = IF @ = "resume" THEN "fresh" ELSE "run"]
  /\ UNCHANGED <<diskVars, lockVars, reader, failed, crashes>>

-----------------------------------------------------------------------------
(* Indexed: the keys with some trait that chain c received from peer p,    *)
(* and then their values.                                                  *)

IndexedMakesLock(c, p) ==
  /\ reader = Idle
  /\ MakeLock(SharedID(c, p))
  /\ reader' = [at |-> "lock", s |-> SharedID(c, p), side |-> Inbound(c, p),
                mutex |-> locks'[SharedID(c, p)].mutex, keys |-> {}]
  /\ UNCHANGED <<diskVars, mutex, apply, phase, pos, failed, crashes>>

GetKeys ==
  /\ reader.at = "lock" /\ mutex[reader.s][reader.mutex] = None
  /\ mutex' = [mutex EXCEPT ![reader.s][reader.mutex] = Indexed]
  /\ reader' = [reader EXCEPT
       !.at = "values", !.keys = {k \in Key : memory[<<reader.s, reader.side, k>>].lists # {}}]
  /\ UNCHANGED <<diskVars, locks, apply, phase, pos, failed, crashes>>

GetValues ==
  /\ reader.at = "values"
  /\ failed' = IF \A k \in reader.keys : memory[<<reader.s, reader.side, k>>].value = "present"
               THEN failed ELSE failed \cup {Indexed}
  /\ ReleaseSharedDatabase(reader.s, reader.mutex)
  /\ reader' = Idle
  /\ UNCHANGED <<diskVars, apply, phase, pos, crashes>>

-----------------------------------------------------------------------------

Crash ==
  /\ crashes < MaxCrashes
  /\ crashes' = crashes + 1
  /\ locks' = NoLocks /\ mutex' = AllFree
  /\ apply' = [c \in Chain |-> Idle] /\ reader' = Idle
  /\ phase' = [c \in Chain |-> FirstPhase(c)] /\ pos' = [c \in Chain |-> None]
  /\ failed' = {}
  /\ UNCHANGED diskVars

Next ==
  \/ \E c \in Chain : \/ StartChain(c) \/ Accept(c) \/ ApplyStep(c)
                      \/ OnFinishAfterCommit(c) \/ ApplyToSharedMemory(c)
                      \/ \E h \in DOMAIN Blocks[c] : FinishSync(c, h)
  \/ \E <<c, p>> \in Lookups : IndexedMakesLock(c, p)
  \/ GetKeys \/ GetValues
  \/ Crash

Spec == Init /\ [][Next]_vars

-----------------------------------------------------------------------------
(* Properties.                                                             *)

\* The requests of chain c to peer p that are in shared memory: those of all its
\* accepted blocks but bonus blocks, without the ones that are still to come after
\* a state sync.
Applied(c, p) ==
  {h \in 1..accepted[c] :
     /\ p \in DOMAIN Blocks[c][h] /\ ~IsBonus(c, h)
     /\ cursor[c] # None =>
          \/ h < cursor[c][1]
          \/ Len(cursor[c]) = 2 /\ h = cursor[c][1] /\ p <= cursor[c][2]}

\* On disk, shared memory is what the accepted blocks of both chains make it, in
\* whichever order they came and wherever the node crashed: an element is there
\* and listed if it was put and not removed, and a mark remains if it was removed
\* only ("the operations cancel").
MemoryIsWhatChainsDid ==
  \A c \in Chain : \A p \in Chain \ {c} : \A k \in Key :
    LET put     == \E h \in Applied(c, p) : k \in ToSet(Blocks[c][h][p].puts)
        removed == \E h \in Applied(p, c) : k \in ToSet(Blocks[p][h][c].removes)
    IN  memory[<<SharedID(c, p), Outbound(c, p), k>>] =
          [value |-> IF put = removed THEN "none" ELSE IF put THEN "present" ELSE "removed",
           lists |-> IF put /\ ~removed THEN Traits[k] ELSE {}]

\* No Apply meets errDuplicatePut or errDuplicateRemove, although a node that
\* crashes in ApplyToSharedMemory goes on from the cursor ("To avoid applying the
\* same operation twice"), and Indexed finds the values of the keys it has found.
NothingFails == failed = {}

\* Chains never wait for each other's locks in a circle, in Apply, which takes one
\* lock after another and keeps them ("introduces an ordering over the locks to
\* prevent any deadlocks"): among any of them there is one that goes on, or waits
\* for none of the others.
NoCircularWait ==
  \A C \in SUBSET Chain \ {{}} : \E c \in C :
    apply[c].at = "lock" =>
      LET lock == Last(apply[c].held) IN mutex[lock[1]][lock[2]] \notin C

=============================================================================
