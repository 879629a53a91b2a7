--------------------------- MODULE BootstrapProofs ---------------------------
(***************************************************************************)
(* For every tree of blocks and every set of beacons, wherever the node is *)
(* stopped: what bootstrapping has on disk can be started from.            *)
(***************************************************************************)
EXTENDS Bootstrap, IntervalTreeProofs

LN == INSTANCE LeastNumber

\* Leaves are for the SMT solver, with more time than the default, unless they
\* name another prover.
USE SMTT(30)

\* The shape of work while a loop runs, and that only blocks are in it.
WorkOK ==
  /\ (mode = "processing" /\ work.kind = "process") =>
       work \in [kind : {"process"}, blk : AnyBlock, sent : SUBSET AnyBlock]
  /\ mode = "executing" =>
       /\ work.left \subseteq AnyBlock /\ work.accepting \subseteq AnyBlock
       /\ {"left", "sinceWrite", "accepting"} \subseteq DOMAIN work

\* A store is consistent: its intervals are those of its blocks.
StoreOK(d) ==
  /\ d = [blocks |-> d.blocks, intervals |-> d.intervals]
  /\ d.blocks \subseteq AnyBlock
  /\ IsTree(d.intervals) /\ Heights(d.intervals) = HeightsOf(d.blocks)

\* The inductive invariant.  A stop forgets the open batch, so a node that is
\* down must be able to take the disk for it.
StoreInv ==
  /\ last \in AnyBlock
  /\ StoreOK(db) /\ StoreOK(batch)
  /\ mode # "down" => tree.known = batch.intervals
  /\ mode = "down" => batch = db
  /\ WorkOK

LEMMA HeightOfBlock ==
  ASSUME NEW b \in AnyBlock
  PROVE  Height[b] \in AnyHeight /\ Height[b] \in Nat
BY HeightsFit, BlocksFormATree, MaxHeightIsNatural DEF AnyHeight, AnyBlock

\* Blocks above the last accepted one have a parent.
LEMMA ParentAbove ==
  ASSUME NEW a \in AnyBlock, NEW b \in AnyBlock, Height[b] > Height[a]
  PROVE  Parent[b] \in AnyBlock
<1>1. Height[Genesis] \in Nat /\ Height[a] \in Nat /\ Height[a] >= Height[Genesis]
  BY HeightsFit, HeightOfBlock, BlocksFormATree DEF AnyBlock
<1>2. b # Genesis
  BY <1>1
<1>. QED  BY <1>2, BlocksFormATree DEF AnyBlock

\* The iterator of execute finds the lowest block.
LEMMA LowestIsBlock ==
  ASSUME NEW S \in SUBSET AnyBlock, S # {}
  PROVE  Lowest(S) \in S
<1>. DEFINE H == {Height[b] : b \in S}
<1>1. H \in SUBSET Nat /\ H # {}
  BY HeightOfBlock
<1>2. PICK m \in H : \A k \in H : m <= k
  BY Zenon, <1>1, LN!LeastNatural
<1>3. \E b \in S : \A a \in S : Height[b] <= Height[a]
  BY <1>2
<1>. QED  BY <1>3 DEF Lowest

LEMMA PutKeepsStore ==
  ASSUME NEW d, StoreOK(d), NEW t, t.known = d.intervals, NEW b \in AnyBlock
  PROVE  LET e == [blocks    |-> PutBlock(d.blocks, b),
                   intervals |-> EntriesAdd(t, d.intervals, Height[b])]
         IN  StoreOK(e) /\ TreeAdd(t, Height[b]).known = e.intervals
<1>1. Height[b] \in AnyHeight
  BY HeightOfBlock
<1>2. /\ IsTree(TreeAdd(t, Height[b]).known)
      /\ Heights(TreeAdd(t, Height[b]).known) = Heights(t.known) \cup {Height[b]}
      /\ EntriesAdd(t, t.known, Height[b]) = TreeAdd(t, Height[b]).known
  BY Zenon, <1>1, AddIsInsertion DEF StoreOK
<1>3. HeightsOf(PutBlock(d.blocks, b)) = HeightsOf(d.blocks) \cup {Height[b]}
  BY DEF HeightsOf, PutBlock
<1>4. PutBlock(d.blocks, b) \subseteq AnyBlock
  BY DEF PutBlock, StoreOK
<1>. QED  BY <1>2, <1>3, <1>4 DEF StoreOK

LEMMA DeleteKeepsStore ==
  ASSUME NEW d, StoreOK(d), NEW t, t.known = d.intervals, NEW b \in AnyBlock
  PROVE  LET e == [blocks    |-> {a \in d.blocks : Height[a] # Height[b]},
                   intervals |-> EntriesRemove(t, d.intervals, Height[b])]
         IN  StoreOK(e) /\ TreeRemove(t, Height[b]).known = e.intervals
<1>1. Height[b] \in AnyHeight
  BY HeightOfBlock
<1>2. /\ IsTree(TreeRemove(t, Height[b]).known)
      /\ Heights(TreeRemove(t, Height[b]).known) = Heights(t.known) \ {Height[b]}
      /\ EntriesRemove(t, t.known, Height[b]) = TreeRemove(t, Height[b]).known
  BY <1>1, RemoveIsRemoval DEF StoreOK
<1>3. HeightsOf({a \in d.blocks : Height[a] # Height[b]}) = HeightsOf(d.blocks) \ {Height[b]}
  BY DEF HeightsOf
<1>. QED  BY <1>2, <1>3 DEF StoreOK

-----------------------------------------------------------------------------
(* One lemma for each way the protocol goes on.                            *)

\* Everything but the polls and the mode is as it was.
StoreUnchanged == UNCHANGED <<last, db, tree, batch>>

LEMMA PollingKeepsStore ==
  ASSUME StoreInv, StoreUnchanged, StartBootstrapping, mode # "down"
  PROVE  StoreInv'
BY DEF StoreInv, StoreUnchanged, StartBootstrapping, WorkOK, StoreOK, HeightsOf, AnyBlock

LEMMA ExecutingKeepsStore ==
  ASSUME StoreInv, StoreOK(db'), StoreOK(batch'), tree'.known = batch'.intervals,
         UNCHANGED last, TryStartExecuting
  PROVE  StoreInv'
<1>1. mode' # "down" /\ mode' # "processing"
  BY DEF TryStartExecuting
<1>2. mode' = "executing" =>
        work' = [kind |-> "execute", left |-> db'.blocks, from |-> Height[last],
                 num |-> tree'.num, sinceWrite |-> 0, accepting |-> {}]
  BY DEF TryStartExecuting
<1>3. WorkOK'
  <2>1. CASE mode' = "executing"
    BY <2>1, <1>2 DEF WorkOK, StoreOK, AnyBlock
  <2>2. CASE mode' # "executing"
    BY <2>2, <1>1 DEF WorkOK
  <2>. QED  BY <2>1, <2>2
<1>4. StoreOK(db)' /\ StoreOK(batch)'
  BY DEF StoreOK, HeightsOf, AnyBlock
<1>5. (last \in AnyBlock)'
  BY DEF StoreInv, AnyBlock
<1>. QED  BY <1>1, <1>3, <1>4, <1>5 DEF StoreInv

LEMMA PollStepKeepsStore ==
  ASSUME StoreInv, mode = "polling", UNCHANGED last,
         NEW mi, NEW ma, SendMessagesOrFinish(mi, ma)
  PROVE  StoreInv'
<1>1. CASE UNCHANGED <<mode, tree, db, batch, work>>
  BY <1>1 DEF StoreInv, WorkOK, StoreOK, HeightsOf, AnyBlock
<1>2. CASE StartBootstrapping /\ UNCHANGED <<tree, db, batch>>
  BY <1>2, PollingKeepsStore DEF StoreUnchanged
<1>3. CASE StartSyncing(AcceptedBlocks(ma))
  <2>1. UNCHANGED <<tree, db, batch>> /\ TryStartExecuting
    BY <1>3 DEF StartSyncing
  <2>. QED  BY <2>1, ExecutingKeepsStore DEF StoreInv
<1>. QED  BY <1>1, <1>2, <1>3 DEF SendMessagesOrFinish

LEMMA StopKeepsStore ==
  ASSUME StoreInv, StoreOK(db'), UNCHANGED last, Stopped
  PROVE  StoreInv'
<1>1. StoreOK(db)' /\ StoreOK(batch)'
  BY DEF Stopped, StoreOK, HeightsOf, AnyBlock
<1>. QED  BY <1>1 DEF StoreInv, Stopped, WorkOK, AnyBlock

\* One turn of the loop of process puts the block and its height in the batch
\* together.
LEMMA ProcessBlockKeepsStore ==
  ASSUME StoreInv, ProcessBlock
  PROVE  StoreInv'
<1>. DEFINE b == work.blk
<1>1. /\ mode = "processing" /\ work.kind = "process"
      /\ work \in [kind : {"process"}, blk : AnyBlock, sent : SUBSET AnyBlock]
  BY DEF StoreInv, WorkOK, ProcessBlock
<1>2. b \in AnyBlock /\ Height[b] \in Nat /\ last \in AnyBlock /\ Height[last] \in Nat
  BY <1>1, HeightOfBlock DEF StoreInv
<1>3. UNCHANGED <<last, db, mode>>
  BY DEF ProcessBlock
<1>4. CASE Height[b] <= Height[last] \/ TreeContains(tree, Height[b])
  <2>1. UNCHANGED <<tree, batch>> /\ work' = [kind |-> "processed", new |-> {}]
    BY <1>4 DEF ProcessBlock
  <2>2. WorkOK'
    BY <2>1, <1>1, <1>3 DEF WorkOK
  <2>. QED  BY <2>1, <2>2, <1>3 DEF StoreInv, StoreOK, HeightsOf, AnyBlock
<1>5. CASE ~(Height[b] <= Height[last] \/ TreeContains(tree, Height[b]))
  <2>1. /\ tree' = TreeAdd(tree, Height[b])
        /\ batch' = [blocks    |-> PutBlock(batch.blocks, b),
                     intervals |-> EntriesAdd(tree, batch.intervals, Height[b])]
        /\ \/ work' = [kind |-> "processed", new |-> {}]
           \/ work' = [[kind |-> "processed", new |-> {}] EXCEPT !.new = {Parent[b]}]
           \/ work' = [work EXCEPT !.blk = Parent[b]]
    BY <1>5 DEF ProcessBlock
  <2>2. Parent[b] \in AnyBlock
    BY <1>2, <1>5, ParentAbove
  <2>3. StoreOK(batch') /\ tree'.known = batch'.intervals
    BY <2>1, <1>1, <1>2, PutKeepsStore DEF StoreInv
  <2>4. WorkOK'
    BY <2>1, <2>2, <1>1, <1>3 DEF WorkOK, AnyBlock
  <2>5. StoreOK(batch)' /\ StoreOK(db)'
    BY <2>3, <1>3 DEF StoreInv, StoreOK, HeightsOf, AnyBlock
  <2>. QED  BY <2>3, <2>4, <2>5, <1>1, <1>3 DEF StoreInv, AnyBlock
<1>. QED  BY <1>4, <1>5

\* One turn of the loop of execute deletes both; the batch may be written before
\* or after the block is accepted.
LEMMA ExecuteBlockKeepsStore ==
  ASSUME StoreInv, ExecuteBlock
  PROVE  StoreInv'
<1>. DEFINE b == Lowest(work.left)
            write == work.sinceWrite + 1 >= BatchWritePeriod
<1>1. /\ mode = "executing" /\ work.left \subseteq AnyBlock /\ work.left # {}
      /\ {"left", "sinceWrite", "accepting"} \subseteq DOMAIN work
  BY DEF StoreInv, WorkOK, ExecuteBlock
<1>2. b \in AnyBlock
  BY <1>1, LowestIsBlock
<1>3. /\ tree' = TreeRemove(tree, Height[b])
      /\ batch' = [blocks    |-> {a \in batch.blocks : Height[a] # Height[b]},
                   intervals |-> EntriesRemove(tree, batch.intervals, Height[b])]
      /\ db' = IF write THEN batch' ELSE db
      /\ work' = [work EXCEPT !.left = @ \ {b},
                              !.sinceWrite = IF write THEN 0 ELSE @ + 1,
                              !.accepting = IF Height[b] <= work.from THEN {} ELSE {b}]
      /\ UNCHANGED <<last, mode>>
  BY DEF ExecuteBlock
<1>. HIDE DEF b, write
<1>4. StoreOK(batch') /\ tree'.known = batch'.intervals
  BY <1>1, <1>2, <1>3, DeleteKeepsStore DEF StoreInv
<1>5. StoreOK(batch)' /\ StoreOK(db)'
  <2>1. StoreOK(batch') /\ StoreOK(db')
    BY <1>3, <1>4 DEF StoreInv
  <2>. QED  BY <2>1 DEF StoreOK, HeightsOf, AnyBlock
<1>6. WorkOK'
  <2>. DEFINE sw == IF write THEN 0 ELSE work.sinceWrite + 1
              ac == IF Height[b] <= work.from THEN {} ELSE {b}
  <2>0. work' = [work EXCEPT !.left = work.left \ {b}, !.sinceWrite = sw, !.accepting = ac]
    BY <1>3
  <2>. HIDE DEF sw, ac
  <2>1. work'.left = work.left \ {b} /\ work'.accepting = ac /\ ac \subseteq {b}
    BY <2>0, <1>1 DEF ac
  <2>2. DOMAIN work' = DOMAIN work
    BY <2>0
  <2>3. work'.left \subseteq AnyBlock /\ work'.accepting \subseteq AnyBlock
    BY <2>1, <1>1, <1>2
  <2>. QED  BY <2>2, <2>3, <1>1, <1>3 DEF WorkOK, AnyBlock
<1>. QED  BY <1>1, <1>3, <1>4, <1>5, <1>6 DEF StoreInv, AnyBlock

-----------------------------------------------------------------------------

LEMMA NextKeepsStore == StoreInv /\ [Next]_vars => StoreInv'
<1>. SUFFICES ASSUME StoreInv, [Next]_vars PROVE StoreInv'
  OBVIOUS
<1>1. CASE Start
  BY Zenon, <1>1 DEF Start, StoreInv, NewTree, WorkOK, StoreOK, HeightsOf, AnyBlock
<1>2. CASE Connected
  BY <1>2, PollingKeepsStore DEF Connected, StoreUnchanged
<1>3. ASSUME NEW n \in Beacon, AcceptedFrontier(n) PROVE StoreInv'
  BY <1>3, PollStepKeepsStore DEF AcceptedFrontier
<1>4. ASSUME NEW n \in Beacon, Accepted(n) PROVE StoreInv'
  BY <1>4, PollStepKeepsStore DEF Accepted
<1>5. ASSUME NEW n \in Beacon, PollFailed(n) PROVE StoreInv'
  BY <1>5, PollStepKeepsStore DEF PollFailed
<1>6. ASSUME NEW b \in AnyBlock, NEW k \in 1..MaxAncestors, ReceiveAncestors(b, k)
      PROVE  StoreInv'
  <2>1. Ancestors[b] \subseteq AnyBlock
    BY BlocksFormATree
  <2>2. /\ mode = "syncing" /\ mode' = "processing" /\ UNCHANGED <<last, db, tree, batch>>
        /\ work' = [kind |-> "process", blk |-> b, sent |-> SentWith(b, k)]
    BY <1>6 DEF ReceiveAncestors
  <2>3. WorkOK'
    BY <2>1, <2>2 DEF WorkOK, SentWith, AnyBlock
  <2>. QED  BY <2>2, <2>3 DEF StoreInv, StoreOK, HeightsOf, AnyBlock
<1>7. ASSUME NEW b \in AnyBlock, AncestorsFailed(b) PROVE StoreInv'
  BY <1>7 DEF AncestorsFailed, StoreInv, WorkOK, StoreOK, HeightsOf, AnyBlock
<1>8. CASE ProcessBlock
  BY <1>8, ProcessBlockKeepsStore
<1>9. CASE FinishProcessing
  <2>1. db' = batch /\ UNCHANGED <<last, tree, batch>> /\ mode = "processing" /\ TryStartExecuting
    BY <1>9 DEF FinishProcessing
  <2>. QED  BY <2>1, ExecutingKeepsStore DEF StoreInv
<1>10. CASE ExecuteBlock
  BY <1>10, ExecuteBlockKeepsStore
<1>11. CASE AcceptBlock
  <2>1. /\ mode = "executing" /\ last' \in work.accepting
        /\ work' = [work EXCEPT !.accepting = {}]
        /\ UNCHANGED <<db, mode, tree, batch>>
    BY <1>11 DEF AcceptBlock
  <2>2. work.left \subseteq AnyBlock /\ {"left", "sinceWrite", "accepting"} \subseteq DOMAIN work
    BY <2>1 DEF StoreInv, WorkOK
  <2>3. DOMAIN work' = DOMAIN work /\ work'.left = work.left /\ work'.accepting = {}
    BY <2>1, <2>2
  <2>4. WorkOK'
    BY <2>1, <2>2, <2>3 DEF WorkOK, AnyBlock
  <2>5. (last \in AnyBlock)'
    BY <2>1 DEF StoreInv, WorkOK, AnyBlock
  <2>. QED  BY <2>1, <2>4, <2>5 DEF StoreInv, StoreOK, HeightsOf, AnyBlock
<1>12. CASE FinishExecuting
  <2>1. db' = batch /\ UNCHANGED <<last, tree, batch>> /\ mode = "executing"
    BY <1>12 DEF FinishExecuting
  <2>2. mode' \in {"polling", "normal", "syncing"}
    BY <1>12 DEF FinishExecuting, RestartBootstrapping, StartBootstrapping, OnFinished
  <2>3. WorkOK'
    BY <2>2 DEF WorkOK
  <2>. QED  BY <2>1, <2>2, <2>3 DEF StoreInv, StoreOK, HeightsOf, AnyBlock
<1>13. CASE Timeout
  <2>1. UNCHANGED <<last, db, tree, batch>> /\ mode = "syncing"
    BY <1>13 DEF Timeout
  <2>2. mode' \in {"polling", "normal"}
    BY <1>13 DEF Timeout, RestartBootstrapping, StartBootstrapping, OnFinished
  <2>3. WorkOK'
    BY <2>2 DEF WorkOK
  <2>. QED  BY <2>1, <2>2, <2>3 DEF StoreInv, StoreOK, HeightsOf, AnyBlock
<1>14. CASE Halt
  BY <1>14, StopKeepsStore DEF Halt, MayStop, StoreInv
<1>15. CASE Crash
  BY <1>15, StopKeepsStore DEF Crash, MayStop, StoreInv
<1>16. CASE NetworkAccepts
  BY <1>16 DEF NetworkAccepts, StoreInv, WorkOK, StoreOK, HeightsOf, AnyBlock
<1>17. CASE OthersBootstrapped
  BY <1>17 DEF OthersBootstrapped, StoreInv, WorkOK, StoreOK, HeightsOf, AnyBlock
<1>18. CASE UNCHANGED vars
  BY <1>18 DEF vars, StoreInv, WorkOK, StoreOK, HeightsOf, AnyBlock
<1>. QED
  BY <1>1, <1>2, <1>3, <1>4, <1>5, <1>6, <1>7, <1>8, <1>9, <1>10, <1>11, <1>12, <1>13,
     <1>14, <1>15, <1>16, <1>17, <1>18
  DEF Next, Step

\* Wherever a node is stopped, the intervals it finds on disk are those of the
\* blocks it finds there, and while it runs the open batch leads to the
\* intervals in memory (Bootstrapper.process, execute, interval.Tree).
THEOREM StoreStaysConsistent == Spec => []StoreIsConsistent
<1>1. Init => StoreInv
  <2>1. IsTree({}) /\ Heights({}) = {} /\ HeightsOf({}) = {}
    BY DEF IsTree, Separated, Heights, HeightsOf
  <2>. QED  BY <2>1 DEF Init, StoreInv, StoreOK, WorkOK, AnyBlock
<1>2. StoreInv => StoreIsConsistent
  BY DEF StoreInv, StoreOK, StoreIsConsistent
<1>. QED  BY <1>1, <1>2, NextKeepsStore, PTL DEF Spec

=============================================================================
