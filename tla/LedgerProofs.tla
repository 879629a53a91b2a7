---------------------------- MODULE LedgerProofs -----------------------------
(***************************************************************************)
(* The promise Ledger makes, for every tree of blocks.  The facts about    *)
(* ancestors are proved by taking a block of least height for which they   *)
(* fail.                                                                   *)
(***************************************************************************)
EXTENDS Ledger, LeastNumber, TLAPS

\* A set of blocks has a member of least height.
LEMMA LowestBlock ==
  ASSUME NEW S \in SUBSET AnyBlock, S # {}
  PROVE  \E b \in S : \A c \in S : Height[b] <= Height[c]
<1> DEFINE H == {Height[b] : b \in S}
<1>1. H \in SUBSET Nat /\ H # {}
  BY BlocksFormATree DEF BlocksFormATree
<1>2. PICK n \in H : \A m \in H : n <= m
  BY <1>1, LeastNatural
<1> QED
  BY <1>2

\* What the tree gives for one block that is not Genesis.
LEMMA OneStep ==
  ASSUME NEW b \in Block
  PROVE  /\ b \in AnyBlock /\ Parent[b] \in AnyBlock /\ b # Genesis
         /\ Height[b] = Height[Parent[b]] + 1
         /\ Height[b] \in Nat /\ Height[Parent[b]] \in Nat
         /\ Ancestors[b] = {b} \cup Ancestors[Parent[b]]
BY BlocksFormATree DEF BlocksFormATree, AnyBlock

LEMMA AtGenesis ==
  /\ Genesis \in AnyBlock
  /\ Ancestors[Genesis] = {Genesis}
  /\ Ancestors \in [AnyBlock -> SUBSET AnyBlock]
  /\ Height \in [AnyBlock -> Nat]
BY BlocksFormATree DEF BlocksFormATree, AnyBlock

\* A block is among its ancestors, which are lower than it, except itself.
LEMMA AncestorsAreLower ==
  ASSUME NEW b \in AnyBlock
  PROVE  /\ b \in Ancestors[b]
         /\ Genesis \in Ancestors[b]
         /\ \A a \in Ancestors[b] : a = b \/ Height[a] < Height[b]
<1> DEFINE Good(x) == /\ x \in Ancestors[x]
                      /\ Genesis \in Ancestors[x]
                      /\ \A a \in Ancestors[x] : a = x \/ Height[a] < Height[x]
           Bad == {x \in AnyBlock : ~Good(x)}
<1>1. SUFFICES ASSUME Bad # {} PROVE FALSE
  OBVIOUS
<1>2. PICK x \in Bad : \A y \in Bad : Height[x] <= Height[y]
  BY <1>1, LowestBlock
<1>3. x \in Block
  BY AtGenesis DEF AnyBlock
<1>4. Parent[x] \notin Bad
  BY <1>2, <1>3, OneStep
<1>5. Good(Parent[x])
  BY <1>3, <1>4, OneStep
<1>6. \A a \in Ancestors[x] : a \in AnyBlock /\ Height[a] \in Nat
  BY <1>3, OneStep, AtGenesis
<1>7. Good(x)
  BY <1>3, <1>5, <1>6, OneStep
<1> QED
  BY <1>7

\* An ancestor's ancestors are ancestors.
LEMMA AncestorsAreTransitive ==
  ASSUME NEW b \in AnyBlock, NEW a \in Ancestors[b]
  PROVE  a \in AnyBlock /\ Ancestors[a] \subseteq Ancestors[b]
<1> DEFINE Good(x) == \A c \in Ancestors[x] : Ancestors[c] \subseteq Ancestors[x]
           Bad == {x \in AnyBlock : ~Good(x)}
<1>1. a \in AnyBlock
  BY AtGenesis
<1>2. SUFFICES ASSUME Bad # {} PROVE FALSE
  BY <1>1
<1>3. PICK x \in Bad : \A y \in Bad : Height[x] <= Height[y]
  BY <1>2, LowestBlock
<1>4. x \in Block
  BY AtGenesis DEF AnyBlock
<1>5. Parent[x] \notin Bad
  BY <1>3, <1>4, OneStep
<1>6. Good(Parent[x])
  BY <1>4, <1>5, OneStep
<1>7. Good(x)
  BY <1>4, <1>6, OneStep
<1> QED
  BY <1>7

\* The ancestors of a block are ordered.
LEMMA AncestorsAreLinear ==
  ASSUME NEW b \in AnyBlock, NEW a \in Ancestors[b], NEW c \in Ancestors[b]
  PROVE  a \in Ancestors[c] \/ c \in Ancestors[a]
<1> DEFINE Good(x) == \A u, v \in Ancestors[x] : u \in Ancestors[v] \/ v \in Ancestors[u]
           Bad == {x \in AnyBlock : ~Good(x)}
<1>1. SUFFICES ASSUME Bad # {} PROVE FALSE
  OBVIOUS
<1>2. PICK x \in Bad : \A y \in Bad : Height[x] <= Height[y]
  BY <1>1, LowestBlock
<1>3. x \in Block
  BY AtGenesis DEF AnyBlock
<1>4. Parent[x] \notin Bad
  BY <1>2, <1>3, OneStep
<1>5. Good(Parent[x])
  BY <1>3, <1>4, OneStep
<1>6. x \in Ancestors[x]
  BY AncestorsAreLower
<1>7. Good(x)
  BY <1>3, <1>5, <1>6, OneStep
<1> QED
  BY <1>7

-----------------------------------------------------------------------------
(* The invariant.                                                          *)

\* The four facts need each other: a decision keeps the rejected blocks in
\* conflict with the accepted chain because the chain grows from its old end.
IInv ==
  /\ TypeOK
  /\ AcceptedIsChain
  /\ ProcessingExtendsLast
  /\ RejectedConflicts

LEMMA InitIInv == Init => IInv
<1> SUFFICES ASSUME Init PROVE IInv
  OBVIOUS
<1> QED
  BY AtGenesis DEF Init, IInv, TypeOK, AcceptedIsChain, ProcessingExtendsLast,
                   RejectedConflicts

\* Issuing a block above a processing block or above the last accepted one.
LEMMA IssueIInv ==
  ASSUME IInv, NEW b \in Block, Issue(b)
  PROVE  IInv'
<1> USE DEF Issue
<1>1. /\ last \in AnyBlock /\ processing \subseteq Block
      /\ accepted = Ancestors[last]
  BY DEF IInv, TypeOK, AcceptedIsChain
<1>2. last \in Ancestors[Parent[b]]
  BY <1>1, AncestorsAreLower DEF IInv, ProcessingExtendsLast, Extends
<1>3. Ancestors[Parent[b]] \subseteq accepted \cup processing
  BY <1>1 DEF IInv, ProcessingExtendsLast
<1>4. b # last
  BY <1>1, AncestorsAreLower
<1>5. TypeOK'
  BY DEF IInv, TypeOK
<1>6. AcceptedIsChain'
  BY DEF IInv, AcceptedIsChain
<1>7. ProcessingExtendsLast'
  <2>1. Extends(b, last) /\ Ancestors[b] \subseteq accepted \cup processing'
    BY <1>2, <1>3, <1>4, OneStep DEF Extends
  <2>2. \A c \in processing : Extends(c, last) /\ Ancestors[c] \subseteq accepted \cup processing'
    BY DEF IInv, ProcessingExtendsLast
  <2>3. QED
    BY <2>1, <2>2 DEF ProcessingExtendsLast, Extends
<1>8. RejectedConflicts'
  BY DEF IInv, RejectedConflicts, Conflict
<1>9. QED
  BY <1>5, <1>6, <1>7, <1>8 DEF IInv

\* Moving the last accepted block to a processing descendant.
LEMMA DecideIInv ==
  ASSUME IInv, NEW d \in Block, Decide(d)
  PROVE  IInv'
<1> USE DEF Decide, AcceptedWith, RejectedBy, Remaining
<1>1. /\ last \in AnyBlock /\ processing \subseteq Block /\ d \in AnyBlock
      /\ accepted = Ancestors[last]
  BY DEF IInv, TypeOK, AcceptedIsChain, AnyBlock
<1>2. last \in Ancestors[d] /\ last # d
  BY DEF IInv, ProcessingExtendsLast, Extends
<1>3. Ancestors[last] \subseteq Ancestors[d]
  BY <1>1, <1>2, AncestorsAreTransitive
<1>4. TypeOK'
  BY <1>1, AtGenesis DEF IInv, TypeOK
<1>5. AcceptedIsChain'
  BY <1>1, <1>3 DEF AcceptedIsChain
<1>6. ProcessingExtendsLast'
  <2> SUFFICES ASSUME NEW b \in processing, Extends(b, d), NEW a \in Ancestors[b]
               PROVE  a \in Ancestors[d] \/ (a \in processing /\ Extends(a, d))
    BY <1>1, <1>3 DEF ProcessingExtendsLast, Extends
  <2>1. a \in Ancestors[d] \/ d \in Ancestors[a]
    BY <1>1, AncestorsAreLinear DEF Extends, AnyBlock
  <2>2. a \in accepted \cup processing
    BY DEF IInv, ProcessingExtendsLast
  <2>3. QED
    BY <1>1, <1>3, <2>1, <2>2, AncestorsAreLower DEF Extends
<1>7. RejectedConflicts'
  <2> SUFFICES ASSUME NEW b \in rejected, Conflict(b, last)
               PROVE  Conflict(b, d)
    BY DEF RejectedConflicts, IInv, Conflict
  <2>1. b \in AnyBlock
    BY DEF IInv, TypeOK, AnyBlock
  <2>2. b \notin Ancestors[d]
    BY <1>1, <1>2, AncestorsAreLinear DEF Conflict
  <2>3. d \notin Ancestors[b]
    BY <1>2, <2>1, AncestorsAreTransitive DEF Conflict
  <2>4. QED
    BY <2>2, <2>3 DEF Conflict
<1>8. QED
  BY <1>4, <1>5, <1>6, <1>7 DEF IInv

LEMMA NextIInv == IInv /\ [Next]_ledgerVars => IInv'
<1> SUFFICES ASSUME IInv, [Next]_ledgerVars PROVE IInv'
  OBVIOUS
<1>1. ASSUME NEW b \in Block, Issue(b) PROVE IInv'
  BY <1>1, IssueIInv
<1>2. ASSUME NEW b \in Block, Decide(b) PROVE IInv'
  BY <1>2, DecideIInv
<1>3. CASE UNCHANGED ledgerVars
  BY <1>3 DEF ledgerVars, IInv, TypeOK, AcceptedIsChain, ProcessingExtendsLast,
              RejectedConflicts, Extends, Conflict
<1>4. QED
  BY <1>1, <1>2, <1>3 DEF Next

-----------------------------------------------------------------------------
(* The theorems.                                                           *)

\* Every reachable state satisfies the inductive invariant.
THEOREM Invariance == Spec => []IInv
<1>1. QED
  BY InitIInv, NextIInv, PTL DEF Spec

\* Blocks are where they belong (Topological.blocks and the calls to the VM).
THEOREM TypeCorrect == Spec => []TypeOK
<1>1. IInv => TypeOK
  BY DEF IInv
<1>2. QED
  BY <1>1, Invariance, PTL

\* Accept is called along one chain (acceptPreferredChild).
THEOREM AcceptedChain == Spec => []AcceptedIsChain
<1>1. IInv => AcceptedIsChain
  BY DEF IInv
<1>2. QED
  BY <1>1, Invariance, PTL

\* At no height are two blocks accepted.
THEOREM NoTwoAtAHeight == Spec => []OneBlockPerHeight
<1>1. IInv => OneBlockPerHeight
  <2> SUFFICES ASSUME IInv, NEW a \in accepted, NEW b \in accepted,
                      Height[a] = Height[b]
               PROVE  a = b
    BY DEF OneBlockPerHeight
  <2>1. last \in AnyBlock /\ a \in Ancestors[last] /\ b \in Ancestors[last]
    BY DEF IInv, TypeOK, AcceptedIsChain
  <2>2. a \in AnyBlock /\ b \in AnyBlock
    BY <2>1, AncestorsAreTransitive
  <2>3. a \in Ancestors[b] \/ b \in Ancestors[a]
    BY <2>1, AncestorsAreLinear
  <2>4. Height[a] \in Nat /\ Height[b] \in Nat
    BY <2>2, AtGenesis
  <2>5. QED
    BY <2>2, <2>3, <2>4, AncestorsAreLower
<1>2. QED
  BY <1>1, Invariance, PTL

\* No processing block is orphaned (rejectTransitively removes the others).
THEOREM NoOrphans == Spec => []ProcessingExtendsLast
<1>1. IInv => ProcessingExtendsLast
  BY DEF IInv
<1>2. QED
  BY <1>1, Invariance, PTL

\* Only conflicting blocks are rejected.
THEOREM RejectionsJustified == Spec => []RejectedConflicts
<1>1. IInv => RejectedConflicts
  BY DEF IInv
<1>2. QED
  BY <1>1, Invariance, PTL

\* No block is accepted and rejected, or decided and still processing.
THEOREM OneState == Spec => []OneStatePerBlock
<1>1. IInv => OneStatePerBlock
  <2> SUFFICES ASSUME IInv PROVE OneStatePerBlock
    OBVIOUS
  <2>1. /\ last \in AnyBlock /\ processing \subseteq AnyBlock
        /\ rejected \subseteq AnyBlock /\ accepted = Ancestors[last]
    BY DEF IInv, TypeOK, AcceptedIsChain, AnyBlock
  <2>2. \A b \in processing : b # last /\ last \in Ancestors[b]
    BY DEF IInv, ProcessingExtendsLast, Extends
  <2>3. \A b \in rejected : b \notin Ancestors[last] /\ last \notin Ancestors[b]
    BY DEF IInv, RejectedConflicts, Conflict
  <2>4. processing \cap accepted = {}
    <3> SUFFICES ASSUME NEW b \in processing, b \in Ancestors[last] PROVE FALSE
      BY <2>1
    <3>1. Height[b] < Height[last]
      BY <2>1, <2>2, AncestorsAreLower
    <3>2. Height[last] < Height[b]
      BY <2>1, <2>2, AncestorsAreLower
    <3>3. Height[b] \in Nat /\ Height[last] \in Nat
      BY <2>1, AtGenesis
    <3>4. QED
      BY <3>1, <3>2, <3>3
  <2>5. QED
    BY <2>1, <2>2, <2>3, <2>4 DEF OneStatePerBlock
<1>2. QED
  BY <1>1, Invariance, PTL

=============================================================================
