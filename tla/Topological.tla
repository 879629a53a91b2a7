----------------------------- MODULE Topological -----------------------------
(***************************************************************************)
(* Snowman consensus as snowman.Topological implements it.  The last       *)
(* accepted block and all processing blocks are kept in one map; a block   *)
(* with children holds the snow tree that decides between them.  A poll    *)
(* visits only the branch that got AlphaPreference votes: the blocks next  *)
(* to it are marked shouldFalter, and the mark is pushed down when a later *)
(* poll comes by.  preference, preferredIDs and preferredHeights cache the *)
(* preferred branch.                                                       *)
(***************************************************************************)
EXTENDS Snowman

VARIABLES
  blocks,             \* block -> [shouldFalter, sb, children]
  lastAcceptedID,
  preference,
  preferredIDs,
  preferredHeights,   \* height -> block
  accepted,           \* the blocks on which Accept was called, in that order
  rejected,           \* the blocks on which Reject was called
  eager               \* Snowman given the same calls (history variable)

cacheVars == <<preference, preferredIDs, preferredHeights>>
vars == <<blocks, lastAcceptedID, cacheVars, accepted, rejected, eager>>

NewSnowmanBlock == [shouldFalter |-> FALSE, sb |-> Nil, children |-> {}]

Init ==
  /\ blocks = (Genesis :> NewSnowmanBlock)
  /\ lastAcceptedID = Genesis
  /\ preference = Genesis
  /\ preferredIDs = {}
  /\ preferredHeights = <<>>
  /\ accepted = <<>>
  /\ rejected = {}
  /\ eager = NewSnowman(Genesis)

Processing(b) == b # lastAcceptedID /\ b \in DOMAIN blocks

\* snowmanBlock.Decided: at or below the last accepted height.
Decided(b, last) == Height[b] <= Height[last]

AddChild(n, child) ==
  [n EXCEPT !.sb = IF @ = Nil THEN NewTree(child) ELSE TreeAdd(@, child),
            !.children = @ \cup {child}]

\* Bug: the preference does not follow a block that extends it.
ExtendsNoPreference(parent) == FALSE

ExtendsPreference(parent) == preference = parent

\* An unknown parent and a duplicate are errors that change nothing.
Add(b) ==
  LET parent == Parent[b]
  IN  /\ ~Processing(b)
      /\ parent \in DOMAIN blocks
      /\ blocks' = (parent :> AddChild(blocks[parent], b))
                   @@ (b :> NewSnowmanBlock) @@ blocks
      /\ IF ExtendsPreference(parent)
         THEN /\ preference' = b
              /\ preferredIDs' = preferredIDs \cup {b}
              /\ preferredHeights' = (Height[b] :> b) @@ preferredHeights
         ELSE UNCHANGED cacheVars
      /\ eager' = SnowmanAdd(eager, b)
      /\ UNCHANGED <<lastAcceptedID, accepted, rejected>>

-----------------------------------------------------------------------------
(* RecordPoll.  s is the state of the vote loop: the variables the poll    *)
(* changes, and its locals.                                                *)

\* The parents whose children got AlphaPreference votes, from the last accepted
\* block up: what calculateInDegree and pushVotes compute (VotePropagation).
VoteStack(votes) ==
  LET processing == DOMAIN blocks \ {lastAcceptedID}
      bag(p) == ChildVotes(blocks[p].children, processing, votes)
      parents == {p \in DOMAIN blocks : Total(bag(p)) >= AlphaPreference}
      byHeight(a, b) == Height[a.parent] < Height[b.parent]
  IN  SetToSortSeq({[parent |-> p, votes |-> bag(p)] : p \in parents}, byHeight)

\* Bug: only the other children are rejected, not what extends them.
RejectedChildren(bs, children, pref) == children \ {pref}

\* acceptPreferredChild and rejectTransitively: the other children and
\* everything that extends them.
RejectedBlocks(bs, children, pref) ==
  {b \in DOMAIN bs : \E c \in children \ {pref} : c \in Ancestors[b]}

AcceptPreferredChild(s, parent) ==
  LET n == s.blocks[parent]
      pref == TreePreference(n.sb)
      rejects == RejectedBlocks(s.blocks, n.children, pref)
  IN  [s EXCEPT !.accepted = Append(@, pref),
                !.last = pref,
                !.preferredIDs = @ \ {pref},
                !.preferredHeights = Restrict(@, DOMAIN @ \ {Height[pref]}),
                !.rejected = @ \cup rejects,
                !.blocks = Restrict(@, DOMAIN @ \ rejects)]

\* Bug: a child about to be polled does not inherit its parent's falter.
FaltersSkippingNext(s, children, next, transitively) ==
  {c \in children : c \in DOMAIN s.blocks /\ <<c>> # next}

\* The children to mark: all but the next to be polled, and that one too when
\* the parent itself was faltering.
Falters(s, children, next, transitively) ==
  {c \in children : c \in DOMAIN s.blocks /\ (transitively \/ <<c>> # next)}

\* Bug: the test is made with the last accepted block from before the poll.
AcceptsOnce(s, parent, sb) == TreeFinalized(sb) /\ lastAcceptedID = parent

\* Only a child of the last accepted block is accepted.
Accepts(s, parent, sb) == TreeFinalized(sb) /\ s.last = parent

\* The falter has been applied to sb.
PolledBlock(n, sb) == [n EXCEPT !.sb = sb, !.shouldFalter = FALSE]

\* One iteration of the loop in vote.  next is the parent polled after this
\* one, as a sequence of at most one block.
VoteStep(s, vote, next) ==
  LET parent == vote.parent
      n      == s.blocks[parent]
      sb     == TreeRecordPoll(IF n.shouldFalter THEN TreeRecordUnsuccessfulPoll(n.sb)
                                                 ELSE n.sb, vote.votes)
      polled == [s EXCEPT !.blocks[parent] = PolledBlock(n, sb)]
      acted  == IF Accepts(s, parent, sb)
                THEN LET a == AcceptPreferredChild(polled, parent)
                     IN  [a EXCEPT !.blocks = Restrict(@, DOMAIN @ \ {parent})]
                ELSE polled
      pref   == TreePreference(sb)
      falter == Falters(acted, n.children, next, n.shouldFalter)
  IN  [acted EXCEPT
         !.newPreferred = IF s.onPreferredBranch THEN pref ELSE @,
         !.onPreferredBranch = @ /\ next = <<pref>>,
         !.blocks = [c \in falter |-> [@[c] EXCEPT !.shouldFalter = TRUE]] @@ @]

RECURSIVE VoteLoop(_, _)

VoteLoop(s, stack) ==
  IF stack = <<>> \/ Head(stack).parent \notin DOMAIN s.blocks THEN s
  ELSE LET rest == Tail(stack)
           next == IF rest = <<>> THEN <<>> ELSE <<Head(rest).parent>>
       IN  VoteLoop(VoteStep(s, Head(stack), next), rest)

\* An empty stack makes the whole tree falter and leaves the preference alone.
Vote(s, stack) ==
  IF stack = <<>>
  THEN [s EXCEPT !.blocks[s.last].shouldFalter = TRUE,
                 !.newPreferred = preference]
  ELSE VoteLoop(s, stack)

RECURSIVE PreferredBelow(_, _)

\* The preferred blocks from a child of b down to a leaf.
PreferredBelow(bs, b) ==
  IF bs[b].sb = Nil THEN <<>>
  ELSE LET c == TreePreference(bs[b].sb) IN <<c>> \o PreferredBelow(bs, c)

\* Bug: the preference is not followed from the block that vote returned to a leaf.
RefreshToVoted(s) ==
  LET branch == {b \in Ancestors[s.newPreferred] : ~Decided(b, s.last)}
  IN  IF s.newPreferred \in s.preferredIDs
      THEN /\ UNCHANGED preference
           /\ preferredIDs' = s.preferredIDs
           /\ preferredHeights' = s.preferredHeights
      ELSE /\ preference' = s.newPreferred
           /\ preferredIDs' = branch
           /\ preferredHeights' =
                [h \in {Height[b] : b \in branch} |->
                   CHOOSE b \in branch : Height[b] = h]

\* The last part of RecordPoll.  The caches are right already if the block that
\* vote returned was preferred before.
RefreshPreference(s) ==
  LET below  == PreferredBelow(s.blocks, s.newPreferred)
      above  == {b \in Ancestors[s.newPreferred] : ~Decided(b, s.last)}
      branch == above \cup Range(below)
  IN  IF s.newPreferred \in s.preferredIDs
      THEN /\ UNCHANGED preference
           /\ preferredIDs' = s.preferredIDs
           /\ preferredHeights' = s.preferredHeights
      ELSE /\ preference' = IF below = <<>> THEN s.newPreferred ELSE Last(below)
           /\ preferredIDs' = branch
           /\ preferredHeights' =
                [h \in {Height[b] : b \in branch} |->
                   CHOOSE b \in branch : Height[b] = h]

BeforeVote ==
  [blocks |-> blocks, last |-> lastAcceptedID,
   preferredIDs |-> preferredIDs, preferredHeights |-> preferredHeights,
   accepted |-> accepted, rejected |-> rejected,
   newPreferred |-> lastAcceptedID, onPreferredBranch |-> TRUE]

RecordPoll(votes) ==
  LET stack == IF Total(votes) >= AlphaPreference THEN VoteStack(votes) ELSE <<>>
  IN  \E s \in {Vote(BeforeVote, stack)} :
        /\ blocks' = s.blocks
        /\ lastAcceptedID' = s.last
        /\ accepted' = s.accepted
        /\ rejected' = s.rejected
        /\ RefreshPreference(s)
        /\ eager' = SnowmanRecordPoll(eager, votes)

\* A poll returns at most K votes, each for any block there is: processing,
\* decided, or not issued to this node.
AllVotes == VoteBags(AnyBlock)

Next ==
  \/ \E b \in Block : Add(b)
  \/ \E votes \in AllVotes : RecordPoll(votes)

Spec == Init /\ [][Next]_vars

-----------------------------------------------------------------------------
(* Properties.                                                             *)

\* A falter is on its way to the tree of p.
PendingFalter(p) ==
  \E a \in Ancestors[p] \cap DOMAIN blocks : blocks[a].shouldFalter

\* Visiting the polled branch only, and leaving marks beside it, is invisible:
\* with the pending falters applied the trees of the code are in the state they
\* would be in had every poll been recorded or counted as failed at every block
\* at once.
DeferredFaltersAreExact ==
  LET parents == {p \in DOMAIN blocks : blocks[p].sb # Nil}
      tree(p) == IF PendingFalter(p)
                 THEN TreeRecordUnsuccessfulPoll(blocks[p].sb)
                 ELSE blocks[p].sb
  IN  /\ eager.last = lastAcceptedID
      /\ eager.processing = DOMAIN blocks \ {lastAcceptedID}
      /\ eager.forest = [p \in parents |-> ForestOf(tree(p))]

\* The three caches describe the branch the snow trees lead to now, although
\* RecordPoll returns early when the block it ends at was preferred before.
PreferredBranchIsCurrent ==
  LET branch == Branch(eager, eager.last)
  IN  /\ preference = IF branch = <<>> THEN lastAcceptedID ELSE Last(branch)
      /\ preferredIDs = Range(branch)
      /\ preferredHeights = [h \in {Height[b] : b \in Range(branch)} |->
                               branch[h - Height[lastAcceptedID]]]

\* A decision is acted on in the poll that makes it: no block waits in the map
\* with a finalized tree.  vote only accepts below the last accepted block, so
\* this needs that no tree finalizes before its parent's does.
NoDecisionIsLeft ==
  \A p \in DOMAIN blocks : blocks[p].sb # Nil => ~TreeFinalized(blocks[p].sb)

\* What the virtual machine sees is what Ledger promises.
Promise == INSTANCE Ledger WITH
  last       <- lastAcceptedID,
  accepted   <- {Genesis} \cup Range(accepted),
  processing <- DOMAIN blocks \ {lastAcceptedID}

\* Every Add and every RecordPoll, however many blocks it decides, is a step
\* Ledger allows: decided blocks stay decided, everything between the old and
\* the new last accepted block is accepted, all conflicting blocks and no others
\* are rejected.
ImplementsLedger == Promise!Spec

=============================================================================
