------------------------------ MODULE SnowTree -------------------------------
(***************************************************************************)
(* The patricia tree of snow instances (snowball.Tree) that decides between*)
(* the children of a block.  A unary node covers the bits [decided, common)*)
(* on which all its choices agree, a binary node the one bit on which they *)
(* part.  When a node does not get an alpha majority it only marks what is *)
(* below it: the reset happens when a later poll gets there.               *)
(*                                                                         *)
(* Operations are functions from trees to trees; ForestOf is the forest    *)
(* (SnowForest) a tree stands for.  SnowTreePolls drives one tree, and     *)
(* Topological builds Snowman consensus from one tree for each block.      *)
(***************************************************************************)
EXTENDS SnowForest, IdBits

ASSUME WholeBytes == NumBits % BitsPerByte = 0

Bit(id, i) == id[i + 1]

Total(votes) == VotesFor(votes, DOMAIN votes)

-----------------------------------------------------------------------------
(* Nodes.                                                                  *)

Nil == [kind |-> "nil"]

NewUnaryNode(preference, decidedPrefix) ==
  [kind          |-> "unary",
   preference    |-> preference,
   decidedPrefix |-> decidedPrefix,
   commonPrefix  |-> NumBits,
   snow          |-> NewUnary,
   shouldReset   |-> FALSE,
   child         |-> Nil]

NodePreference(n) ==
  IF n.kind = "unary" THEN n.preference
                      ELSE n.preferences[n.snow.preference]

DecidedPrefix(n) == IF n.kind = "unary" THEN n.decidedPrefix ELSE n.bit

\* Both sides of a split still owe the resets the unary node owed.
MarksOfSplit(u) == [b \in {0, 1} |-> u.shouldReset]

\* The binary node that takes over from unary node u at bit index, where
\* newChoice parts from it: own is what is below u's side.
SplitNode(u, index, newChoice, own) ==
  LET bit == Bit(u.preference, index)
      new == IF own = Nil THEN Nil ELSE NewUnaryNode(newChoice, index + 1)
  IN  [kind        |-> "binary",
       bit         |-> index,
       preferences |-> (bit :> u.preference) @@ ((1 - bit) :> newChoice),
       snow        |-> Extend(u.snow, bit),
       shouldReset |-> MarksOfSplit(u),
       children    |-> (bit :> own) @@ ((1 - bit) :> new)]

\* What is left of unary node u below a split at bit index.
BelowSplit(u, index) == [u EXCEPT !.decidedPrefix = index + 1]

RECURSIVE NodeAdd(_, _)

UnaryAdd(u, newChoice) ==
  LET diffs == FirstDifferenceSubset(u.decidedPrefix, u.commonPrefix, u.preference,
                                     newChoice)
      index == CHOOSE i \in diffs : TRUE
      below == BelowSplit(u, index)
  IN  IF u.snow.finalized THEN u
      ELSE IF diffs = {}
      THEN IF u.child = Nil THEN u
           ELSE [u EXCEPT !.child = NodeAdd(u.child, newChoice)]
      ELSE IF u.decidedPrefix = u.commonPrefix - 1
      THEN SplitNode(u, index, newChoice, u.child)
      ELSE IF index = u.decidedPrefix
      THEN SplitNode(u, index, newChoice, below)
      ELSE IF index = u.commonPrefix - 1
      THEN [u EXCEPT !.commonPrefix = index,
                     !.child = SplitNode(u, index, newChoice, u.child)]
      ELSE [u EXCEPT !.commonPrefix = index,
                     !.shouldReset = FALSE,
                     !.child = SplitNode(u, index, newChoice, below)]

BinaryAdd(b, id) ==
  LET bit == Bit(id, b.bit)
  IN  IF b.children[bit] = Nil THEN b
      ELSE [b EXCEPT !.children[bit] = NodeAdd(@, id)]

NodeAdd(n, id) == IF n.kind = "unary" THEN UnaryAdd(n, id) ELSE BinaryAdd(n, id)

-----------------------------------------------------------------------------
(* Polls.  node is the receiver after the call, next the node returned to  *)
(* the caller: they differ when the receiver finalized and hands over to   *)
(* its child.                                                              *)

RECURSIVE NodeRecordPoll(_, _, _)

Stays(n) == [node |-> n, next |-> n]

\* Bug: the preference of the node is not refreshed.
KeepPreference(u, child) == u.preference

\* The preference of the child may have changed.
RefreshedPreference(u, child) == NodePreference(child)

UnaryNodeRecordPoll(u, votes, reset) ==
  LET start  == IF reset THEN UnaryRecordUnsuccessfulPoll(u.snow) ELSE u.snow
      count  == Total(votes)
      polled == [u EXCEPT !.snow = UnaryRecordPoll(start, count)]
      below  == NodeRecordPoll(u.child, votes, u.shouldReset \/ reset)
  IN  IF count < AlphaPreference
      THEN Stays([u EXCEPT !.snow = UnaryRecordUnsuccessfulPoll(start),
                           !.shouldReset = TRUE])
      ELSE IF u.child = Nil
      THEN Stays([polled EXCEPT !.shouldReset = FALSE])
      ELSE IF polled.snow.finalized
      THEN [node |-> [polled EXCEPT !.shouldReset = @ \/ reset,
                                    !.child = below.node],
            next |-> below.next]
      ELSE Stays([polled EXCEPT !.shouldReset = FALSE,
                                !.child = below.node,
                                !.preference = RefreshedPreference(u, below.node)])

\* Bug: the side that did not get the votes is not marked.
MarksKeepLoser(b, bit, reset) ==
  [b.shouldReset EXCEPT ![bit] = @ \/ reset]

\* The reset passed in is owed to the polled side; the other side did not get
\* the threshold of votes.
Marks(b, bit, reset) ==
  [b.shouldReset EXCEPT ![bit] = @ \/ reset, ![1 - bit] = TRUE]

BinaryNodeRecordPoll(b, votes, reset) ==
  LET side(v) == Restrict(votes, {id \in DOMAIN votes : Bit(id, b.bit) = v})
      bit    == IF Total(side(1)) >= AlphaPreference THEN 1 ELSE 0
      start  == IF reset THEN BinaryRecordUnsuccessfulPoll(b.snow) ELSE b.snow
      marks  == Marks(b, bit, reset)
      count  == Total(side(bit))
      below  == NodeRecordPoll(b.children[bit], side(bit), marks[bit])
      polled == [b EXCEPT !.snow = BinaryRecordPoll(start, count, bit),
                          !.shouldReset = [marks EXCEPT ![bit] = FALSE]]
  IN  IF count < AlphaPreference
      THEN Stays([b EXCEPT !.snow = BinaryRecordUnsuccessfulPoll(start),
                           !.shouldReset = [marks EXCEPT ![bit] = TRUE]])
      ELSE IF b.children[bit] = Nil
      THEN Stays(polled)
      ELSE IF polled.snow.finalized
      THEN [node |-> [polled EXCEPT !.shouldReset = marks,
                                    !.children[bit] = below.node],
            next |-> below.next]
      ELSE Stays([polled EXCEPT !.children[bit] = below.node,
                                !.preferences[bit] = NodePreference(below.next)])

NodeRecordPoll(n, votes, reset) ==
  IF n.kind = "unary" THEN UnaryNodeRecordPoll(n, votes, reset)
                      ELSE BinaryNodeRecordPoll(n, votes, reset)

-----------------------------------------------------------------------------
(* The tree.                                                               *)

NewTree(choice) == [node |-> NewUnaryNode(choice, 0), shouldReset |-> FALSE]

TreePreference(t) == NodePreference(t.node)

TreeFinalized(t) == t.node.snow.finalized

TreeAdd(t, choice) ==
  IF EqualSubset(0, DecidedPrefix(t.node), TreePreference(t), choice)
  THEN [t EXCEPT !.node = NodeAdd(@, choice)]
  ELSE t

\* Votes for identifiers that contradict a decided bit are dropped first.
TreeRecordPoll(t, votes) ==
  LET valid == {id \in DOMAIN votes :
                  EqualSubset(0, DecidedPrefix(t.node), TreePreference(t), id)}
  IN  [node        |-> NodeRecordPoll(t.node, Restrict(votes, valid),
                                      t.shouldReset).next,
       shouldReset |-> FALSE]

TreeRecordUnsuccessfulPoll(t) == [t EXCEPT !.shouldReset = TRUE]

-----------------------------------------------------------------------------
(* The forest a tree stands for: the instance of a node, once for each bit *)
(* it covers, with the resets that are still to come applied.              *)

Effective(snow, pending) ==
  IF pending THEN [snow EXCEPT !.confidence = ZeroConfidence] ELSE snow

EmptyForest == [p \in {} |-> Nil]

RECURSIVE Forest(_, _)

\* pending: a reset is on its way to this node.
Forest(n, pending) ==
  CASE n.kind = "nil" -> EmptyForest
    [] n.kind = "unary" ->
         [p \in {SubSeq(n.preference, 1, i) :
                   i \in n.decidedPrefix..(n.commonPrefix - 1)} |->
            Extend(Effective(n.snow, pending), n.preference[Len(p) + 1])]
         @@ Forest(n.child, pending \/ n.shouldReset)
    [] n.kind = "binary" ->
         (SubSeq(n.preferences[0], 1, n.bit) :> Effective(n.snow, pending))
         @@ Forest(n.children[0], pending \/ n.shouldReset[0])
         @@ Forest(n.children[1], pending \/ n.shouldReset[1])

\* A finalized tree has no open bit left.
ForestOf(t) ==
  IF TreeFinalized(t)
  THEN [decided |-> TreePreference(t), inst |-> EmptyForest]
  ELSE [decided |-> SubSeq(TreePreference(t), 1, DecidedPrefix(t.node)),
        inst    |-> Forest(t.node, t.shouldReset)]

RECURSIVE Nodes(_)

Nodes(n) ==
  CASE n.kind = "nil"    -> {}
    [] n.kind = "unary"  -> {n} \cup Nodes(n.child)
    [] n.kind = "binary" -> {n} \cup Nodes(n.children[0]) \cup Nodes(n.children[1])

Below(n) ==
  IF n.kind = "unary" THEN Nodes(n.child)
                      ELSE Nodes(n.children[0]) \cup Nodes(n.children[1])

=============================================================================
