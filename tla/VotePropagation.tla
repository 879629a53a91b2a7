--------------------------- MODULE VotePropagation ---------------------------
(***************************************************************************)
(* How a poll finds the blocks to record it on (calculateInDegree and      *)
(* pushVotes of snowman.Topological): a Kahn sort of the part of the block *)
(* tree that the votes reach.  Votes are read in the random order of a Go  *)
(* map and leaves are popped in another; the stack that comes out must not *)
(* depend on either.                                                       *)
(***************************************************************************)
EXTENDS Snowman

VARIABLES
  processing,   \* the blocks above the last accepted block, Genesis
  votes,        \* the bag of votes of the poll
  unread,       \* the voted blocks calculateInDegree has not come to
  kahnNodes,    \* parent -> [inDegree, votes]
  leaves,
  voteStack     \* the parents pushed so far with the votes of their children

input == <<processing, votes>>
vars == <<processing, votes, unread, kahnNodes, leaves, voteStack>>

AllVotes == VoteBags(AnyBlock)

NewKahnNode == [inDegree |-> 0, votes |-> <<>>]

KahnNode(b) == IF b \in DOMAIN kahnNodes THEN kahnNodes[b] ELSE NewKahnNode

\* Bag.AddCount
AddCount(bag, b, n) ==
  IF n = 0 THEN bag
  ELSE (b :> (n + IF b \in DOMAIN bag THEN bag[b] ELSE 0)) @@ bag

\* Any tree that Add can have built, and any votes.
Init ==
  /\ processing \in {S \in SUBSET Block : \A b \in S : Parent[b] \in S \cup {Genesis}}
  /\ votes \in AllVotes
  /\ unread = {b \in AnyBlock : votes[b] > 0}
  /\ kahnNodes = <<>>
  /\ leaves = {}
  /\ voteStack = <<>>

Decided(b) == b = Genesis

\* The proper ancestors of b the inner loop reaches: it stops at the first that
\* already has a node.
Walked(b) ==
  {a \in Ancestors[b] \ {b} :
     \A c \in Ancestors[b] \ {a, b} : a \in Ancestors[c] => c \notin DOMAIN kahnNodes}

\* The new parent is a leaf; the node the walk ran into is none any more.
Leaves(parent, walked) ==
  (leaves \cup {parent}) \ {a \in walked : a \in DOMAIN kahnNodes}

CountVote(b) ==
  /\ b \in unread
  /\ unread' = unread \ {b}
  /\ IF b \notin processing \/ Decided(b)
     THEN UNCHANGED <<kahnNodes, leaves>>
     ELSE LET parent == Parent[b]
              node   == KahnNode(parent)
              voted  == [node EXCEPT !.votes = AddCount(@, b, votes[b])]
              walked == Walked(parent)
          IN  IF parent \in DOMAIN kahnNodes
              THEN kahnNodes' = (parent :> voted) @@ kahnNodes /\ UNCHANGED leaves
              ELSE /\ kahnNodes' =
                        (parent :> voted)
                        @@ [a \in walked |-> [KahnNode(a) EXCEPT !.inDegree = @ + 1]]
                        @@ kahnNodes
                   /\ leaves' = Leaves(parent, walked)
  /\ UNCHANGED <<input, voteStack>>

\* Bug: the parent is a leaf as soon as one child has pushed its votes.
ReadyEarly(node) == TRUE

Ready(node) == node.inDegree = 0

\* One iteration of pushVotes.
PushVotes(leaf) ==
  LET node   == kahnNodes[leaf]
      count  == Total(node.votes)
      parent == Parent[leaf]
      pushed == [kahnNodes[parent] EXCEPT !.inDegree = @ - 1,
                                          !.votes = AddCount(@, leaf, count)]
  IN  /\ unread = {}
      /\ leaf \in leaves
      /\ voteStack' = IF count >= AlphaPreference
                      THEN Append(voteStack, [parent |-> leaf, votes |-> node.votes])
                      ELSE voteStack
      /\ IF Decided(leaf)
         THEN leaves' = leaves \ {leaf} /\ UNCHANGED kahnNodes
         ELSE /\ kahnNodes' = (parent :> pushed) @@ kahnNodes
              /\ leaves' = (leaves \ {leaf})
                           \cup IF Ready(pushed) THEN {parent} ELSE {}
      /\ UNCHANGED <<input, unread>>

Done == unread = {} /\ leaves = {} /\ UNCHANGED vars

Next == (\E b \in AnyBlock : CountVote(b) \/ PushVotes(b)) \/ Done

Spec == Init /\ [][Next]_vars

-----------------------------------------------------------------------------

\* The children of p that got votes, with theirs and their descendants' votes.
TransitiveVotes(p) ==
  LET bag == ChildVotes({b \in processing : Parent[b] = p}, processing, votes)
  IN  Restrict(bag, {b \in DOMAIN bag : bag[b] > 0})

\* When the sort is over, the stack holds the parents whose children got
\* AlphaPreference votes, each with all of them, the last accepted block on top:
\* whatever order the maps were read in, vote pops one branch from its root.
StackIsTheMajorityBranch ==
  unread = {} /\ leaves = {} =>
    LET parents == {p \in processing \cup {Genesis} :
                      Total(TransitiveVotes(p)) >= AlphaPreference}
        n == Cardinality(parents)
    IN  /\ Len(voteStack) = n
        /\ \A i \in 1..n : /\ Height[voteStack[i].parent] = n - i
                           /\ voteStack[i].parent \in parents
                           /\ voteStack[i].votes = TransitiveVotes(voteStack[i].parent)

=============================================================================
