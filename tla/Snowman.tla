------------------------------- MODULE Snowman -------------------------------
(***************************************************************************)
(* What a poll means to Snowman consensus, with nothing deferred.  Every   *)
(* block with children holds the forest (SnowForest) that decides between  *)
(* them.  A vote for a block counts for all its ancestors; every forest    *)
(* records the poll if AlphaPreference votes are for its children and is   *)
(* reset at once if not.  Then the last accepted block advances as far as  *)
(* forests are finalized.  Topological, which visits the polled branch     *)
(* only and marks the rest, is checked against these operators.            *)
(***************************************************************************)
EXTENDS SnowTree, BlockTree

\* The votes that count for each member of children: its own and those of its
\* descendants among the processing blocks.
ChildVotes(children, processing, votes) ==
  [c \in children |->
     VotesFor(votes, {b \in processing : c \in Ancestors[b]})]

(* A state e: the last accepted block, the processing blocks, and the      *)
(* forest of every block that has children.                                *)

NewSnowman(genesis) ==
  [last |-> genesis, processing |-> {}, forest |-> <<>>]

SnowmanAdd(e, b) ==
  LET p == Parent[b]
      f == IF p \in DOMAIN e.forest THEN ForestAdd(e.forest[p], b) ELSE NewForest(b)
  IN  [e EXCEPT !.processing = @ \cup {b},
                !.forest = (p :> f) @@ @]

\* The blocks that a chain of finalized forests leads to from the last accepted
\* block.
Finalizations(e) ==
  {b \in e.processing :
     \A a \in Ancestors[b] \ Ancestors[e.last] :
       /\ ForestFinalized(e.forest[Parent[a]])
       /\ e.forest[Parent[a]].decided = a}

\* Moves the last accepted block to the end of that chain.
Advance(e) ==
  LET new  == Finalizations(e)
      last == CHOOSE b \in new : \A a \in new : a \in Ancestors[b]
  IN  IF new = {} THEN e
      ELSE [last       |-> last,
            processing |-> {b \in e.processing : Extends(b, last)},
            forest     |-> Restrict(e.forest,
                             {b \in DOMAIN e.forest : last \in Ancestors[b]})]

SnowmanRecordPoll(e, votes) ==
  LET children(p) == {b \in e.processing : Parent[b] = p}
      polled(p) ==
        LET bag == ChildVotes(children(p), e.processing, votes)
        IN  IF Total(bag) >= AlphaPreference
            THEN ForestRecordPoll(e.forest[p], bag)
            ELSE ForestRecordUnsuccessfulPoll(e.forest[p])
  IN  Advance([e EXCEPT !.forest = [p \in DOMAIN @ |-> polled(p)] @@ @])

RECURSIVE Branch(_, _)

\* The blocks the preferences lead to, from the child of b down.
Branch(e, b) ==
  IF b \notin DOMAIN e.forest THEN <<>>
  ELSE LET c == ForestPreference(e.forest[b]) IN <<c>> \o Branch(e, c)

=============================================================================
