---------------------------- MODULE SnowTreePolls ----------------------------
(***************************************************************************)
(* One snow tree under arbitrary additions and polls, beside the forest    *)
(* that was given the same additions and polls.                            *)
(***************************************************************************)
EXTENDS SnowTree

VARIABLES
  choices,   \* the identifiers given to NewTree and Add
  tree,
  forest     \* the forest given the same calls (history variable)

vars == <<choices, tree, forest>>

Init ==
  \E id \in Id : choices = {id} /\ tree = NewTree(id) /\ forest = NewForest(id)

Add(id) ==
  /\ id \notin choices
  /\ choices' = choices \cup {id}
  /\ tree' = TreeAdd(tree, id)
  /\ forest' = ForestAdd(forest, id)

\* The counter of a decided tree goes on counting late polls; this bound stops
\* it one poll after the decision.
LatePollBound ==
  \A i \in ConditionIndex :
    tree.node.snow.confidence[i] <= TerminationConditions[i].beta

RecordPoll(votes) ==
  /\ LatePollBound
  /\ tree' = TreeRecordPoll(tree, votes)
  /\ forest' = ForestRecordPoll(forest, votes)
  /\ UNCHANGED choices

RecordUnsuccessfulPoll ==
  /\ tree' = TreeRecordUnsuccessfulPoll(tree)
  /\ forest' = ForestRecordUnsuccessfulPoll(forest)
  /\ UNCHANGED choices

\* The caller only polls choices it has added, with at most K votes.
Next ==
  \/ \E id \in Id : Add(id)
  \/ \E votes \in VoteBags(choices) : RecordPoll(votes)
  \/ RecordUnsuccessfulPoll

Spec == Init /\ [][Next]_vars

-----------------------------------------------------------------------------
(* Properties.                                                             *)

\* Sharing instances between bits and deferring resets is invisible: every
\* addition and every poll changes the tree the way it changes the forest in
\* which each prefix has its own instance and every reset happens at once.
TreeIsForest == ForestOf(tree) = forest

\* The preference cached in the nodes is where the instances lead: RecordPoll
\* and Add refresh preference and preferences[bit] wherever it may move.
PreferenceIsCurrent ==
  TreePreference(tree) = ForestPreference(forest)

\* Only the root of the tree can be decided, so RecordPoll may drop the node
\* that a child returns to an undecided parent: the comment in
\* unaryNode.RecordPoll that a decision under an undecided node is impossible.
DecidesFromTheRoot ==
  \A n \in Below(tree.node) : ~n.snow.finalized

=============================================================================
