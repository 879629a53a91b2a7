--------------------------- MODULE NnarySnowflake ---------------------------
(***************************************************************************)
(* One n-nary snowflake instance under arbitrary polls.  Beside the        *)
(* instance, streak keeps an independent account of the polls it was given.*)
(***************************************************************************)
EXTENDS Snowflake

CONSTANT Choice   \* the values the instance decides between

VARIABLES
  sf,      \* the instance
  streak   \* streak[c][i]: how many of the latest polls, without a gap, gave c
           \* at least the alphaConfidence of condition i (history variable)

vars == <<sf, streak>>

NoStreak == [c \in Choice |-> ZeroConfidence]

Init ==
  \E c \in Choice : sf = NewNnary(c) /\ streak = NoStreak

\* A poll whose most voted choice got count votes.
RecordPoll(count, choice) ==
  /\ sf' = NnaryRecordPoll(sf, count, choice)
  /\ streak' = IF sf.finalized THEN streak
               ELSE [c \in Choice |-> [i \in ConditionIndex |->
                       IF /\ c = choice
                          /\ count >= TerminationConditions[i].alphaConfidence
                       THEN streak[c][i] + 1
                       ELSE 0]]

RecordUnsuccessfulPoll ==
  /\ sf' = NnaryRecordUnsuccessfulPoll(sf)
  /\ streak' = NoStreak

Next ==
  \/ \E count \in 0..K, choice \in Choice :
        RecordPoll(count, choice)
  \/ RecordUnsuccessfulPoll

Spec == Init /\ [][Next]_vars

-----------------------------------------------------------------------------
(* Properties.                                                             *)

\* Every field of the instance keeps its type.
TypeOK ==
  /\ sf \in [preference : Choice, 
             confidence : [ConditionIndex -> Nat],
             finalized  : BOOLEAN]
  /\ streak \in [Choice -> [ConditionIndex -> Nat]]

\* Until it is decided, the counters of an instance are exactly the number of
\* consecutive polls that gave its preference the threshold of the condition:
\* no preference change, missed threshold or early return of RecordPoll leaves
\* a counter too high or too low.
ConfidenceIsStreak ==
  ~sf.finalized => sf.confidence = streak[sf.preference]

\* The Invariant comment of the instance types: a counter is never below the
\* counter of a more demanding condition, until the instance finalizes.
ConfidenceOrdered ==
  ~sf.finalized => \A i, j \in ConditionIndex : 
                      i < j => sf.confidence[i] >= sf.confidence[j]

\* An undecided instance is below every beta: RecordPoll never misses the poll
\* on which it should have finalized.
UndecidedBelowBeta ==
  ~sf.finalized => \A i \in ConditionIndex :
                      sf.confidence[i] < TerminationConditions[i].beta

\* An instance only finalizes on a value that the last beta polls, without a
\* gap, gave the threshold of one condition.
FinalizesOnStreak ==
  [][(~sf.finalized /\ sf'.finalized) =>
       \E i \in ConditionIndex :
         streak'[sf'.preference][i] >= TerminationConditions[i].beta]_vars

\* A decision is for ever: no later poll, successful for another choice or
\* not, moves the preference of a finalized instance or reopens it.
DecisionIsFinal ==
  [][sf.finalized => /\ sf'.finalized
                     /\ sf'.preference = sf.preference]_vars

=============================================================================
