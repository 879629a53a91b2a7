------------------------------ MODULE Snowflake ------------------------------
(***************************************************************************)
(* The snowflake instances of snow/consensus/snowball: unary (one value),  *)
(* binary (bit 0 or 1) and n-nary (any number of choices).  An instance    *)
(* counts consecutive polls in favour of its preference, one counter for   *)
(* each termination condition, and finalizes when a counter reaches the    *)
(* beta of its condition.                                                  *)
(*                                                                         *)
(* The operators are functions from the state of an instance to its next   *)
(* state.  NnarySnowflake drives one instance with arbitrary polls;        *)
(* SnowTree builds the tree of instances that decides between blocks.      *)
(***************************************************************************)
EXTENDS Integers, Sequences

CONSTANTS
  K,                      \* sample size: a poll collects at most K votes
  AlphaPreference,        \* votes needed to change the preference
  TerminationConditions   \* <<[alphaConfidence |-> .., beta |-> ..], ...>>

ConditionIndex == DOMAIN TerminationConditions

\* What Parameters.Verify and newSingleTerminationCondition guarantee, and what
\* the Invariant comment of the instance types requires of a longer list.
ASSUME ParametersVerified ==
  /\ K \in Nat
  /\ AlphaPreference \in Nat
  /\ AlphaPreference > K \div 2
  /\ AlphaPreference <= K
  /\ TerminationConditions \in Seq([alphaConfidence : Nat, beta : Nat \ {0}])
  /\ \A i \in ConditionIndex : 
        TerminationConditions[i].alphaConfidence \in AlphaPreference..K
  /\ \A i, j \in ConditionIndex : i < j =>
        /\ TerminationConditions[i].alphaConfidence
             < TerminationConditions[j].alphaConfidence
        /\ TerminationConditions[i].beta >= TerminationConditions[j].beta

-----------------------------------------------------------------------------
(* Confidence counters: the part the three instance types share.           *)

ZeroConfidence == [i \in ConditionIndex |-> 0]

\* The loop over the termination conditions goes past condition i when the
\* poll reached its threshold and its counter did not reach beta.
Continues(confidence, count, i) ==
  /\ count >= TerminationConditions[i].alphaConfidence
  /\ confidence[i] + 1 < TerminationConditions[i].beta

\* The loop visits condition i when it went past every earlier one.
Visits(confidence, count, i) ==
  \A j \in ConditionIndex : j < i => Continues(confidence, count, j)

\* Some visited condition was reached and its counter is now at beta.
Finalizes(confidence, count) ==
  \E i \in ConditionIndex :
    /\ Visits(confidence, count, i)
    /\ count >= TerminationConditions[i].alphaConfidence
    /\ confidence[i] + 1 >= TerminationConditions[i].beta

\* A missed threshold clears its counter and every later one; the return on
\* finalizing leaves the later counters as they are.
CountPoll(confidence, count) ==
  [i \in ConditionIndex |->
     IF count < TerminationConditions[i].alphaConfidence
     THEN IF Finalizes(confidence, count) THEN confidence[i] ELSE 0
     ELSE IF Visits(confidence, count, i) THEN confidence[i] + 1
                                          ELSE confidence[i]]

-----------------------------------------------------------------------------
(* Unary instances.                                                        *)

NewUnary == [confidence |-> ZeroConfidence, finalized |-> FALSE]

\* A unary instance has no guard of its own: its caller only polls it with at
\* least AlphaPreference votes.
UnaryRecordPoll(sf, count) ==
  [confidence |-> CountPoll(sf.confidence, count),
   finalized  |-> sf.finalized \/ Finalizes(sf.confidence, count)]

UnaryRecordUnsuccessfulPoll(sf) == [sf EXCEPT !.confidence = ZeroConfidence]

\* The binary instance that continues a unary one whose value had bit choice.
Extend(sf, choice) ==
  [preference |-> choice,
   confidence |-> sf.confidence,
   finalized  |-> sf.finalized]

-----------------------------------------------------------------------------
(* Binary instances.                                                       *)

BinaryRecordUnsuccessfulPoll(sf) == [sf EXCEPT !.confidence = ZeroConfidence]

BinaryRecordPoll(sf, count, choice) ==
  LET confidence == IF choice # sf.preference THEN ZeroConfidence
                                              ELSE sf.confidence
  IN  IF sf.finalized THEN sf
      ELSE IF count < AlphaPreference THEN BinaryRecordUnsuccessfulPoll(sf)
      ELSE [preference |-> choice,
            confidence |-> CountPoll(confidence, count),
            finalized  |-> Finalizes(confidence, count)]

-----------------------------------------------------------------------------
(* N-nary instances.                                                       *)

NewNnary(choice) ==
  [preference |-> choice, confidence |-> ZeroConfidence, finalized |-> FALSE]

NnaryRecordUnsuccessfulPoll(sf) == [sf EXCEPT !.confidence = ZeroConfidence]

NnaryRecordPoll(sf, count, choice) ==
  LET confidence == IF choice # sf.preference THEN ZeroConfidence
                                              ELSE sf.confidence
  IN  IF sf.finalized THEN sf
      ELSE IF count < AlphaPreference THEN NnaryRecordUnsuccessfulPoll(sf)
      ELSE [preference |-> choice,
            confidence |-> CountPoll(confidence, count),
            finalized  |-> Finalizes(confidence, count)]

=============================================================================
