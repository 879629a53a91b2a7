------------------------ MODULE NnarySnowflakeProofs -------------------------
(***************************************************************************)
(* Proofs about a snowflake instance, for every sample size, every list of *)
(* termination conditions the code allows and every set of choices.        *)
(*                                                                         *)
(* The inductive invariant adds to the properties of NnarySnowflake the    *)
(* fact that only the preference can have a streak: a poll that gave a     *)
(* choice the threshold of a condition also made it the preference.        *)
(***************************************************************************)
EXTENDS NnarySnowflake, LeastNumber, TLAPS, SequenceTheorems

Confidence == [ConditionIndex -> Nat]

LEMMA ConditionFacts ==
  /\ ConditionIndex \subseteq Nat
  /\ \A i \in ConditionIndex :
       /\ TerminationConditions[i].alphaConfidence \in Nat
       /\ TerminationConditions[i].beta \in Nat \ {0}
       /\ AlphaPreference <= TerminationConditions[i].alphaConfidence
<1>1. TerminationConditions \in Seq([alphaConfidence : Nat, beta : Nat \ {0}])
  BY ParametersVerified DEF ParametersVerified
<1>2. ConditionIndex = 1..Len(TerminationConditions)
  BY <1>1 DEF ConditionIndex
<1>3. \A i \in ConditionIndex :
        TerminationConditions[i] \in [alphaConfidence : Nat, beta : Nat \ {0}]
  BY <1>1, <1>2, ElementOfSeq
<1>4. \A i \in ConditionIndex :
        AlphaPreference <= TerminationConditions[i].alphaConfidence
  BY ParametersVerified DEF ParametersVerified
<1>5. Len(TerminationConditions) \in Nat
  BY <1>1
<1>6. QED
  BY <1>2, <1>3, <1>4, <1>5

\* What the loop of RecordPoll computes when it does not finalize: each
\* counter whose threshold was reached goes up by one and stays below its
\* beta, each other one is cleared.
LEMMA CountPollNotFinal ==
  ASSUME NEW c \in Confidence, NEW count \in Nat, ~Finalizes(c, count)
  PROVE  /\ \A i \in ConditionIndex :
              count >= TerminationConditions[i].alphaConfidence =>
                /\ CountPoll(c, count)[i] = c[i] + 1
                /\ c[i] + 1 < TerminationConditions[i].beta
         /\ \A i \in ConditionIndex :
              count < TerminationConditions[i].alphaConfidence =>
                CountPoll(c, count)[i] = 0
<1> DEFINE Reaches(i) == /\ count >= TerminationConditions[i].alphaConfidence
                         /\ c[i] + 1 >= TerminationConditions[i].beta
           T == {i \in ConditionIndex : Reaches(i)}
<1>1. T = {}
  <2>1. SUFFICES ASSUME T # {} PROVE FALSE
    OBVIOUS
  <2>2. PICK m \in T : \A n \in T : m <= n
    <3>1. T \in SUBSET Nat
      BY ConditionFacts
    <3>2. QED
      BY <2>1, <3>1, LeastNatural
  <2>3. ASSUME NEW j \in ConditionIndex, j < m
        PROVE  Continues(c, count, j)
    <3>1. j \notin T
      <4>1. SUFFICES ASSUME j \in T PROVE FALSE
        OBVIOUS
      <4>2. m <= j
        BY <2>2, <4>1
      <4>3. m \in Nat /\ j \in Nat
        BY ConditionFacts
      <4>4. QED
        BY <2>3, <4>2, <4>3
    <3>2. TerminationConditions[j].alphaConfidence
            < TerminationConditions[m].alphaConfidence
      BY <2>3, ParametersVerified DEF ParametersVerified
    <3>3. count >= TerminationConditions[j].alphaConfidence
      BY <3>2, ConditionFacts
    <3>4. QED
      BY <3>1, <3>3, ConditionFacts DEF Continues, Confidence
  <2>4. Visits(c, count, m)
    BY <2>3 DEF Visits
  <2>5. QED
    BY <2>4 DEF Finalizes
<1>2. ASSUME NEW i \in ConditionIndex,
             count >= TerminationConditions[i].alphaConfidence
      PROVE  /\ Visits(c, count, i)
             /\ c[i] + 1 < TerminationConditions[i].beta
  <2>1. \A j \in ConditionIndex : j < i =>
          count >= TerminationConditions[j].alphaConfidence
    <3>1. SUFFICES ASSUME NEW j \in ConditionIndex, j < i
                   PROVE  count >= TerminationConditions[j].alphaConfidence
      OBVIOUS
    <3>2. TerminationConditions[j].alphaConfidence
            < TerminationConditions[i].alphaConfidence
      BY <3>1, ParametersVerified DEF ParametersVerified
    <3>3. QED
      BY <1>2, <3>2, ConditionFacts
  <2>2. \A j \in ConditionIndex :
          count >= TerminationConditions[j].alphaConfidence =>
            c[j] + 1 < TerminationConditions[j].beta
    BY <1>1, ConditionFacts DEF Confidence
  <2>3. QED
    BY <1>2, <2>1, <2>2 DEF Visits, Continues
<1>3. QED
  BY <1>2, ConditionFacts DEF CountPoll

LEMMA CountPollType ==
  ASSUME NEW c \in Confidence, NEW count \in Nat
  PROVE  /\ CountPoll(c, count) \in Confidence
         /\ Finalizes(c, count) \in BOOLEAN
BY DEF CountPoll, Confidence, Finalizes

-----------------------------------------------------------------------------

\* Only the preference has a streak.
OnlyPreferenceStreaks ==
  ~sf.finalized => \A c \in Choice \ {sf.preference} : streak[c] = ZeroConfidence

IInv ==
  /\ TypeOK
  /\ ConfidenceIsStreak
  /\ ConfidenceOrdered
  /\ UndecidedBelowBeta
  /\ OnlyPreferenceStreaks

LEMMA InitIInv == Init => IInv
<1>1. SUFFICES ASSUME Init PROVE IInv
  OBVIOUS
<1>2. PICK c \in Choice : sf = NewNnary(c) /\ streak = NoStreak
  BY <1>1 DEF Init
<1>3. ZeroConfidence \in Confidence
  BY DEF ZeroConfidence, Confidence
<1>4. TypeOK
  BY <1>2, <1>3 DEF TypeOK, NewNnary, NoStreak, Confidence
<1>5. /\ ConfidenceIsStreak
      /\ OnlyPreferenceStreaks
  BY <1>2 DEF ConfidenceIsStreak, OnlyPreferenceStreaks, NewNnary, NoStreak
<1>6. /\ ConfidenceOrdered
      /\ UndecidedBelowBeta
  BY <1>2, ConditionFacts
     DEF ConfidenceOrdered, UndecidedBelowBeta, NewNnary, ZeroConfidence
<1>7. QED
  BY <1>4, <1>5, <1>6 DEF IInv

\* A poll of an undecided instance that reaches AlphaPreference: the counters
\* the loop starts from are the streak of the polled choice.
LEMMA StartingCounters ==
  ASSUME IInv, ~sf.finalized, NEW choice \in Choice
  PROVE  (IF choice # sf.preference THEN ZeroConfidence ELSE sf.confidence)
           = streak[choice]
BY DEF IInv, ConfidenceIsStreak, OnlyPreferenceStreaks

LEMMA RecordPollIInv ==
  ASSUME IInv, NEW count \in 0..K, NEW choice \in Choice,
         RecordPoll(count, choice)
  PROVE  IInv'
<1> USE DEF Confidence
<1>1. CASE sf.finalized
  <2>1. sf' = sf /\ streak' = streak
    BY <1>1 DEF RecordPoll, NnaryRecordPoll
  <2>2. QED
    BY <2>1 DEF IInv, TypeOK, ConfidenceIsStreak, ConfidenceOrdered,
                UndecidedBelowBeta, OnlyPreferenceStreaks
<1>2. CASE ~sf.finalized
  <2>1. streak' = [c \in Choice |-> [i \in ConditionIndex |->
                     IF /\ c = choice
                        /\ count >= TerminationConditions[i].alphaConfidence
                     THEN streak[c][i] + 1 ELSE 0]]
    BY <1>2 DEF RecordPoll
  <2>2. streak' \in [Choice -> Confidence]
    BY <2>1 DEF IInv, TypeOK
  <2>3. \A c \in Choice \ {choice} : streak'[c] = ZeroConfidence
    BY <2>1 DEF ZeroConfidence
  <2>4. K \in Nat /\ count \in Nat /\ AlphaPreference \in Nat
    BY ParametersVerified DEF ParametersVerified
  <2>5. CASE count < AlphaPreference
    <3>1. sf' = [sf EXCEPT !.confidence = ZeroConfidence]
      BY <1>2, <2>5 DEF RecordPoll, NnaryRecordPoll, NnaryRecordUnsuccessfulPoll
    <3>2. streak' = NoStreak
      <4>1. \A i \in ConditionIndex :
              ~(count >= TerminationConditions[i].alphaConfidence)
        BY <2>4, <2>5, ConditionFacts
      <4>2. QED
        BY <2>1, <4>1 DEF NoStreak, ZeroConfidence
    <3>3. ZeroConfidence \in Confidence
      BY DEF ZeroConfidence
    <3>4. /\ sf'.confidence = ZeroConfidence
          /\ sf'.preference = sf.preference
          /\ sf'.finalized = sf.finalized
          /\ sf' \in [preference : Choice, confidence : Confidence,
                      finalized : BOOLEAN]
      BY <3>1, <3>3 DEF IInv, TypeOK
    <3>5. TypeOK'
      BY <2>2, <3>4 DEF TypeOK
    <3>6. ConfidenceIsStreak' /\ OnlyPreferenceStreaks'
      BY <3>2, <3>4, <3>5
         DEF ConfidenceIsStreak, OnlyPreferenceStreaks, NoStreak, TypeOK
    <3>7. ConfidenceOrdered' /\ UndecidedBelowBeta'
      BY <3>4, ConditionFacts
         DEF ConfidenceOrdered, UndecidedBelowBeta, ZeroConfidence
    <3>8. QED
      BY <3>5, <3>6, <3>7 DEF IInv
  <2>6. CASE ~(count < AlphaPreference)
    <3> DEFINE c0 == streak[choice]
    <3>1. sf' = [preference |-> choice,
                 confidence |-> CountPoll(c0, count),
                 finalized  |-> Finalizes(c0, count)]
      BY <1>2, <2>6, StartingCounters DEF RecordPoll, NnaryRecordPoll
    <3>2. c0 \in Confidence
      BY DEF IInv, TypeOK
    <3>3. TypeOK'
      BY <2>2, <2>4, <3>1, <3>2, CountPollType DEF TypeOK
    <3>4. CASE sf'.finalized
      BY <3>3, <3>4 DEF IInv, ConfidenceIsStreak, ConfidenceOrdered,
                        UndecidedBelowBeta, OnlyPreferenceStreaks
    <3>5. CASE ~sf'.finalized
      <4>1. ~Finalizes(c0, count)
        BY <3>1, <3>5
      <4>2. /\ \A i \in ConditionIndex :
                 count >= TerminationConditions[i].alphaConfidence =>
                   /\ sf'.confidence[i] = c0[i] + 1
                   /\ c0[i] + 1 < TerminationConditions[i].beta
            /\ \A i \in ConditionIndex :
                 count < TerminationConditions[i].alphaConfidence =>
                   sf'.confidence[i] = 0
        BY <2>4, <3>1, <3>2, <4>1, CountPollNotFinal
      <4>3. ConfidenceIsStreak'
        <5>1. sf'.confidence \in Confidence /\ sf'.preference = choice
          BY <3>1, <3>3 DEF TypeOK
        <5>2. streak'[choice] \in Confidence
          BY <2>2
        <5>3. \A i \in ConditionIndex : sf'.confidence[i] = streak'[choice][i]
          BY <2>1, <2>4, <4>2, ConditionFacts
        <5>4. QED
          BY <5>1, <5>2, <5>3 DEF ConfidenceIsStreak
      <4>4. OnlyPreferenceStreaks'
        BY <2>3, <3>1 DEF OnlyPreferenceStreaks
      <4>5. UndecidedBelowBeta'
        BY <2>4, <4>2, ConditionFacts DEF UndecidedBelowBeta
      <4>6. ConfidenceOrdered'
        <5>1. SUFFICES ASSUME NEW i \in ConditionIndex, NEW j \in ConditionIndex,
                              i < j
                       PROVE  sf'.confidence[i] >= sf'.confidence[j]
          BY DEF ConfidenceOrdered
        <5>2. TerminationConditions[i].alphaConfidence
                < TerminationConditions[j].alphaConfidence
          BY <5>1, ParametersVerified DEF ParametersVerified
        <5>3. c0[i] >= c0[j]
          <6>1. CASE choice = sf.preference
            BY <1>2, <5>1, <6>1 DEF IInv, ConfidenceIsStreak, ConfidenceOrdered
          <6>2. CASE choice # sf.preference
            BY <1>2, <6>2 DEF IInv, OnlyPreferenceStreaks, ZeroConfidence
          <6>3. QED
            BY <6>1, <6>2
        <5>4. QED
          BY <2>4, <3>2, <4>2, <5>2, <5>3, ConditionFacts
      <4>7. QED
        BY <3>3, <4>3, <4>4, <4>5, <4>6 DEF IInv
    <3>6. QED
      BY <3>4, <3>5
  <2>7. QED
    BY <2>5, <2>6
<1>3. QED
  BY <1>1, <1>2

LEMMA RecordUnsuccessfulPollIInv ==
  ASSUME IInv, RecordUnsuccessfulPoll
  PROVE  IInv'
<1>1. /\ ZeroConfidence \in Confidence
      /\ NoStreak \in [Choice -> Confidence]
  BY DEF ZeroConfidence, Confidence, NoStreak
<1>2. /\ sf'.confidence = ZeroConfidence
      /\ sf'.preference = sf.preference
      /\ sf'.finalized = sf.finalized
      /\ sf' \in [preference : Choice, confidence : Confidence,
                  finalized : BOOLEAN]
      /\ streak' = NoStreak
  BY <1>1 DEF RecordUnsuccessfulPoll, NnaryRecordUnsuccessfulPoll, IInv, TypeOK,
              Confidence
<1>3. TypeOK'
  BY <1>1, <1>2 DEF TypeOK, Confidence
<1>4. ConfidenceIsStreak' /\ OnlyPreferenceStreaks'
  BY <1>2, <1>3 DEF ConfidenceIsStreak, OnlyPreferenceStreaks, NoStreak, TypeOK
<1>5. ConfidenceOrdered' /\ UndecidedBelowBeta'
  BY <1>2, ConditionFacts
     DEF ConfidenceOrdered, UndecidedBelowBeta, ZeroConfidence
<1>6. QED
  BY <1>3, <1>4, <1>5 DEF IInv

LEMMA NextIInv == IInv /\ [Next]_vars => IInv'
<1>1. SUFFICES ASSUME IInv, [Next]_vars PROVE IInv'
  OBVIOUS
<1>2. ASSUME NEW count \in 0..K, NEW choice \in Choice, RecordPoll(count, choice)
      PROVE  IInv'
  BY <1>1, <1>2, RecordPollIInv
<1>3. CASE RecordUnsuccessfulPoll
  BY <1>1, <1>3, RecordUnsuccessfulPollIInv
<1>4. CASE UNCHANGED vars
  BY <1>1, <1>4 DEF vars, IInv, TypeOK, ConfidenceIsStreak, ConfidenceOrdered,
                    UndecidedBelowBeta, OnlyPreferenceStreaks
<1>5. QED
  BY <1>1, <1>2, <1>3, <1>4 DEF Next

\* IInv holds in every reachable state of a snowflake instance.
THEOREM Invariance == Spec => []IInv
<1>1. QED
  BY InitIInv, NextIInv, PTL DEF Spec

-----------------------------------------------------------------------------

\* The fields of an instance keep their types under every sequence of polls.
THEOREM TypeCorrect == Spec => []TypeOK
<1>1. IInv => TypeOK
  BY DEF IInv
<1>2. QED
  BY <1>1, Invariance, PTL

\* The counters of RecordPoll are the true number of consecutive qualifying
\* polls for the preference, whatever the preference changes and thresholds.
THEOREM CountersAreStreaks == Spec => []ConfidenceIsStreak
<1>1. IInv => ConfidenceIsStreak
  BY DEF IInv
<1>2. QED
  BY <1>1, Invariance, PTL

\* The Invariant comment of the instance types: counters of more demanding
\* termination conditions are never ahead of those of weaker ones.
THEOREM CountersOrdered == Spec => []ConfidenceOrdered
<1>1. IInv => ConfidenceOrdered
  BY DEF IInv
<1>2. QED
  BY <1>1, Invariance, PTL

\* RecordPoll finalizes on the very poll that brings a counter to its beta.
THEOREM NoMissedDecision == Spec => []UndecidedBelowBeta
<1>1. IInv => UndecidedBelowBeta
  BY DEF IInv
<1>2. QED
  BY <1>1, Invariance, PTL

\* A finalized instance never changes its preference and is never reopened.
THEOREM FinalDecisions == Spec => DecisionIsFinal
<1> DEFINE Kept == sf.finalized => /\ sf'.finalized
                                   /\ sf'.preference = sf.preference
<1>1. ASSUME IInv, Next
      PROVE  Kept
  <2>1. SUFFICES ASSUME sf.finalized
                 PROVE  sf'.finalized /\ sf'.preference = sf.preference
    OBVIOUS
  <2>2. CASE \E count \in 0..K, choice \in Choice : RecordPoll(count, choice)
    BY <2>1, <2>2 DEF RecordPoll, NnaryRecordPoll
  <2>3. CASE RecordUnsuccessfulPoll
    BY <1>1, <2>1, <2>3 DEF RecordUnsuccessfulPoll, NnaryRecordUnsuccessfulPoll,
                            IInv, TypeOK
  <2>4. QED
    BY <1>1, <2>2, <2>3 DEF Next
<1>2. IInv /\ [Next]_vars => [Kept]_vars
  BY <1>1
<1>3. QED
  BY <1>2, Invariance, PTL DEF Spec, DecisionIsFinal

\* A finalizing poll completes a streak of beta polls for the value decided.
THEOREM DecisionsOnStreaks == Spec => FinalizesOnStreak
<1> DEFINE Justified == (~sf.finalized /\ sf'.finalized) =>
             \E i \in ConditionIndex :
               streak'[sf'.preference][i] >= TerminationConditions[i].beta
<1>1. ASSUME IInv, Next
      PROVE  Justified
  <2>1. SUFFICES ASSUME ~sf.finalized, sf'.finalized
                 PROVE  \E i \in ConditionIndex :
                          streak'[sf'.preference][i]
                            >= TerminationConditions[i].beta
    OBVIOUS
  <2>2. ~RecordUnsuccessfulPoll
    BY <1>1, <2>1 DEF RecordUnsuccessfulPoll, NnaryRecordUnsuccessfulPoll,
                      IInv, TypeOK
  <2>3. PICK count \in 0..K, choice \in Choice : RecordPoll(count, choice)
    BY <1>1, <2>2 DEF Next
  <2>4. count >= AlphaPreference
    <3>1. SUFFICES ASSUME count < AlphaPreference PROVE FALSE
      BY ParametersVerified DEF ParametersVerified
    <3>2. sf' = [sf EXCEPT !.confidence = ZeroConfidence]
      BY <2>1, <2>3, <3>1
         DEF RecordPoll, NnaryRecordPoll, NnaryRecordUnsuccessfulPoll
    <3>3. QED
      BY <1>1, <2>1, <3>2 DEF IInv, TypeOK
  <2>5. sf'.preference = choice /\ Finalizes(streak[choice], count)
    <3>1. ~(count < AlphaPreference)
      BY <2>4, ParametersVerified DEF ParametersVerified
    <3>2. QED
      BY <1>1, <2>1, <2>3, <3>1, StartingCounters
         DEF RecordPoll, NnaryRecordPoll
  <2>6. PICK i \in ConditionIndex :
          /\ count >= TerminationConditions[i].alphaConfidence
          /\ streak[choice][i] + 1 >= TerminationConditions[i].beta
    BY <2>5 DEF Finalizes
  <2>7. streak'[choice][i] = streak[choice][i] + 1
    BY <2>1, <2>3, <2>6 DEF RecordPoll
  <2>8. QED
    BY <2>5, <2>6, <2>7
<1>2. IInv /\ [Next]_vars => [Justified]_vars
  BY <1>1
<1>3. QED
  BY <1>2, Invariance, PTL DEF Spec, FinalizesOnStreak

=============================================================================
