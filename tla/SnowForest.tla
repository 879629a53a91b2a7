----------------------------- MODULE SnowForest ------------------------------
(***************************************************************************)
(* What a snow tree promises.  Between choices that are bit strings there  *)
(* is one binary snowflake instance for every proper prefix some undecided *)
(* choice has: it decides the next bit.  Every poll reaches every instance *)
(* at once: the instances whose prefix one bit wins by AlphaPreference     *)
(* votes record it, all others are reset there and then.  The bits are     *)
(* decided from the first to the last.                                     *)
(*                                                                         *)
(* SnowTree, the patricia tree of the code, shares one instance between    *)
(* the bits no conflict tells apart and defers most resets; it implements  *)
(* this specification.                                                     *)
(***************************************************************************)
EXTENDS Snowflake, SequencesExt

CONSTANTS
  NumBits,   \* length of an identifier
  Id         \* the identifiers that may be added, tuples of NumBits bits

ASSUME IdsAreBits == NumBits \in Nat \ {0} /\ Id \subseteq [1..NumBits -> {0, 1}]

BitAfter(p, id) == id[Len(p) + 1]

\* The prefixes of id whose next bit is still open after the decided bits d.
OpenPrefixes(d, id) == {SubSeq(id, 1, n) : n \in Len(d)..(NumBits - 1)}

\* The number of votes for identifiers in S, in a bag of at most K votes.
VotesFor(votes, S) == Cardinality({v \in S \X (1..K) : v[2] <= votes[v[1]]})

\* The bags of at most K votes for the identifiers in S: one for each validator
\* that answered.
VoteBags(S) ==
  {[id \in S |-> Cardinality({v \in DOMAIN answers : answers[v] = id})] :
     answers \in UNION {[1..n -> S] : n \in 0..K}}

\* The votes that follow prefix q.
VotesUnder(votes, q) == VotesFor(votes, {id \in DOMAIN votes : IsPrefix(q, id)})

-----------------------------------------------------------------------------
(* A forest f: the bits decided so far, a prefix of the final decision, and*)
(* f.inst[p], the instance that decides the bit after prefix p.            *)

NewForest(id) ==
  [decided |-> <<>>,
   inst    |-> [p \in OpenPrefixes(<<>>, id) |-> Extend(NewUnary, BitAfter(p, id))]]

\* A choice that contradicts a decided bit adds no instance.
ForestAdd(f, id) ==
  LET new == IF IsPrefix(f.decided, id)
             THEN OpenPrefixes(f.decided, id) \ DOMAIN f.inst ELSE {}
  IN  [f EXCEPT !.inst = [p \in DOMAIN f.inst \cup new |->
         IF p \in new THEN Extend(NewUnary, BitAfter(p, id)) ELSE f.inst[p]]]

\* The instance after prefix p once the votes are in.
Polled(f, p, votes) ==
  LET winners == {b \in {0, 1} :
                    VotesUnder(votes, Append(p, b)) >= AlphaPreference}
  IN  IF winners = {}
      THEN BinaryRecordUnsuccessfulPoll(f.inst[p])
      ELSE LET b == CHOOSE b \in winners : TRUE
           IN  BinaryRecordPoll(f.inst[p], VotesUnder(votes, Append(p, b)), b)

\* d continues the bits decided in f through finalized instances only, as far
\* as they go.
FollowsDecisions(f, d, polled) ==
  /\ IsPrefix(f.decided, d)
  /\ \A n \in Len(f.decided)..(Len(d) - 1) :
       LET p == SubSeq(d, 1, n)
       IN  polled[p].finalized /\ polled[p].preference = d[n + 1]
  /\ d \in DOMAIN polled => ~polled[d].finalized

ForestRecordPoll(f, votes) ==
  LET polled  == [p \in DOMAIN f.inst |-> Polled(f, p, votes)]
      ends    == {Append(p, polled[p].preference) : p \in DOMAIN polled}
      decided == CHOOSE d \in {f.decided} \cup ends : FollowsDecisions(f, d, polled)
  IN  [decided |-> decided,
       inst    |-> [p \in {q \in DOMAIN polled : IsPrefix(decided, q)} |-> polled[p]]]

ForestRecordUnsuccessfulPoll(f) ==
  [f EXCEPT !.inst = [p \in DOMAIN f.inst |-> BinaryRecordUnsuccessfulPoll(f.inst[p])]]

\* The identifier the instances lead to.
ForestPreference(f) ==
  CHOOSE id \in Id :
    /\ IsPrefix(f.decided, id)
    /\ \A p \in OpenPrefixes(f.decided, id) :
         p \in DOMAIN f.inst /\ f.inst[p].preference = BitAfter(p, id)

ForestFinalized(f) == Len(f.decided) = NumBits

=============================================================================
