----------------------------- MODULE BeaconPoll ------------------------------
(***************************************************************************)
(* The two polls that open bootstrapping                                   *)
(* (snow/consensus/snowman/bootstrapper).  Minority collects the last      *)
(* accepted blocks of a sample of the beacons; Majority has all of them    *)
(* say which of these blocks they have accepted, and keeps the ones that   *)
(* more than half of the stake has.  Both send to a few beacons at a time, *)
(* count one answer of each, and wait for all.                             *)
(***************************************************************************)
EXTENDS Integers, FiniteSetsExt

CONSTANTS
  Beacon,
  Weight,           \* Weight[n]: the stake of beacon n
  MaxOutstanding,   \* maxOutstandingBroadcastRequests
  SampleK,          \* the size of the sample, in units of stake
  MaxInt64          \* the largest signed number of the width of a weight

ASSUME BeaconsHaveStake ==
  /\ IsFiniteSet(Beacon) /\ Beacon # {}
  /\ Weight \in [Beacon -> Nat \ {0}]
  /\ MaxOutstanding \in Nat \ {0} /\ SampleK \in Nat \ {0} /\ MaxInt64 \in Nat

WeightOf(S) == MapThenSumSet(LAMBDA n : Weight[n], S)

\* Sample draws units of stake without replacement; a beacon whose units are
\* drawn twice is in the sample once.
Samples ==
  LET k == Min({SampleK, WeightOf(Beacon)})
  IN  {S \in SUBSET Beacon : Cardinality(S) <= k /\ k <= WeightOf(S)}

NewMinority(sample) == [pendingSend |-> sample, outstanding |-> {}, received |-> {}]

\* received holds, for each block somebody named, the stake that has it.
NewMajority ==
  [pendingSend |-> Beacon, outstanding |-> {}, received |-> [b \in {} |-> 0]]

Finished(poll) == poll.pendingSend = {} /\ poll.outstanding = {}

\* GetPeers pops as many beacons as may still be asked; which ones is up to
\* the order of a Go map.
NumToSend(poll) ==
  Min({MaxOutstanding - Cardinality(poll.outstanding), Cardinality(poll.pendingSend)})

Sent(poll) ==
  {[poll EXCEPT !.pendingSend = @ \ S, !.outstanding = @ \cup S] :
     S \in kSubset(NumToSend(poll), poll.pendingSend)}

RecordFrontier(poll, n, blks) ==
  [poll EXCEPT !.outstanding = @ \ {n}, !.received = @ \cup blks]

RecordAccepted(poll, n, blks) ==
  [poll EXCEPT
     !.outstanding = @ \ {n},
     !.received = [b \in blks \cup DOMAIN @ |->
                     (IF b \in DOMAIN @ THEN @[b] ELSE 0)
                     + (IF b \in blks THEN Weight[n] ELSE 0)]]

\* The code adds the weights up as signed numbers.
Int64(w) == IF w <= MaxInt64 THEN w ELSE w - 2 * (MaxInt64 + 1)

TotalWeight == MapThenSumSet(LAMBDA n : Int64(Weight[n]), Beacon)

\* Bug: half of the stake is enough.
RequiredHalf == TotalWeight \div 2

RequiredWeight == (TotalWeight \div 2) + 1

AcceptedBlocks(poll) ==
  {b \in DOMAIN poll.received : poll.received[b] >= RequiredWeight}

=============================================================================
