------------------------- MODULE TopologicalLiveness -------------------------
(***************************************************************************)
(* Snowman decides.  At first polls return anything; from some point on    *)
(* (calm) every poll returns K votes for the block this node prefers, as   *)
(* it does once enough of the network prefers it too.  Nothing makes the   *)
(* first phase end, so that the trees, marks and caches the calm phase     *)
(* starts from are arbitrary.                                              *)
(***************************************************************************)
EXTENDS Topological

VARIABLES
  calm,
  tick   \* flips with every poll of the calm phase

liveVars == <<vars, calm, tick>>

LiveInit == Init /\ calm = FALSE /\ tick = FALSE

NumProcessing == Cardinality(DOMAIN blocks) - 1

\* The engine polls again and again while blocks are processing.
Polling == calm /\ NumProcessing > 0

UnanimousPoll ==
  /\ Polling
  /\ RecordPoll([b \in AnyBlock |-> IF b = preference THEN K ELSE 0])
  /\ tick' = ~tick
  /\ UNCHANGED calm

ArbitraryPoll ==
  /\ ~calm
  /\ \E votes \in AllVotes : RecordPoll(votes)
  /\ UNCHANGED <<calm, tick>>

IssueBlock == (\E b \in Block : Add(b)) /\ UNCHANGED <<calm, tick>>

CalmDown == ~calm /\ calm' = TRUE /\ UNCHANGED <<vars, tick>>

LiveNext == IssueBlock \/ ArbitraryPoll \/ UnanimousPoll \/ CalmDown

\* Weak fairness of UnanimousPoll, which is enabled exactly when Polling holds
\* and is the only step that flips tick.
PollsGoOn == []<>~Polling \/ []<><<tick' # tick>>_tick

LiveSpec == LiveInit /\ [][LiveNext]_liveVars /\ PollsGoOn

\* Once polls agree with this node, every processing block is decided, from
\* whatever state of trees, pending falters and cached preference the polls
\* before have left: the cached preference names a branch whose every tree
\* counts the poll.
EverythingIsDecided == calm ~> NumProcessing = 0

=============================================================================
