-------------------------------- MODULE Engine -------------------------------
(***************************************************************************)
(* The Snowman engine: how blocks and votes that arrive in any order get   *)
(* into consensus.  A block waits for its parent, a vote waits for the     *)
(* blocks it names, what is missing is requested from the peer, and what   *)
(* cannot be issued is abandoned together with everything that waits for   *)
(* it.                                                                     *)
(*                                                                         *)
(* Handlers run one at a time, under the lock of the chain, but they call  *)
(* each other through the job scheduler: delivering a block runs the jobs  *)
(* that waited for it, which apply votes, which decide blocks, all before  *)
(* the first call returns.  The calls in progress are an explicit stack;   *)
(* a step of the engine runs the topmost call up to the next call it       *)
(* makes.                                                                  *)
(*                                                                         *)
(* Consensus is the one Ledger specifies; which block a poll decides is    *)
(* any it allows.  The virtual machine may verify a block or not, each     *)
(* time anew, and may or may not still have a block that is neither        *)
(* processing nor accepted.                                                *)
(***************************************************************************)
EXTENDS BlockTree, SequencesExt

CONSTANTS
  Voter,              \* the answers that can be waiting at the same time
  Options,            \* Options[b]: the options of b, in order; <<>> if b is no oracle block
  ConcurrentRepolls,  \* Params.ConcurrentRepolls
  OptimalProcessing,  \* Params.OptimalProcessing
  MaxBuilds,          \* bound on the requests to build a block
  QueriesMayFail      \* whether a query may be dropped, for lack of connected stake

ASSUME EngineAssumption ==
  /\ Voter \cap AnyBlock = {}
  /\ Options \in [AnyBlock -> Seq(Block)]
  /\ \A b \in AnyBlock : \A i, j \in DOMAIN Options[b] :
       /\ Parent[Options[b][i]] = b
       /\ Options[b][i] = Options[b][j] => i = j
  /\ ConcurrentRepolls \in Nat \ {0}
  /\ OptimalProcessing \in Nat \ {0}
  /\ MaxBuilds \in Nat
  /\ QueriesMayFail \in BOOLEAN

VARIABLES
  last, accepted, rejected, processing,   \* consensus
  pending,             \* blocks queued until their parent is issued
  requested,           \* blkReqs: blocks asked for and not yet answered
  unverified,          \* unverifiedIDToAncestor: the blocks whose parent it knows
  cached,              \* unverifiedBlockCache
  dependents,          \* the jobs that wait for a block, in order; a block
                       \* stands for its issuer
  numUnresolved,       \* of each voter
  responseOptions,     \* of each voter
  polls,               \* polls.Len()
  pendingBuildBlocks,
  stack                \* the calls in progress, the innermost first

consensus == <<last, accepted, rejected, processing>>
ancestry == <<unverified, cached>>
voters == <<numUnresolved, responseOptions>>
vars == <<consensus, pending, requested, ancestry, dependents, voters, polls,
          pendingBuildBlocks, stack>>

Consensus == INSTANCE Ledger

-----------------------------------------------------------------------------
(* What the handlers ask of the state. *)

Idle == stack = <<>>

IsDecided(b) ==
  \/ Height[b] <= Height[last]
  \/ Height[b] - 1 = Height[last] /\ Parent[b] # last

ShouldIssueBlock(b) == ~IsDecided(b) /\ b \notin pending \cup processing

\* Bug: everything that is not issued is waited for.
DependsOnMissing(b) == b \notin processing

CanDependOn(b) == b \in pending \cup requested

\* Bug: a child is issued without looking at its parent.
IssuesAnywhere(b) == TRUE

CanIssueChildOn(b) == b \in processing \cup {last}

\* Bug: getBlock does not look among the pending blocks.
MissesPending(b) == b \notin cached \cup processing \cup accepted

\* Whether getBlock may fail: the virtual machine has the blocks it verified or
\* accepted, and may have any other.
MayMiss(b) == b \notin pending \cup cached \cup processing \cup accepted

Highest(S) == CHOOSE b \in S : \A c \in S : Height[c] <= Height[b]

\* The oldest known ancestor: the first one whose parent the tree does not know.
GetAncestor(b) == Highest(Ancestors[b] \ unverified)

\* Bug: the vote is bubbled through the cache alone, from which blocks are evicted.
BubbleThroughCache(b) ==
  {Highest({a \in Ancestors[b] :
              a \in processing \/ a \notin cached \/ IsDecided(a)})}
    \cap processing

\* The block to which a vote for b is bubbled, as a set with at most one
\* member.  The walk from the ancestor ends at a processing block, at one that
\* is not cached, or at one that is decided.
GetProcessingAncestor(b) ==
  {Highest({a \in Ancestors[GetAncestor(b)] :
              a \in processing \/ a \notin cached \/ IsDecided(a)})}
    \cap processing

\* Bug: only the children go.
Children(b) == {c \in unverified : Parent[c] = b}

\* What RemoveDescendants(b) removes from the tree.
Descendants(b) ==
  {c \in unverified :
     /\ b \in Ancestors[c]
     /\ \A a \in Ancestors[c] : Extends(a, b) => a \in unverified}

-----------------------------------------------------------------------------
(* Calls. *)

Call(op, b) == [op |-> op, blk |-> b]
repoll == [op |-> "repoll"]
frame == Head(stack)
Running(op) == ~Idle /\ frame.op = op

\* The topmost call goes on as the given calls, in this order.
GoOn(calls) == stack' = calls \o Tail(stack)
Return == GoOn(<<>>)

\* Bug: off by one, the last job is left out.
RunJobsButLast(jobs, fulfilled) ==
  IF Len(jobs) <= 1 THEN <<>>
  ELSE <<[op |-> "jobs", jobs |-> jobs, fulfilled |-> fulfilled]>>

\* The call that runs a list of jobs.
RunJobs(jobs, fulfilled) ==
  IF jobs = <<>> THEN <<>>
  ELSE <<[op |-> "jobs", jobs |-> jobs, fulfilled |-> fulfilled]>>

\* Scheduler.resolveDependency: the jobs that wait for b are run, and then the
\* given calls.
Resolve(b, fulfilled, calls) ==
  /\ dependents' = [dependents EXCEPT ![b] = <<>>]
  /\ GoOn(RunJobs(dependents[b], fulfilled) \o calls)

\* Bug: the jobs that waited for b are not run.
FulfillNothing(b, calls) == GoOn(calls) /\ UNCHANGED dependents

Fulfill(b, calls) == Resolve(b, TRUE, calls)
Abandon(b) == Resolve(b, FALSE, <<>>)

\* Scheduler.Schedule: the job waits for the given blocks.
Wait(job, blocks) ==
  dependents' = [b \in AnyBlock |->
    IF b \in blocks THEN Append(dependents[b], job) ELSE dependents[b]]

\* The least recently used blocks make room for b; one that is larger than the
\* cache empties it.  Sizes and the order of use are left open.
CachePut(b) == {{}} \cup {keep \cup {b} : keep \in SUBSET cached}

MarkAsUnverified(b) ==
  IF b \notin processing /\ Parent[b] \in unverified \cup processing
  THEN /\ unverified' = unverified \cup {b}
       /\ cached' \in CachePut(b)
  ELSE UNCHANGED ancestry

\* sendQuery, n times.
SendQueries(n) ==
  polls' \in {polls + n} \cup IF QueriesMayFail THEN {polls} ELSE {}

-----------------------------------------------------------------------------
(* The calls that issue a branch. *)

\* issue, called in the loops of issueFrom and issueWithAncestors: next is the
\* rest of the loop, which looks at the parent.
Issue(b, next) ==
  /\ pending' = pending \cup {b}
  /\ requested' = requested \ {b}
  /\ IF CanIssueChildOn(Parent[b])
     THEN /\ GoOn(<<Call("deliver", b), Call(next, Parent[b])>>)
          /\ UNCHANGED dependents
     ELSE /\ GoOn(<<Call(next, Parent[b])>>)
          /\ Wait(b, {Parent[b]})

\* One round of the loop of issueFrom, or what follows it.
IssueFrom ==
  /\ Running("issueFrom")
  /\ LET b == frame.blk IN
       \/ /\ ShouldIssueBlock(b)
          /\ Issue(b, "issueFromByID")
       \/ /\ ~ShouldIssueBlock(b)
          /\ requested' = requested \ {b}
          /\ IF b \in pending THEN Return /\ UNCHANGED dependents ELSE Abandon(b)
          /\ UNCHANGED pending
  /\ UNCHANGED <<consensus, ancestry, voters, polls, pendingBuildBlocks>>

\* At most one request for a block is outstanding.
SendRequest(b) == requested' = requested \cup {b}

\* issueFromByID, and the end of a round of issueFrom: a block that is not
\* available is requested from the peer.
IssueFromByID ==
  /\ Running("issueFromByID")
  /\ \/ GoOn(<<Call("issueFrom", frame.blk)>>) /\ UNCHANGED requested
     \/ /\ MayMiss(frame.blk)
        /\ SendRequest(frame.blk)
        /\ Return
  /\ UNCHANGED <<consensus, pending, ancestry, dependents, voters, polls,
                 pendingBuildBlocks>>

\* One round of the loop of issueWithAncestors, or what follows it, in which
\* nothing is requested.
IssueWithAncestors ==
  /\ Running("issueWithAncestors")
  /\ LET b == frame.blk IN
       \/ /\ ShouldIssueBlock(b)
          /\ Issue(b, "ancestorByID")
       \/ /\ ~ShouldIssueBlock(b)
          /\ IF b \in requested THEN Return /\ UNCHANGED dependents ELSE Abandon(b)
          /\ UNCHANGED <<pending, requested>>
  /\ UNCHANGED <<consensus, ancestry, voters, polls, pendingBuildBlocks>>

\* The end of a round of issueWithAncestors: getBlock of the parent.
AncestorByID ==
  /\ Running("ancestorByID")
  /\ LET b == frame.blk IN
       \/ GoOn(<<Call("issueWithAncestors", b)>>) /\ UNCHANGED dependents
       \/ /\ MayMiss(b)
          /\ IF b \in requested THEN Return /\ UNCHANGED dependents ELSE Abandon(b)
  /\ UNCHANGED <<consensus, pending, requested, ancestry, voters, polls,
                 pendingBuildBlocks>>

-----------------------------------------------------------------------------
(* The calls that put a block into consensus. *)

\* addUnverifiedBlockToConsensus, when the block is verified.
AddVerified(b) ==
  /\ processing' = processing \cup {b}
  /\ unverified' = unverified \ {b}
  /\ cached' = cached \ {b}

\* Bug: an option that failed verification is no longer requested, but what waits
\* for it is not abandoned.
WithdrawDropped(added, dropped) ==
  [i \in DOMAIN added |-> [op |-> "option", blk |-> added[i], fulfilled |-> TRUE]]
  \o [i \in DOMAIN dropped |-> Call("deleteRequest", dropped[i])]

\* The calls that resolve the options of a block: those added, then those dropped.
ResolveOptions(added, dropped) ==
  [i \in DOMAIN added |-> [op |-> "option", blk |-> added[i], fulfilled |-> TRUE]]
  \o [i \in DOMAIN dropped |-> [op |-> "option", blk |-> dropped[i], fulfilled |-> FALSE]]

\* deliver, up to the options of an oracle block.
Deliver ==
  /\ Running("deliver")
  /\ LET b == frame.blk IN
       /\ pending' = pending \ {b}
       /\ \/ /\ ~CanIssueChildOn(Parent[b]) \/ b \in processing
             /\ Abandon(b)
             /\ UNCHANGED <<processing, ancestry>>
          \/ /\ CanIssueChildOn(Parent[b]) /\ b \notin processing
             /\ \/ /\ MarkAsUnverified(b)
                   /\ Abandon(b)
                   /\ UNCHANGED processing
                \/ /\ AddVerified(b)
                   /\ GoOn(<<[op |-> "options", blk |-> b, todo |-> Options[b],
                              added |-> <<>>, dropped |-> <<>>]>>)
                   /\ UNCHANGED dependents
  /\ UNCHANGED <<last, accepted, rejected, requested, voters, polls, pendingBuildBlocks>>

\* deliver: one option of an oracle block is verified and added, or not.
AddOption ==
  /\ Running("options") /\ frame.todo # <<>>
  /\ LET o == Head(frame.todo)
         call == [frame EXCEPT !.todo = Tail(@)]
     IN  \/ /\ AddVerified(o)
            /\ GoOn(<<[call EXCEPT !.added = Append(@, o)]>>)
         \/ /\ MarkAsUnverified(o)
            /\ GoOn(<<[call EXCEPT !.dropped = Append(@, o)]>>)
            /\ UNCHANGED processing
  /\ UNCHANGED <<last, accepted, rejected, pending, requested, dependents, voters,
                 polls, pendingBuildBlocks>>

\* Bug: deliver does not poll again.
RestWithoutRepoll(added, dropped) == ResolveOptions(added, dropped)

\* What deliver does after it ran the jobs of the block.
RestOfDeliver(added, dropped) == Append(ResolveOptions(added, dropped), repoll)

\* deliver: a query if the block is preferred now, the jobs that waited for it,
\* then its options, and at last repoll.
Delivered ==
  /\ Running("options") /\ frame.todo = <<>>
  /\ SendQueries(1) \/ UNCHANGED polls
  /\ Fulfill(frame.blk, RestOfDeliver(frame.added, frame.dropped))
  /\ UNCHANGED <<consensus, pending, requested, ancestry, voters, pendingBuildBlocks>>

\* deliver: the jobs that waited for an option, after a query if it is preferred.
ResolveOption ==
  /\ Running("option")
  /\ pending' = pending \ {frame.blk}
  /\ (frame.fulfilled /\ SendQueries(1)) \/ UNCHANGED polls
  /\ Resolve(frame.blk, frame.fulfilled, <<Call("deleteRequest", frame.blk)>>)
  /\ UNCHANGED <<consensus, requested, ancestry, voters, pendingBuildBlocks>>

\* deliver: the request for an option is withdrawn.
DeleteRequest ==
  /\ Running("deleteRequest")
  /\ requested' = requested \ {frame.blk}
  /\ Return
  /\ UNCHANGED <<consensus, pending, ancestry, dependents, voters, polls,
                 pendingBuildBlocks>>

\* repoll, which deliver and the voter call if blocks are processing.
Repoll ==
  /\ Running("repoll")
  /\ IF processing # {} /\ polls < ConcurrentRepolls
     THEN SendQueries(ConcurrentRepolls - polls)
     ELSE UNCHANGED polls
  /\ Return
  /\ UNCHANGED <<consensus, pending, requested, ancestry, dependents, voters,
                 pendingBuildBlocks>>

-----------------------------------------------------------------------------
(* The jobs. *)

\* resolveDependency: the next job of the list learns that the block was
\* fulfilled or abandoned.  An issuer waits for one block, its parent; a voter
\* is executed when the last of its blocks is resolved.
RunJob ==
  /\ Running("jobs")
  /\ LET job == Head(frame.jobs)
         later == RunJobs(Tail(frame.jobs), frame.fulfilled)
     IN  \/ /\ job \in Block /\ frame.fulfilled
            /\ GoOn(<<Call("deliver", job)>> \o later)
            /\ UNCHANGED numUnresolved
         \/ /\ job \in Block /\ ~frame.fulfilled
            /\ GoOn(<<Call("abandoned", job)>> \o later)
            /\ UNCHANGED numUnresolved
         \/ /\ job \in Voter
            /\ numUnresolved' = [numUnresolved EXCEPT ![job] = @ - 1]
            /\ GoOn(IF numUnresolved[job] > 1 THEN later
                    ELSE <<[op |-> "voter", voter |-> job]>> \o later)
  /\ UNCHANGED <<consensus, pending, requested, ancestry, dependents, responseOptions,
                 polls, pendingBuildBlocks>>

\* issuer.Execute when the parent was abandoned.
AbandonIssuer ==
  /\ Running("abandoned")
  /\ pending' = pending \ {frame.blk}
  /\ MarkAsUnverified(frame.blk)
  /\ Abandon(frame.blk)
  /\ UNCHANGED <<consensus, requested, voters, polls, pendingBuildBlocks>>

\* voter.Execute: the vote is for the first option that can be bubbled to a
\* processing block.
ExecuteVoter ==
  /\ Running("voter")
  /\ LET options == responseOptions[frame.voter]
         usable == SelectSeq(options, LAMBDA b : GetProcessingAncestor(b) # {})
     IN  GoOn(<<[op |-> "vote", options |-> options,
                 vote |-> IF usable = <<>> THEN {} ELSE GetProcessingAncestor(Head(usable))]>>)
  /\ responseOptions' = [responseOptions EXCEPT ![frame.voter] = <<>>]
  /\ UNCHANGED <<consensus, pending, requested, ancestry, dependents, numUnresolved,
                 polls, pendingBuildBlocks>>

\* memoryBlock.Accept and Reject, on the blocks that a decision accepts and rejects.
Forget(d) ==
  LET removed == {Parent[b] : b \in Consensus!AcceptedWith(d) \ accepted}
                   \cup Consensus!RejectedBy(d)
  IN  unverified' = unverified \ (removed \cup UNION {Descendants(b) : b \in removed})

\* voter.Execute: the vote goes to its poll, or is dropped, which may finish this
\* poll and later ones.  What they decide together is one decision of the ledger.
ApplyVote ==
  /\ Running("vote")
  /\ \/ /\ Return
        /\ UNCHANGED <<consensus, unverified, polls>>
     \/ \E finished \in 1..polls :
          /\ polls' = polls - finished
          /\ GoOn(<<repoll>>)
          /\ \/ \E d \in processing : Consensus!Decide(d) /\ Forget(d)
             \/ UNCHANGED <<consensus, unverified>>
  /\ UNCHANGED <<pending, requested, cached, dependents, voters, pendingBuildBlocks>>

\* Chits, after its blocks are issued or requested: the voter waits for those
\* that it can depend on.
ScheduleVoter ==
  /\ Running("schedule")
  /\ LET v == frame.voter
         deps == SelectSeq(responseOptions[v], CanDependOn)
     IN  /\ numUnresolved' = [numUnresolved EXCEPT ![v] = Len(deps)]
         /\ Wait(v, ToSet(deps))
         /\ GoOn(IF deps = <<>> THEN <<[op |-> "voter", voter |-> v]>> ELSE <<>>)
  /\ UNCHANGED <<consensus, pending, requested, ancestry, responseOptions, polls,
                 pendingBuildBlocks>>

ShouldBuild == pendingBuildBlocks > 0 /\ Cardinality(processing) < OptimalProcessing

\* Bug: what was built is not counted.
BuildAgain ==
  /\ Running("buildBlocks") /\ ShouldBuild
  /\ \/ Return
     \/ \E b \in Block :
          /\ CanIssueChildOn(Parent[b])
          /\ GoOn(<<Call("issueWithAncestors", b), frame>>)
  /\ UNCHANGED <<consensus, pending, requested, ancestry, dependents, voters, polls,
                 pendingBuildBlocks>>

\* One round of buildBlocks.  The virtual machine builds on an issued block, or
\* fails, which ends the loop.
BuildBlock ==
  /\ Running("buildBlocks") /\ ShouldBuild
  /\ pendingBuildBlocks' = pendingBuildBlocks - 1
  /\ \/ Return
     \/ \E b \in Block :
          /\ CanIssueChildOn(Parent[b])
          /\ GoOn(<<Call("issueWithAncestors", b), frame>>)
  /\ UNCHANGED <<consensus, pending, requested, ancestry, dependents, voters, polls>>

\* The end of buildBlocks, and of the handler.
StopBuilding ==
  /\ Running("buildBlocks") /\ ~ShouldBuild
  /\ Return
  /\ UNCHANGED <<consensus, pending, requested, ancestry, dependents, voters, polls,
                 pendingBuildBlocks>>

Step ==
  \/ IssueFrom \/ IssueFromByID \/ IssueWithAncestors \/ AncestorByID
  \/ Deliver \/ AddOption \/ Delivered \/ ResolveOption \/ DeleteRequest \/ Repoll
  \/ RunJob \/ AbandonIssuer \/ ExecuteVoter \/ ApplyVote \/ ScheduleVoter
  \/ BuildBlock \/ StopBuilding

-----------------------------------------------------------------------------
(* The handlers, which the chain calls one after the other. *)

\* executeDeferredWork, the last call of a handler.
deferredWork == [op |-> "buildBlocks"]

Handle(calls) == Idle /\ stack' = Append(calls, deferredWork)

\* Put and PushQuery: a peer sends b, asked for or not.
Put(b) ==
  /\ Handle(<<Call("issueFrom", b)>>)
  /\ UNCHANGED <<consensus, pending, requested, ancestry, dependents, voters, polls,
                 pendingBuildBlocks>>

\* PullQuery: a peer asks for a vote and names b.
PullQuery(b) ==
  /\ Handle(<<Call("issueFromByID", b)>>)
  /\ UNCHANGED <<consensus, pending, requested, ancestry, dependents, voters, polls,
                 pendingBuildBlocks>>

\* GetFailed: the request for b failed, timed out, or was answered with another
\* block.  An answer to a request that is no longer outstanding changes nothing.
GetFailed(b) ==
  /\ Idle
  /\ b \in requested
  /\ requested' = requested \ {b}
  /\ dependents' = [dependents EXCEPT ![b] = <<>>]
  /\ stack' = Append(RunJobs(dependents[b], FALSE), deferredWork)
  /\ UNCHANGED <<consensus, pending, ancestry, voters, polls, pendingBuildBlocks>>

\* Chits: the answer of voter v prefers p, and h at the requested height.
\* QueryFailed of a peer whose last accepted block is known is Chits with it.
Chits(v, p, h) ==
  /\ responseOptions[v] = <<>>
  /\ responseOptions' = [responseOptions EXCEPT ![v] = IF p = h THEN <<p>> ELSE <<p, h>>]
  /\ Handle((IF p = h THEN <<Call("issueFromByID", p)>>
             ELSE <<Call("issueFromByID", p), Call("issueFromByID", h)>>)
            \o <<[op |-> "schedule", voter |-> v]>>)
  /\ UNCHANGED <<consensus, pending, requested, ancestry, dependents, numUnresolved,
                 polls, pendingBuildBlocks>>

\* QueryFailed of a peer of which nothing is known.
QueryFailed(v) ==
  /\ responseOptions[v] = <<>>
  /\ Handle(<<[op |-> "schedule", voter |-> v]>>)
  /\ UNCHANGED <<consensus, pending, requested, ancestry, dependents, voters, polls,
                 pendingBuildBlocks>>

\* Notify: the virtual machine has transactions for a block.
Notify ==
  /\ pendingBuildBlocks < MaxBuilds
  /\ pendingBuildBlocks' = pendingBuildBlocks + 1
  /\ Handle(<<>>)
  /\ UNCHANGED <<consensus, pending, requested, ancestry, dependents, voters, polls>>

\* Gossip, which polls again in case the last query was dropped.
Gossip ==
  /\ Idle /\ processing # {}
  /\ stack' = <<repoll>>
  /\ UNCHANGED <<consensus, pending, requested, ancestry, dependents, voters, polls,
                 pendingBuildBlocks>>

Handler ==
  \/ \E b \in AnyBlock : Put(b) \/ PullQuery(b) \/ GetFailed(b)
  \/ \E v \in Voter : QueryFailed(v) \/ \E p, h \in AnyBlock : Chits(v, p, h)
  \/ Notify
  \/ Gossip

\* Start: the options of an oracle block that was accepted last are delivered.
Init ==
  /\ Consensus!Init
  /\ pending = {} /\ requested = {} /\ unverified = {} /\ cached = {}
  /\ dependents = [b \in AnyBlock |-> <<>>]
  /\ numUnresolved = [v \in Voter |-> 0]
  /\ responseOptions = [v \in Voter |-> <<>>]
  /\ polls = 0
  /\ pendingBuildBlocks = 0
  /\ stack = Append([i \in DOMAIN Options[Genesis] |-> Call("deliver", Options[Genesis][i])],
                    deferredWork)

Next == Step \/ Handler

Spec == Init /\ [][Next]_vars

-----------------------------------------------------------------------------

\* canDependOn, "guaranteed to eventually either be fulfilled or abandoned":
\* between handlers, jobs wait only for blocks that are pending or requested.
DependenciesAreLive ==
  Idle => \A b \in AnyBlock : dependents[b] # <<>> => b \in pending \cup requested

\* The scheduler and the engine agree on who waits: a pending block has one
\* issuer, which waits for its parent, and a voter waits for as many blocks as
\* its numUnresolved says.  A job that both forget would never be run.
NoJobIsLost ==
  Idle =>
    /\ \A b \in Block : Len(SelectSeq(dependents[Parent[b]], LAMBDA j : j = b))
                          = IF b \in pending THEN 1 ELSE 0
    /\ \A v \in Voter : numUnresolved[v] = Cardinality({b \in AnyBlock : v \in ToSet(dependents[b])})

\* Between handlers no block is left pending whose parent is in consensus: the
\* jobs of a block are run when it is delivered, or it is an option delivered
\* with its parent.
NoIssuableIsPending ==
  Idle => \A b \in pending : Parent[b] \notin processing \cup {last}

\* Between handlers no block is on request that the engine has queued or issued.
RequestsAreMissing == Idle => requested \cap (pending \cup processing) = {}

\* The blocks that failed verification, or whose parent did, lead to a block that
\* is processing or was accepted last: when blocks are decided, the tree forgets
\* exactly those that were decided with them.
UnverifiedIsRooted ==
  \A b \in unverified :
    /\ b \notin processing
    /\ GetAncestor(b) \in processing \cup {last}

\* getProcessingAncestor, "[initialVote]'s most recent ancestor that is processing":
\* a vote is applied to the nearest processing ancestor of the first option that
\* has one the engine can find, and one is found for any block that is
\* processing or is known not to be verified.
VotesGoToNearest ==
  Running("vote") =>
    LET Nearest(b) == {a \in Ancestors[b] \cap processing :
                         \A c \in Ancestors[b] \cap processing : Height[c] <= Height[a]}
        Known(b) == b \in unverified \cup processing /\ Nearest(b) # {}
    IN  /\ frame.vote # {} => \E i \in DOMAIN frame.options : frame.vote = Nearest(frame.options[i])
        /\ \A i \in DOMAIN frame.options :
             Known(frame.options[i])
               => \E j \in 1..i : frame.vote = Nearest(frame.options[j]) /\ frame.vote # {}

\* Between handlers there are polls while there are blocks to decide, however the
\* calls were nested, if no query was dropped.
PollsWhileProcessing ==
  Idle /\ ~QueriesMayFail /\ processing # {} => polls >= ConcurrentRepolls

\* The comment in getProcessingAncestor: "If [bubbledVote] != [initialVote], it is
\* guaranteed that [bubbledVote] is in processing."
BubbledVoteIsProcessing ==
  Running("voter") =>
    \A i \in DOMAIN responseOptions[frame.voter] :
      LET initialVote == responseOptions[frame.voter][i]
          bubbledVote == GetAncestor(initialVote)
      IN  bubbledVote # initialVote => bubbledVote \in processing

\* The engine uses consensus as it must: a block is issued once, after its
\* parent, and before it is decided.
ImplementsLedger == Consensus!Spec

\* A call that has begun goes on, and a request is answered or fails in the end
\* (the router reports a timeout): between handlers, again and again, a given
\* block is not on request.  A step is always possible while a call is in
\* progress.
Fairness ==
  /\ []<>Idle \/ []<><<Step>>_vars
  /\ \A b \in AnyBlock : []<>(b \notin requested)

FairSpec == Spec /\ Fairness

\* Handlers return: the calls that jobs make of each other end.
HandlersReturn == ~Idle ~> Idle

\* Every vote is applied or dropped in the end.
VotersExecute == \A v \in Voter : numUnresolved[v] > 0 ~> numUnresolved[v] = 0

=============================================================================
