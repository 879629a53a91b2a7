---------------------------- MODULE EngineProofs -----------------------------
(***************************************************************************)
(* The engine uses consensus as the ledger allows, for every tree of       *)
(* blocks, every set of oracle blocks and any number of waiting votes.     *)
(***************************************************************************)
EXTENDS Engine, TLAPS

LP == INSTANCE LedgerProofs

\* Leaves are for the SMT solver, with more time than the default, unless they
\* name another prover.
USE SMTT(30)

\* No call of the list is about to add the options of a block.
Plain(calls) == \A i \in DOMAIN calls : calls[i].op # "options"

\* The options of an oracle block are added by the innermost call, right after
\* the block itself, and those still to come are not in consensus.
OptionsAreNew ==
  /\ \A i \in DOMAIN stack : i # 1 => stack[i].op # "options"
  /\ Running("options") =>
       /\ frame.blk \in processing
       /\ \A i, j \in DOMAIN frame.todo :
            /\ Parent[frame.todo[i]] = frame.blk
            /\ frame.todo[i] \notin processing
            /\ frame.todo[i] = frame.todo[j] => i = j

\* The calls, and the block, jobs or voter that each of them has at hand.
Frame ==
  [op : {"issueFrom", "issueFromByID", "issueWithAncestors", "ancestorByID"}, blk : AnyBlock]
  \cup [op : {"deliver", "abandoned", "deleteRequest"}, blk : Block]
  \cup [op : {"options"}, blk : Block, todo : Seq(Block), added : Seq(Block), dropped : Seq(Block)]
  \cup [op : {"option"}, blk : Block, fulfilled : BOOLEAN]
  \cup [op : {"jobs"}, jobs : Seq(Block \cup Voter) \ {<<>>}, fulfilled : BOOLEAN]
  \cup [op : {"voter", "schedule"}, voter : Voter]
  \cup [op : {"vote"}, options : Seq(AnyBlock), vote : SUBSET Block]
  \cup [op : {"repoll", "buildBlocks"}]

\* What the variables that hold jobs and calls are.
Shapes ==
  /\ dependents \in [AnyBlock -> Seq(Block \cup Voter)]
  /\ responseOptions \in [Voter -> Seq(AnyBlock)]
  /\ stack \in Seq(Frame)

IInv == LP!IInv /\ Shapes /\ OptionsAreNew

-----------------------------------------------------------------------------

LEMMA GoOnShape ==
  ASSUME Shapes, OptionsAreNew, ~Idle, NEW calls \in Seq(Frame)
  PROVE  /\ calls \o Tail(stack) \in Seq(Frame)
         /\ Plain(Tail(stack))
         /\ Plain(calls) => Plain(calls \o Tail(stack))
         /\ calls # <<>> => (calls \o Tail(stack))[1] = calls[1]
<1>1. stack \in Seq(Frame) /\ stack # <<>>
  BY DEF Shapes, Idle
<1>2. Tail(stack) \in Seq(Frame) /\ Plain(Tail(stack))
  BY <1>1 DEF OptionsAreNew, Plain
<1>3. calls \o Tail(stack) \in Seq(Frame)
  BY <1>2
<1>4. ASSUME Plain(calls) PROVE Plain(calls \o Tail(stack))
  BY <1>2, <1>4 DEF Plain
<1>5. calls # <<>> => (calls \o Tail(stack))[1] = calls[1]
  BY <1>2
<1>6. QED
  BY <1>2, <1>3, <1>4, <1>5

\* What LedgerProofs shows of blocks and of the ledger, for the consensus of the
\* engine.
LEMMA Lower ==
  ASSUME NEW b \in AnyBlock
  PROVE  /\ b \in Ancestors[b] /\ Genesis \in Ancestors[b]
         /\ \A a \in Ancestors[b] : a = b \/ Height[a] < Height[b]
BY LP!AncestorsAreLower, BlocksFormATree DEF AnyBlock, LP!AnyBlock

LEMMA OneStep ==
  ASSUME NEW b \in Block
  PROVE  /\ b \in AnyBlock /\ Parent[b] \in AnyBlock /\ b # Genesis
         /\ Height[b] = Height[Parent[b]] + 1
         /\ Height[b] \in Nat /\ Height[Parent[b]] \in Nat
         /\ Ancestors[b] = {b} \cup Ancestors[Parent[b]]
BY BlocksFormATree DEF BlocksFormATree, AnyBlock

LEMMA LedgerFacts ==
  ASSUME LP!IInv
  PROVE  /\ last \in AnyBlock /\ processing \subseteq Block /\ rejected \subseteq Block
         /\ accepted = Ancestors[last]
         /\ \A b \in processing : last \in Ancestors[b]
                                 /\ Ancestors[b] \subseteq accepted \cup processing
         /\ \A b \in rejected : last \notin Ancestors[b]
BY DEF LP!IInv, LP!TypeOK, LP!AcceptedIsChain, LP!ProcessingExtendsLast,
       LP!RejectedConflicts, LP!Extends, LP!Conflict, AnyBlock, LP!AnyBlock

LEMMA LedgerStep == LP!IInv /\ [Consensus!Next]_consensus => LP!IInv'
<1>1. [Consensus!Next]_consensus => [LP!Next]_(LP!ledgerVars)
  BY DEF Consensus!Next, LP!Next, Consensus!Issue, LP!Issue, Consensus!Decide, LP!Decide,
         Consensus!AcceptedWith, LP!AcceptedWith, Consensus!RejectedBy, LP!RejectedBy,
         Consensus!Remaining, LP!Remaining, Consensus!Conflict, LP!Conflict,
         Consensus!Extends, LP!Extends, consensus, LP!ledgerVars
<1>2. QED
  BY <1>1, LP!NextIInv, BlocksFormATree DEF AnyBlock, LP!AnyBlock

\* A block on an issued parent that is not processing was never issued.
LEMMA Fresh ==
  ASSUME LP!IInv, NEW b \in Block, b \notin processing, CanIssueChildOn(Parent[b])
  PROVE  b \notin accepted \cup rejected
<1>1. last \in Ancestors[Parent[b]]
  BY LedgerFacts, Lower DEF CanIssueChildOn
<1>2. last \in Ancestors[b] /\ Height[last] < Height[b]
  BY <1>1, LedgerFacts, Lower, OneStep, BlocksFormATree DEF BlocksFormATree
<1>3. b \notin Ancestors[last]
  BY <1>2, LedgerFacts, Lower, OneStep, BlocksFormATree DEF BlocksFormATree
<1>4. QED
  BY <1>2, <1>3, LedgerFacts

-----------------------------------------------------------------------------
(* What the calls have at hand. *)

LEMMA TopFrame ==
  ASSUME Shapes, ~Idle
  PROVE  frame \in Frame
BY DEF Shapes, Idle, frame

LEMMA Fields ==
  ASSUME NEW f \in Frame
  PROVE  /\ f.op \in {"issueFrom", "issueFromByID", "issueWithAncestors", "ancestorByID"}
              => f.blk \in AnyBlock
         /\ f.op \in {"deliver", "abandoned", "deleteRequest"} => f.blk \in Block
         /\ f.op = "options" =>
              /\ f \in [op : {"options"}, blk : Block, todo : Seq(Block),
                        added : Seq(Block), dropped : Seq(Block)]
              /\ f.blk \in Block /\ f.todo \in Seq(Block)
              /\ f.added \in Seq(Block) /\ f.dropped \in Seq(Block)
         /\ f.op = "option" => f.blk \in Block /\ f.fulfilled \in BOOLEAN
         /\ f.op = "jobs" => /\ f.jobs \in Seq(Block \cup Voter) /\ f.jobs # <<>>
                             /\ f.fulfilled \in BOOLEAN
         /\ f.op \in {"voter", "schedule"} => f.voter \in Voter
BY DEF Frame

\* The calls the engine makes, as members of Frame.
LEMMA Calls ==
  /\ \A b \in AnyBlock : \A op \in {"issueFrom", "issueFromByID", "issueWithAncestors",
                                    "ancestorByID"} : Call(op, b) \in Frame
  /\ \A b \in Block : \A op \in {"deliver", "abandoned", "deleteRequest"} : Call(op, b) \in Frame
  /\ \A b \in Block : \A ok \in BOOLEAN : [op |-> "option", blk |-> b, fulfilled |-> ok] \in Frame
  /\ \A v \in Voter : \A op \in {"voter", "schedule"} : [op |-> op, voter |-> v] \in Frame
  /\ repoll \in Frame /\ deferredWork \in Frame
BY DEF Frame, Call, repoll, deferredWork

LEMMA OneCall ==
  ASSUME NEW op, NEW b, Call(op, b) \in Frame, op # "options"
  PROVE  <<Call(op, b)>> \in Seq(Frame) /\ Plain(<<Call(op, b)>>)
<1>1. Call(op, b).op # "options"
  BY DEF Call
<1>2. QED
  BY <1>1 DEF Plain

LEMMA JobsShape ==
  ASSUME NEW jobs \in Seq(Block \cup Voter), NEW fulfilled \in BOOLEAN
  PROVE  RunJobs(jobs, fulfilled) \in Seq(Frame) /\ Plain(RunJobs(jobs, fulfilled))
<1>1. CASE jobs = <<>>
  BY <1>1 DEF RunJobs, Plain
<1>2. CASE jobs # <<>>
  <2>1. [op |-> "jobs", jobs |-> jobs, fulfilled |-> fulfilled] \in Frame
    BY <1>2 DEF Frame
  <2>2. QED
    BY <1>2, <2>1 DEF RunJobs, Plain
<1>3. QED
  BY <1>1, <1>2

\* Running the jobs of a block, and then other calls that add no options.
LEMMA ResolveShape ==
  ASSUME Shapes, OptionsAreNew, ~Idle, NEW b \in AnyBlock, NEW ok \in BOOLEAN,
         NEW calls \in Seq(Frame), Plain(calls), Resolve(b, ok, calls)
  PROVE  /\ stack' \in Seq(Frame) /\ Plain(stack')
         /\ dependents' \in [AnyBlock -> Seq(Block \cup Voter)]
<1>1. dependents[b] \in Seq(Block \cup Voter)
  BY DEF Shapes
<1>2. /\ RunJobs(dependents[b], ok) \in Seq(Frame)
      /\ Plain(RunJobs(dependents[b], ok))
  BY ZenonT(40), <1>1, JobsShape
<1>3. /\ RunJobs(dependents[b], ok) \o calls \in Seq(Frame)
      /\ Plain(RunJobs(dependents[b], ok) \o calls)
  BY <1>2 DEF Plain
<1>4. stack' \in Seq(Frame) /\ Plain(stack')
  BY ZenonT(40), <1>3, GoOnShape DEF Resolve, GoOn
<1>5. QED
  BY <1>4 DEF Resolve, Shapes

LEMMA AbandonShape ==
  ASSUME Shapes, OptionsAreNew, ~Idle, NEW b \in AnyBlock, Abandon(b)
  PROVE  /\ stack' \in Seq(Frame) /\ Plain(stack')
         /\ dependents' \in [AnyBlock -> Seq(Block \cup Voter)]
<1>1. <<>> \in Seq(Frame) /\ Plain(<<>>)
  BY DEF Plain
<1>2. QED
  BY ZenonT(40), <1>1, ResolveShape DEF Abandon

\* A call that goes on with calls that add no options.
LEMMA PlainGoOn ==
  ASSUME Shapes, OptionsAreNew, ~Idle, NEW calls \in Seq(Frame), Plain(calls), GoOn(calls)
  PROVE  stack' \in Seq(Frame) /\ Plain(stack')
BY GoOnShape DEF GoOn

LEMMA ReturnShape ==
  ASSUME Shapes, OptionsAreNew, ~Idle, Return
  PROVE  stack' \in Seq(Frame) /\ Plain(stack')
<1>1. <<>> \in Seq(Frame) /\ Plain(<<>>)
  BY DEF Plain
<1>2. QED
  BY ZenonT(40), <1>1, PlainGoOn DEF Return

LEMMA PlainIsNew ==
  stack' \in Seq(Frame) /\ Plain(stack') => OptionsAreNew'
BY DEF Plain, OptionsAreNew, Running, frame, Idle

-----------------------------------------------------------------------------
(* One lemma for each group of calls: what a step does to consensus and to *)
(* the calls in progress.                                                  *)

\* The state after a step of a call that adds no options.
PlainAfter ==
  /\ dependents' \in [AnyBlock -> Seq(Block \cup Voter)]
  /\ responseOptions' \in [Voter -> Seq(AnyBlock)]
  /\ stack' \in Seq(Frame)
  /\ Plain(stack')

LEMMA WaitShape ==
  ASSUME Shapes, NEW job \in Block \cup Voter, NEW blocks, Wait(job, blocks)
  PROVE  dependents' \in [AnyBlock -> Seq(Block \cup Voter)]
BY DEF Shapes, Wait

\* Only a block that can have a parent is issued.
LEMMA IssuedIsBlock ==
  ASSUME LP!IInv, NEW b \in AnyBlock, ShouldIssueBlock(b)
  PROVE  b \in Block
<1>1. Height[Genesis] <= Height[last]
  BY LedgerFacts, Lower, BlocksFormATree DEF BlocksFormATree, AnyBlock
<1>2. QED
  BY <1>1 DEF ShouldIssueBlock, IsDecided, AnyBlock

LEMMA IssueShape ==
  ASSUME IInv, ~Idle, NEW b \in Block,
         NEW next \in {"issueFromByID", "ancestorByID"}, Issue(b, next)
  PROVE  /\ dependents' \in [AnyBlock -> Seq(Block \cup Voter)]
         /\ stack' \in Seq(Frame) /\ Plain(stack')
<1>1. Call("deliver", b) \in Frame /\ Call(next, Parent[b]) \in Frame
  BY Calls, OneStep
<1>2. /\ <<Call("deliver", b), Call(next, Parent[b])>> \in Seq(Frame)
      /\ Plain(<<Call("deliver", b), Call(next, Parent[b])>>)
      /\ <<Call(next, Parent[b])>> \in Seq(Frame)
      /\ Plain(<<Call(next, Parent[b])>>)
  BY <1>1 DEF Plain, Call
<1>3. stack' \in Seq(Frame) /\ Plain(stack')
  BY ZenonT(40), <1>2, PlainGoOn DEF Issue, IInv
<1>4. dependents' \in [AnyBlock -> Seq(Block \cup Voter)]
  BY WaitShape DEF Issue, IInv, Shapes
<1>5. QED
  BY <1>3, <1>4

LEMMA IssueFromShape == IInv /\ IssueFrom => PlainAfter /\ UNCHANGED consensus
<1> SUFFICES ASSUME IInv, IssueFrom PROVE PlainAfter /\ UNCHANGED consensus
  OBVIOUS
<1> DEFINE b == frame.blk
<1>1. ~Idle /\ b \in AnyBlock
  BY TopFrame, Fields DEF IssueFrom, Running, IInv
<1>2. responseOptions' \in [Voter -> Seq(AnyBlock)] /\ UNCHANGED consensus
  BY DEF IssueFrom, IInv, Shapes, voters
<1>3. ASSUME ShouldIssueBlock(b), Issue(b, "issueFromByID") PROVE PlainAfter
  BY <1>1, <1>2, <1>3, IssuedIsBlock, IssueShape DEF PlainAfter, IInv
<1>4. ASSUME Return, UNCHANGED dependents PROVE PlainAfter
  BY <1>1, <1>2, <1>4, ReturnShape DEF PlainAfter, IInv, Shapes
<1>5. ASSUME Abandon(b) PROVE PlainAfter
  BY <1>1, <1>2, <1>5, AbandonShape DEF PlainAfter, IInv
<1>6. QED
  BY <1>2, <1>3, <1>4, <1>5 DEF IssueFrom

LEMMA IssueFromByIDShape == IInv /\ IssueFromByID => PlainAfter /\ UNCHANGED consensus
<1> SUFFICES ASSUME IInv, IssueFromByID PROVE PlainAfter /\ UNCHANGED consensus
  OBVIOUS
<1>1. ~Idle /\ frame.blk \in AnyBlock
  BY TopFrame, Fields DEF IssueFromByID, Running, IInv
<1>2. <<Call("issueFrom", frame.blk)>> \in Seq(Frame) /\ Plain(<<Call("issueFrom", frame.blk)>>)
  BY <1>1, Calls, OneCall
<1>3. stack' \in Seq(Frame) /\ Plain(stack')
  BY ZenonT(40), <1>1, <1>2, PlainGoOn, ReturnShape DEF IssueFromByID, IInv
<1>4. QED
  BY <1>3 DEF IssueFromByID, PlainAfter, IInv, Shapes, voters

LEMMA IssueWithAncestorsShape == IInv /\ IssueWithAncestors => PlainAfter /\ UNCHANGED consensus
<1> SUFFICES ASSUME IInv, IssueWithAncestors PROVE PlainAfter /\ UNCHANGED consensus
  OBVIOUS
<1> DEFINE b == frame.blk
<1>1. ~Idle /\ b \in AnyBlock
  BY TopFrame, Fields DEF IssueWithAncestors, Running, IInv
<1>2. responseOptions' \in [Voter -> Seq(AnyBlock)] /\ UNCHANGED consensus
  BY DEF IssueWithAncestors, IInv, Shapes, voters
<1>3. ASSUME ShouldIssueBlock(b), Issue(b, "ancestorByID") PROVE PlainAfter
  BY <1>1, <1>2, <1>3, IssuedIsBlock, IssueShape DEF PlainAfter, IInv
<1>4. ASSUME Return, UNCHANGED dependents PROVE PlainAfter
  BY <1>1, <1>2, <1>4, ReturnShape DEF PlainAfter, IInv, Shapes
<1>5. ASSUME Abandon(b) PROVE PlainAfter
  BY <1>1, <1>2, <1>5, AbandonShape DEF PlainAfter, IInv
<1>6. QED
  BY <1>2, <1>3, <1>4, <1>5 DEF IssueWithAncestors

LEMMA AncestorByIDShape == IInv /\ AncestorByID => PlainAfter /\ UNCHANGED consensus
<1> SUFFICES ASSUME IInv, AncestorByID PROVE PlainAfter /\ UNCHANGED consensus
  OBVIOUS
<1> DEFINE b == frame.blk
<1>1. ~Idle /\ b \in AnyBlock
  BY TopFrame, Fields DEF AncestorByID, Running, IInv
<1>2. responseOptions' \in [Voter -> Seq(AnyBlock)] /\ UNCHANGED consensus
  BY DEF AncestorByID, IInv, Shapes, voters
<1>3. <<Call("issueWithAncestors", b)>> \in Seq(Frame) /\ Plain(<<Call("issueWithAncestors", b)>>)
  BY <1>1, Calls, OneCall
<1>4. ASSUME GoOn(<<Call("issueWithAncestors", b)>>), UNCHANGED dependents PROVE PlainAfter
  BY ZenonT(40), <1>1, <1>2, <1>3, <1>4, PlainGoOn DEF PlainAfter, IInv, Shapes
<1>5. ASSUME Return, UNCHANGED dependents PROVE PlainAfter
  BY <1>1, <1>2, <1>5, ReturnShape DEF PlainAfter, IInv, Shapes
<1>6. ASSUME Abandon(b) PROVE PlainAfter
  BY <1>1, <1>2, <1>6, AbandonShape DEF PlainAfter, IInv
<1>7. QED
  BY <1>2, <1>4, <1>5, <1>6 DEF AncestorByID

LEMMA OptionList ==
  ASSUME NEW list \in Seq(Block), NEW ok \in BOOLEAN
  PROVE  [i \in DOMAIN list |-> [op |-> "option", blk |-> list[i], fulfilled |-> ok]] \in Seq(Frame)
<1> DEFINE call(i) == [op |-> "option", blk |-> list[i], fulfilled |-> ok]
<1>1. \A i \in 1..Len(list) : call(i) \in Frame
  BY Calls
<1>2. DOMAIN list = 1..Len(list) /\ Len(list) \in Nat
  OBVIOUS
<1> HIDE DEF call
<1>3. [i \in DOMAIN list |-> call(i)] \in Seq(Frame)
  BY <1>1, <1>2
<1>4. QED
  BY <1>3 DEF call

LEMMA OptionCalls ==
  ASSUME NEW added \in Seq(Block), NEW dropped \in Seq(Block)
  PROVE  RestOfDeliver(added, dropped) \in Seq(Frame) /\ Plain(RestOfDeliver(added, dropped))
<1> DEFINE A == [i \in DOMAIN added |-> [op |-> "option", blk |-> added[i], fulfilled |-> TRUE]]
           D == [i \in DOMAIN dropped |-> [op |-> "option", blk |-> dropped[i], fulfilled |-> FALSE]]
<1>1. A \in Seq(Frame) /\ D \in Seq(Frame)
  BY ZenonT(40), OptionList
<1>2. Plain(A) /\ Plain(D)
  BY DEF Plain
<1> HIDE DEF A, D
<1>3. A \o D \in Seq(Frame) /\ Plain(A \o D)
  BY <1>1, <1>2 DEF Plain
<1>4. Append(A \o D, repoll) \in Seq(Frame) /\ Plain(Append(A \o D, repoll))
  BY <1>3, Calls DEF Plain, repoll
<1>5. QED
  BY <1>4 DEF RestOfDeliver, ResolveOptions, A, D

LEMMA DeliveredShape == IInv /\ Delivered => PlainAfter /\ UNCHANGED consensus
<1> SUFFICES ASSUME IInv, Delivered PROVE PlainAfter /\ UNCHANGED consensus
  OBVIOUS
<1>1. /\ ~Idle /\ frame.blk \in AnyBlock
      /\ frame.added \in Seq(Block) /\ frame.dropped \in Seq(Block)
  BY TopFrame, Fields DEF Delivered, Running, IInv, AnyBlock
<1>2. /\ RestOfDeliver(frame.added, frame.dropped) \in Seq(Frame)
      /\ Plain(RestOfDeliver(frame.added, frame.dropped))
  BY <1>1, OptionCalls
<1>3. /\ stack' \in Seq(Frame) /\ Plain(stack')
      /\ dependents' \in [AnyBlock -> Seq(Block \cup Voter)]
  BY ZenonT(40), <1>1, <1>2, ResolveShape DEF Delivered, Fulfill, IInv
<1>4. QED
  BY <1>3 DEF Delivered, PlainAfter, IInv, Shapes, voters

LEMMA ResolveOptionShape == IInv /\ ResolveOption => PlainAfter /\ UNCHANGED consensus
<1> SUFFICES ASSUME IInv, ResolveOption PROVE PlainAfter /\ UNCHANGED consensus
  OBVIOUS
<1>1. ~Idle /\ frame.blk \in Block /\ frame.blk \in AnyBlock /\ frame.fulfilled \in BOOLEAN
  BY TopFrame, Fields DEF ResolveOption, Running, IInv, AnyBlock
<1>2. /\ <<Call("deleteRequest", frame.blk)>> \in Seq(Frame)
      /\ Plain(<<Call("deleteRequest", frame.blk)>>)
  BY <1>1, Calls, OneCall
<1>3. /\ stack' \in Seq(Frame) /\ Plain(stack')
      /\ dependents' \in [AnyBlock -> Seq(Block \cup Voter)]
  BY ZenonT(40), <1>1, <1>2, ResolveShape DEF ResolveOption, IInv
<1>4. QED
  BY <1>3 DEF ResolveOption, PlainAfter, IInv, Shapes, voters

LEMMA ReturningShape ==
  IInv /\ (DeleteRequest \/ Repoll \/ StopBuilding) => PlainAfter /\ UNCHANGED consensus
<1> SUFFICES ASSUME IInv, DeleteRequest \/ Repoll \/ StopBuilding
             PROVE  PlainAfter /\ UNCHANGED consensus
  OBVIOUS
<1>1. ~Idle /\ Return
  BY DEF DeleteRequest, Repoll, StopBuilding, Running
<1>2. stack' \in Seq(Frame) /\ Plain(stack')
  BY <1>1, ReturnShape DEF IInv
<1>3. QED
  BY <1>2 DEF DeleteRequest, Repoll, StopBuilding, PlainAfter, IInv, Shapes, voters

LEMMA RunJobShape == IInv /\ RunJob => PlainAfter /\ UNCHANGED consensus
<1> SUFFICES ASSUME IInv, RunJob PROVE PlainAfter /\ UNCHANGED consensus
  OBVIOUS
<1> DEFINE job == Head(frame.jobs)
           later == RunJobs(Tail(frame.jobs), frame.fulfilled)
<1>1. /\ ~Idle /\ frame.fulfilled \in BOOLEAN
      /\ job \in Block \cup Voter /\ Tail(frame.jobs) \in Seq(Block \cup Voter)
  BY TopFrame, Fields DEF RunJob, Running, IInv
<1>2. later \in Seq(Frame) /\ Plain(later)
  BY ZenonT(40), <1>1, JobsShape
<1>3. PICK calls : /\ GoOn(calls)
                   /\ \/ job \in Block /\ calls = <<Call("deliver", job)>> \o later
                      \/ job \in Block /\ calls = <<Call("abandoned", job)>> \o later
                      \/ job \in Voter /\ calls = <<[op |-> "voter", voter |-> job]>> \o later
                      \/ calls = later
  BY ZenonT(40) DEF RunJob
<1>4. \A op \in {"deliver", "abandoned"} : job \in Block =>
        <<Call(op, job)>> \o later \in Seq(Frame) /\ Plain(<<Call(op, job)>> \o later)
  <2> SUFFICES ASSUME NEW op \in {"deliver", "abandoned"}, job \in Block
               PROVE  <<Call(op, job)>> \o later \in Seq(Frame) /\ Plain(<<Call(op, job)>> \o later)
    OBVIOUS
  <2>1. <<Call(op, job)>> \in Seq(Frame) /\ Plain(<<Call(op, job)>>)
    BY Calls, OneCall
  <2>2. QED
    BY <1>2, <2>1 DEF Plain
<1>5. ASSUME job \in Voter
      PROVE  /\ <<[op |-> "voter", voter |-> job]>> \o later \in Seq(Frame)
             /\ Plain(<<[op |-> "voter", voter |-> job]>> \o later)
  <2>1. [op |-> "voter", voter |-> job] \in Frame
    BY ZenonT(40), <1>5, Calls
  <2>2. QED
    BY <1>2, <2>1 DEF Plain
<1>6. calls \in Seq(Frame) /\ Plain(calls)
  BY ZenonT(40), <1>2, <1>3, <1>4, <1>5
<1>7. stack' \in Seq(Frame) /\ Plain(stack')
  BY <1>1, <1>3, <1>6, PlainGoOn DEF IInv
<1>8. QED
  BY <1>7 DEF RunJob, PlainAfter, IInv, Shapes

LEMMA AbandonIssuerShape == IInv /\ AbandonIssuer => PlainAfter /\ UNCHANGED consensus
<1> SUFFICES ASSUME IInv, AbandonIssuer PROVE PlainAfter /\ UNCHANGED consensus
  OBVIOUS
<1>1. ~Idle /\ frame.blk \in AnyBlock
  BY TopFrame, Fields DEF AbandonIssuer, Running, IInv, AnyBlock
<1>2. /\ stack' \in Seq(Frame) /\ Plain(stack')
      /\ dependents' \in [AnyBlock -> Seq(Block \cup Voter)]
  BY <1>1, AbandonShape DEF AbandonIssuer, IInv
<1>3. QED
  BY <1>2 DEF AbandonIssuer, PlainAfter, IInv, Shapes, voters

LEMMA ExecuteVoterShape == IInv /\ ExecuteVoter => PlainAfter /\ UNCHANGED consensus
<1> SUFFICES ASSUME IInv, ExecuteVoter PROVE PlainAfter /\ UNCHANGED consensus
  OBVIOUS
<1> DEFINE options == responseOptions[frame.voter]
<1>1. ~Idle /\ frame.voter \in Voter /\ options \in Seq(AnyBlock)
  BY TopFrame, Fields DEF ExecuteVoter, Running, IInv, Shapes
<1>2. PICK vote \in SUBSET processing :
        GoOn(<<[op |-> "vote", options |-> options, vote |-> vote]>>)
  <2>1. \A b : GetProcessingAncestor(b) \subseteq processing
    BY DEF GetProcessingAncestor
  <2>2. QED
    BY ZenonT(40), <2>1 DEF ExecuteVoter
<1>3. [op |-> "vote", options |-> options, vote |-> vote] \in Frame
  BY <1>1, LedgerFacts DEF Frame, IInv
<1>4. /\ <<[op |-> "vote", options |-> options, vote |-> vote]>> \in Seq(Frame)
      /\ Plain(<<[op |-> "vote", options |-> options, vote |-> vote]>>)
  BY <1>3 DEF Plain
<1>5. stack' \in Seq(Frame) /\ Plain(stack')
  BY ZenonT(40), <1>1, <1>2, <1>4, PlainGoOn DEF IInv
<1>6. responseOptions' \in [Voter -> Seq(AnyBlock)]
  <2>1. responseOptions' = [responseOptions EXCEPT ![frame.voter] = <<>>]
    BY DEF ExecuteVoter
  <2>2. <<>> \in Seq(AnyBlock)
    OBVIOUS
  <2>3. QED
    BY ZenonT(40), <2>1, <2>2 DEF IInv, Shapes
<1>7. QED
  BY <1>5, <1>6 DEF ExecuteVoter, PlainAfter, IInv, Shapes

\* The one step that decides blocks.
LEMMA ApplyVoteShape ==
  IInv /\ ApplyVote => PlainAfter /\ [Consensus!Next]_consensus
<1> SUFFICES ASSUME IInv, ApplyVote PROVE PlainAfter /\ [Consensus!Next]_consensus
  OBVIOUS
<1>1. ~Idle
  BY DEF ApplyVote, Running
<1>2. <<repoll>> \in Seq(Frame) /\ Plain(<<repoll>>)
  BY Calls DEF Plain, repoll
<1>3. stack' \in Seq(Frame) /\ Plain(stack')
  BY ZenonT(40), <1>1, <1>2, PlainGoOn, ReturnShape DEF ApplyVote, IInv
<1>4. PlainAfter
  BY <1>3 DEF ApplyVote, PlainAfter, IInv, Shapes, voters
<1>5. UNCHANGED consensus \/ \E d \in processing : Consensus!Decide(d)
  BY DEF ApplyVote
<1>6. [Consensus!Next]_consensus
  BY <1>5, LedgerFacts DEF Consensus!Next, IInv
<1>7. QED
  BY <1>4, <1>6

LEMMA ScheduleVoterShape == IInv /\ ScheduleVoter => PlainAfter /\ UNCHANGED consensus
<1> SUFFICES ASSUME IInv, ScheduleVoter PROVE PlainAfter /\ UNCHANGED consensus
  OBVIOUS
<1> DEFINE call == [op |-> "voter", voter |-> frame.voter]
<1>1. ~Idle /\ frame.voter \in Voter
  BY TopFrame, Fields DEF ScheduleVoter, Running, IInv
<1>2. call \in Frame
  BY ZenonT(40), <1>1, Calls
<1>3. <<call>> \in Seq(Frame) /\ Plain(<<call>>) /\ <<>> \in Seq(Frame) /\ Plain(<<>>)
  BY <1>2 DEF Plain
<1>4. GoOn(<<call>>) \/ GoOn(<<>>)
  BY DEF ScheduleVoter
<1>5. stack' \in Seq(Frame) /\ Plain(stack')
  BY ZenonT(40), <1>1, <1>3, <1>4, PlainGoOn DEF IInv
<1>6. dependents' \in [AnyBlock -> Seq(Block \cup Voter)]
  <2>1. PICK blocks : Wait(frame.voter, blocks)
    BY DEF ScheduleVoter
  <2>2. QED
    BY <1>1, <2>1, WaitShape DEF IInv
<1>7. QED
  BY <1>5, <1>6 DEF ScheduleVoter, PlainAfter, IInv, Shapes

LEMMA BuildBlockShape == IInv /\ BuildBlock => PlainAfter /\ UNCHANGED consensus
<1> SUFFICES ASSUME IInv, BuildBlock PROVE PlainAfter /\ UNCHANGED consensus
  OBVIOUS
<1>1. ~Idle /\ frame \in Frame /\ frame.op = "buildBlocks"
  BY TopFrame DEF BuildBlock, Running, IInv
<1>2. ASSUME NEW b \in Block
      PROVE  /\ <<Call("issueWithAncestors", b), frame>> \in Seq(Frame)
             /\ Plain(<<Call("issueWithAncestors", b), frame>>)
  <2>1. Call("issueWithAncestors", b) \in Frame /\ Call("issueWithAncestors", b).op # "options"
    BY ZenonT(40), Calls, OneStep DEF Call
  <2>2. QED
    BY <1>1, <2>1 DEF Plain
<1>3. stack' \in Seq(Frame) /\ Plain(stack')
  BY ZenonT(40), <1>1, <1>2, PlainGoOn, ReturnShape DEF BuildBlock, IInv
<1>4. QED
  BY <1>3 DEF BuildBlock, PlainAfter, IInv, Shapes, voters

-----------------------------------------------------------------------------
(* The handlers. *)

\* A handler begins with the given calls and ends with the deferred work.
LEMMA HandleShape ==
  ASSUME NEW calls \in Seq(Frame), Plain(calls), stack' = Append(calls, deferredWork)
  PROVE  stack' \in Seq(Frame) /\ Plain(stack')
<1>1. deferredWork \in Frame /\ deferredWork.op # "options"
  BY Calls DEF deferredWork
<1>2. QED
  BY <1>1 DEF Plain

LEMMA PutShape ==
  ASSUME IInv, NEW b \in AnyBlock, Put(b) \/ PullQuery(b)
  PROVE  PlainAfter /\ UNCHANGED consensus
<1>1. \A op \in {"issueFrom", "issueFromByID"} :
        <<Call(op, b)>> \in Seq(Frame) /\ Plain(<<Call(op, b)>>)
  BY Calls, OneCall
<1>2. stack' \in Seq(Frame) /\ Plain(stack')
  BY ZenonT(40), <1>1, HandleShape DEF Put, PullQuery, Handle
<1>3. QED
  BY <1>2 DEF Put, PullQuery, PlainAfter, IInv, Shapes, voters

LEMMA GetFailedShape ==
  ASSUME IInv, NEW b \in AnyBlock, GetFailed(b)
  PROVE  PlainAfter /\ UNCHANGED consensus
<1>1. dependents[b] \in Seq(Block \cup Voter)
  BY DEF IInv, Shapes
<1>2. stack' \in Seq(Frame) /\ Plain(stack')
  BY ZenonT(40), <1>1, JobsShape, HandleShape DEF GetFailed
<1>3. dependents' \in [AnyBlock -> Seq(Block \cup Voter)]
  BY DEF GetFailed, IInv, Shapes
<1>4. QED
  BY ZenonT(40), <1>2, <1>3 DEF GetFailed, PlainAfter, IInv, Shapes, voters

LEMMA ChitsShape ==
  ASSUME IInv, NEW v \in Voter, NEW p \in AnyBlock, NEW h \in AnyBlock, Chits(v, p, h)
  PROVE  PlainAfter /\ UNCHANGED consensus
<1> DEFINE schedule == [op |-> "schedule", voter |-> v]
           issues == IF p = h THEN <<Call("issueFromByID", p)>>
                     ELSE <<Call("issueFromByID", p), Call("issueFromByID", h)>>
<1>1. schedule \in Frame /\ schedule.op # "options"
  BY ZenonT(40), Calls
<1>2. \A b \in {p, h} : /\ Call("issueFromByID", b) \in Frame
                         /\ Call("issueFromByID", b).op # "options"
  <2>1. \A b : Call("issueFromByID", b).op # "options"
    BY DEF Call
  <2>2. QED
    BY <2>1, Calls
<1>3. issues \in Seq(Frame) /\ Plain(issues)
  BY <1>2 DEF Plain
<1>4. issues \o <<schedule>> \in Seq(Frame) /\ Plain(issues \o <<schedule>>)
  <2> HIDE DEF issues, schedule
  <2>1. QED
    BY <1>1, <1>3 DEF Plain
<1>5. stack' \in Seq(Frame) /\ Plain(stack')
  BY ZenonT(40), <1>4, HandleShape DEF Chits, Handle
<1>6. responseOptions' \in [Voter -> Seq(AnyBlock)]
  <2>1. responseOptions' = [responseOptions EXCEPT ![v] = IF p = h THEN <<p>> ELSE <<p, h>>]
    BY DEF Chits
  <2>2. <<p>> \in Seq(AnyBlock) /\ <<p, h>> \in Seq(AnyBlock)
    OBVIOUS
  <2>3. QED
    BY <2>1, <2>2 DEF IInv, Shapes
<1>7. QED
  BY <1>5, <1>6 DEF Chits, PlainAfter, IInv, Shapes

LEMMA OtherHandlersShape ==
  ASSUME IInv, Notify \/ Gossip \/ \E v \in Voter : QueryFailed(v)
  PROVE  PlainAfter /\ UNCHANGED consensus
<1>1. \A v \in Voter : /\ <<[op |-> "schedule", voter |-> v]>> \in Seq(Frame)
                        /\ Plain(<<[op |-> "schedule", voter |-> v]>>)
  <2> SUFFICES ASSUME NEW v \in Voter
               PROVE  /\ <<[op |-> "schedule", voter |-> v]>> \in Seq(Frame)
                      /\ Plain(<<[op |-> "schedule", voter |-> v]>>)
    BY ZenonT(40)
  <2>1. [op |-> "schedule", voter |-> v] \in Frame
    BY ZenonT(40), Calls
  <2>2. QED
    BY <2>1 DEF Plain
<1>2. <<>> \in Seq(Frame) /\ Plain(<<>>)
  BY DEF Plain
<1>3. <<repoll>> \in Seq(Frame) /\ Plain(<<repoll>>)
  BY Calls DEF Plain, repoll
<1>4. CASE Notify
  BY ZenonT(40), <1>2, <1>4, HandleShape DEF Notify, Handle, PlainAfter, IInv, Shapes, voters
<1>5. CASE Gossip
  BY <1>3, <1>5 DEF Gossip, PlainAfter, IInv, Shapes, voters
<1>6. ASSUME NEW v \in Voter, QueryFailed(v)
      PROVE  PlainAfter /\ UNCHANGED consensus
  BY ZenonT(40), <1>1, <1>6, HandleShape DEF QueryFailed, Handle, PlainAfter, IInv, Shapes, voters
<1>7. QED
  BY <1>4, <1>5, <1>6

-----------------------------------------------------------------------------
(* The steps that put blocks into consensus. *)

\* A step that leaves no options to add keeps the invariant if consensus takes a
\* step of the ledger, or none.
LEMMA PlainKeeps ==
  IInv /\ PlainAfter /\ [Consensus!Next]_consensus => IInv'
BY LedgerStep, PlainIsNew DEF IInv, PlainAfter, Shapes

\* A new block on an issued parent enters consensus as the ledger allows.
LEMMA AddIssues ==
  ASSUME LP!IInv, NEW b \in Block, b \notin processing, CanIssueChildOn(Parent[b]),
         AddVerified(b), UNCHANGED <<last, accepted, rejected>>
  PROVE  [Consensus!Next]_consensus
<1>1. b \notin accepted \cup rejected
  BY Fresh
<1>2. Consensus!Issue(b)
  BY <1>1 DEF Consensus!Issue, AddVerified, CanIssueChildOn
<1>3. QED
  BY <1>2 DEF Consensus!Next

\* A call that goes on with options to add.
LEMMA OptionsOnTop ==
  ASSUME Shapes, OptionsAreNew, ~Idle, NEW f \in Frame, f.op = "options", GoOn(<<f>>),
         f.blk \in processing',
         \A i, j \in DOMAIN f.todo : /\ Parent[f.todo[i]] = f.blk
                                     /\ f.todo[i] \notin processing'
                                     /\ f.todo[i] = f.todo[j] => i = j
  PROVE  stack' \in Seq(Frame) /\ OptionsAreNew'
<1>1. <<f>> \in Seq(Frame) /\ <<f>> # <<>> /\ <<f>>[1] = f
  OBVIOUS
<1>2. stack' \in Seq(Frame) /\ Plain(Tail(stack)) /\ stack'[1] = f
  BY ZenonT(40), <1>1, GoOnShape DEF GoOn
<1>3. stack' = <<f>> \o Tail(stack) /\ Tail(stack) \in Seq(Frame)
  BY DEF GoOn, Shapes, Idle
<1>4. stack' # <<>> /\ Head(stack') = f
  BY <1>2, <1>3
<1>5. \A i \in DOMAIN stack' : i # 1 => stack'[i].op # "options"
  BY <1>2, <1>3 DEF Plain
<1>6. QED
  BY <1>2, <1>4, <1>5 DEF OptionsAreNew, Running, frame

LEMMA DeliverKeeps == IInv /\ Deliver => IInv' /\ [Consensus!Next]_consensus
<1> SUFFICES ASSUME IInv, Deliver PROVE IInv' /\ [Consensus!Next]_consensus
  OBVIOUS
<1> DEFINE b == frame.blk
           call == [op |-> "options", blk |-> b, todo |-> Options[b],
                    added |-> <<>>, dropped |-> <<>>]
<1>1. ~Idle /\ b \in Block /\ b \in AnyBlock
  BY TopFrame, Fields, OneStep DEF Deliver, Running, IInv
<1>2. UNCHANGED <<last, accepted, rejected>> /\ responseOptions' = responseOptions
  BY DEF Deliver, voters
<1>3. CASE Abandon(b) /\ UNCHANGED processing
  <2>1. PlainAfter
    BY <1>1, <1>2, <1>3, AbandonShape DEF PlainAfter, IInv, Shapes
  <2>2. QED
    BY <1>2, <1>3, <2>1, PlainKeeps DEF consensus
<1>4. CASE /\ CanIssueChildOn(Parent[b]) /\ b \notin processing
           /\ AddVerified(b) /\ GoOn(<<call>>) /\ UNCHANGED dependents
  <2>1. [Consensus!Next]_consensus
    BY <1>1, <1>2, <1>4, AddIssues DEF IInv
  <2>2. LP!IInv'
    BY <2>1, LedgerStep DEF IInv
  <2>3. Options[b] \in Seq(Block) /\ \A i, j \in DOMAIN Options[b] :
          /\ Parent[Options[b][i]] = b
          /\ Options[b][i] = Options[b][j] => i = j
    BY <1>1, EngineAssumption
  <2>4. call \in Frame /\ call.op = "options" /\ call.blk = b /\ call.todo = Options[b]
    BY <1>1, <2>3 DEF Frame
  <2>5. b \notin accepted \cup processing
    BY <1>1, <1>4, Fresh DEF IInv
  <2>6. \A i \in DOMAIN Options[b] : Options[b][i] \notin processing'
    <3> SUFFICES ASSUME NEW i \in DOMAIN Options[b], Options[b][i] \in processing' PROVE FALSE
      OBVIOUS
    <3> DEFINE o == Options[b][i]
    <3>1. o \in Block /\ Parent[o] = b
      BY <2>3
    <3>2. o # b /\ b \in Ancestors[o]
      BY <1>1, <3>1, OneStep, Lower
    <3>3. o \in processing
      BY <1>4, <3>2 DEF AddVerified
    <3>4. QED
      BY <2>5, <3>2, <3>3, LedgerFacts DEF IInv
  <2>7. b \in processing'
    BY <1>4 DEF AddVerified
  <2>8. stack' \in Seq(Frame) /\ OptionsAreNew'
    <3> HIDE DEF call
    <3>1. QED
      BY <1>1, <1>4, <2>3, <2>4, <2>6, <2>7, OptionsOnTop DEF IInv
  <2>9. QED
    BY <1>2, <1>4, <2>1, <2>2, <2>8 DEF IInv, Shapes
<1>5. QED
  BY <1>3, <1>4 DEF Deliver

LEMMA AddOptionKeeps == IInv /\ AddOption => IInv' /\ [Consensus!Next]_consensus
<1> SUFFICES ASSUME IInv, AddOption PROVE IInv' /\ [Consensus!Next]_consensus
  OBVIOUS
<1> DEFINE o == Head(frame.todo)
           call == [frame EXCEPT !.todo = Tail(@)]
           withAdded == [call EXCEPT !.added = Append(@, o)]
           withDropped == [call EXCEPT !.dropped = Append(@, o)]
<1>1. /\ ~Idle /\ frame.op = "options" /\ frame.blk \in Block
      /\ frame \in [op : {"options"}, blk : Block, todo : Seq(Block),
                    added : Seq(Block), dropped : Seq(Block)]
      /\ frame.todo \in Seq(Block) /\ frame.todo # <<>>
  BY TopFrame, Fields DEF AddOption, Running, IInv
<1>2. UNCHANGED <<last, accepted, rejected, dependents, responseOptions>>
  BY DEF AddOption, voters
<1>3. /\ frame.blk \in processing
      /\ \A i, j \in DOMAIN frame.todo : /\ Parent[frame.todo[i]] = frame.blk
                                         /\ frame.todo[i] \notin processing
                                         /\ frame.todo[i] = frame.todo[j] => i = j
  BY <1>1 DEF IInv, OptionsAreNew, Running
<1>4. /\ o \in Block /\ 1 \in DOMAIN frame.todo /\ o = frame.todo[1]
      /\ Tail(frame.todo) \in Seq(Block)
      /\ \A i \in DOMAIN Tail(frame.todo) : /\ i + 1 \in DOMAIN frame.todo /\ i + 1 # 1
                                             /\ Tail(frame.todo)[i] = frame.todo[i + 1]
  BY <1>1
<1>5. Parent[o] = frame.blk /\ o \notin processing /\ CanIssueChildOn(Parent[o])
  BY <1>3, <1>4 DEF CanIssueChildOn
<1>6. \A i, j \in DOMAIN Tail(frame.todo) :
        /\ Parent[Tail(frame.todo)[i]] = frame.blk
        /\ Tail(frame.todo)[i] \notin processing \cup {o}
        /\ Tail(frame.todo)[i] = Tail(frame.todo)[j] => i = j
  <2> SUFFICES ASSUME NEW i \in DOMAIN Tail(frame.todo), NEW j \in DOMAIN Tail(frame.todo)
               PROVE  /\ Parent[Tail(frame.todo)[i]] = frame.blk
                      /\ Tail(frame.todo)[i] \notin processing \cup {o}
                      /\ Tail(frame.todo)[i] = Tail(frame.todo)[j] => i = j
    OBVIOUS
  <2>1. i \in Int /\ j \in Int
    BY <1>4
  <2>2. QED
    BY <1>3, <1>4, <2>1
<1>7. \A f \in {withAdded, withDropped} :
        /\ f \in [op : {"options"}, blk : Block, todo : Seq(Block),
                  added : Seq(Block), dropped : Seq(Block)]
        /\ f.blk = frame.blk /\ f.todo = Tail(frame.todo)
  <2>1. /\ call \in [op : {"options"}, blk : Block, todo : Seq(Block),
                     added : Seq(Block), dropped : Seq(Block)]
        /\ call.blk = frame.blk /\ call.todo = Tail(frame.todo)
    BY ZenonT(40), <1>1, <1>4
  <2> HIDE DEF call, o
  <2>2. Append(call.added, o) \in Seq(Block) /\ Append(call.dropped, o) \in Seq(Block)
    BY <1>4, <2>1
  <2>3. /\ withAdded \in [op : {"options"}, blk : Block, todo : Seq(Block),
                          added : Seq(Block), dropped : Seq(Block)]
        /\ withAdded.blk = frame.blk /\ withAdded.todo = Tail(frame.todo)
    BY ZenonT(40), <2>1, <2>2
  <2>4. /\ withDropped \in [op : {"options"}, blk : Block, todo : Seq(Block),
                            added : Seq(Block), dropped : Seq(Block)]
        /\ withDropped.blk = frame.blk /\ withDropped.todo = Tail(frame.todo)
    BY ZenonT(40), <2>1, <2>2
  <2> HIDE DEF withAdded, withDropped
  <2>5. QED
    BY ZenonT(40), <2>3, <2>4
<1>8. \A f \in {withAdded, withDropped} : f \in Frame /\ f.op = "options"
  <2> HIDE DEF withAdded, withDropped
  <2>1. QED
    BY <1>7 DEF Frame
<1>9. ASSUME NEW f \in {withAdded, withDropped}, GoOn(<<f>>),
             processing' \in {processing, processing \cup {o}}
      PROVE  stack' \in Seq(Frame) /\ OptionsAreNew'
  <2> HIDE DEF withAdded, withDropped, o
  <2>1. f \in Frame /\ f.op = "options" /\ f.blk \in processing'
    BY <1>3, <1>7, <1>8, <1>9
  <2>2. \A i, j \in DOMAIN f.todo : /\ Parent[f.todo[i]] = f.blk
                                    /\ f.todo[i] \notin processing'
                                    /\ f.todo[i] = f.todo[j] => i = j
    BY ZenonT(40), <1>6, <1>7, <1>9
  <2>3. QED
    BY <1>1, <1>9, <2>1, <2>2, OptionsOnTop DEF IInv
<1>10. CASE AddVerified(o) /\ GoOn(<<withAdded>>)
  <2>1. [Consensus!Next]_consensus
    BY <1>2, <1>4, <1>5, <1>10, AddIssues DEF IInv
  <2>2. LP!IInv'
    BY <2>1, LedgerStep DEF IInv
  <2>3. stack' \in Seq(Frame) /\ OptionsAreNew'
    <3>1. processing' = processing \cup {o}
      BY <1>10 DEF AddVerified
    <3>2. QED
      BY <1>9, <1>10, <3>1
  <2>4. QED
    BY <1>2, <2>1, <2>2, <2>3 DEF IInv, Shapes
<1>11. CASE GoOn(<<withDropped>>) /\ UNCHANGED processing
  <2>1. UNCHANGED consensus
    BY <1>2, <1>11 DEF consensus
  <2>2. LP!IInv'
    BY <2>1, LedgerStep DEF IInv
  <2>3. stack' \in Seq(Frame) /\ OptionsAreNew'
    BY <1>9, <1>11
  <2>4. QED
    BY <1>2, <2>1, <2>2, <2>3 DEF IInv, Shapes
<1>12. QED
  BY <1>10, <1>11 DEF AddOption

-----------------------------------------------------------------------------

\* The engine starts with the options of the last accepted block to deliver.
LEMMA InitIInv == Init => IInv /\ Consensus!Init
<1> SUFFICES ASSUME Init PROVE IInv /\ Consensus!Init
  OBVIOUS
<1> DEFINE calls == [i \in DOMAIN Options[Genesis] |-> Call("deliver", Options[Genesis][i])]
<1>1. Consensus!Init
  BY DEF Init
<1>2. LP!IInv
  <2>1. LP!Init
    BY <1>1 DEF Consensus!Init, LP!Init
  <2>2. QED
    BY <2>1, LP!InitIInv, BlocksFormATree DEF AnyBlock, LP!AnyBlock
<1>3. calls \in Seq(Frame) /\ Plain(calls)
  <2>1. Options[Genesis] \in Seq(Block)
    BY EngineAssumption DEF AnyBlock
  <2>2. DOMAIN Options[Genesis] = 1..Len(Options[Genesis]) /\ Len(Options[Genesis]) \in Nat
    BY <2>1
  <2>3. \A i \in DOMAIN Options[Genesis] : calls[i] \in Frame /\ calls[i].op # "options"
    <3> TAKE i \in DOMAIN Options[Genesis]
    <3>1. Options[Genesis][i] \in Block
      BY <2>1
    <3>2. calls[i] = Call("deliver", Options[Genesis][i])
      OBVIOUS
    <3>3. calls[i].op # "options"
      BY <3>2 DEF Call
    <3>4. QED
      BY <3>1, <3>2, <3>3, Calls
  <2>4. calls \in [1..Len(Options[Genesis]) -> Frame]
    BY ZenonT(40), <2>2, <2>3
  <2>5. calls \in Seq(Frame)
    BY <2>2, <2>4
  <2>6. QED
    BY ZenonT(40), <2>3, <2>5 DEF Plain
<1>4. stack \in Seq(Frame) /\ Plain(stack)
  <2>1. stack = Append(calls, deferredWork)
    BY DEF Init
  <2>2. deferredWork \in Frame /\ deferredWork.op # "options"
    BY Calls DEF deferredWork
  <2> HIDE DEF calls
  <2>3. QED
    BY <1>3, <2>1, <2>2 DEF Plain
<1>5. OptionsAreNew
  BY <1>4 DEF Plain, OptionsAreNew, Running, frame, Idle
<1>6. Shapes
  BY <1>4 DEF Init, Shapes
<1>7. QED
  BY <1>1, <1>2, <1>5, <1>6 DEF IInv

\* Every step keeps the invariant and is a step of the ledger, or none.
LEMMA NextIInv == IInv /\ [Next]_vars => IInv' /\ [Consensus!Next]_consensus
<1> SUFFICES ASSUME IInv, [Next]_vars PROVE IInv' /\ [Consensus!Next]_consensus
  OBVIOUS
<1>1. ASSUME PlainAfter, UNCHANGED consensus PROVE IInv' /\ [Consensus!Next]_consensus
  BY <1>1, PlainKeeps
<1>2. CASE UNCHANGED vars
  <2>1. UNCHANGED consensus /\ UNCHANGED <<dependents, responseOptions, stack, processing>>
    BY <1>2 DEF vars, voters, consensus
  <2>2. LP!IInv'
    BY <2>1, LedgerStep DEF IInv
  <2>3. QED
    BY <2>1, <2>2 DEF IInv, Shapes, OptionsAreNew, Running, Idle, frame
<1>3. CASE Step
  <2>1. CASE IssueFrom \/ IssueFromByID \/ IssueWithAncestors \/ AncestorByID
    BY <1>1, <2>1, IssueFromShape, IssueFromByIDShape, IssueWithAncestorsShape,
       AncestorByIDShape
  <2>2. CASE Delivered \/ ResolveOption \/ DeleteRequest \/ Repoll \/ StopBuilding
    BY <1>1, <2>2, DeliveredShape, ResolveOptionShape, ReturningShape
  <2>3. CASE RunJob \/ AbandonIssuer \/ ExecuteVoter \/ ScheduleVoter \/ BuildBlock
    BY <1>1, <2>3, RunJobShape, AbandonIssuerShape, ExecuteVoterShape, ScheduleVoterShape,
       BuildBlockShape
  <2>4. CASE ApplyVote
    BY <2>4, ApplyVoteShape, PlainKeeps
  <2>5. CASE Deliver
    BY <2>5, DeliverKeeps
  <2>6. CASE AddOption
    BY <2>6, AddOptionKeeps
  <2>7. QED
    BY <1>3, <2>1, <2>2, <2>3, <2>4, <2>5, <2>6 DEF Step
<1>4. CASE Handler
  <2>1. ASSUME NEW b \in AnyBlock, Put(b) \/ PullQuery(b) \/ GetFailed(b)
        PROVE  PlainAfter /\ UNCHANGED consensus
    BY <2>1, PutShape, GetFailedShape
  <2>2. ASSUME NEW v \in Voter, NEW p \in AnyBlock, NEW h \in AnyBlock, Chits(v, p, h)
        PROVE  PlainAfter /\ UNCHANGED consensus
    BY <2>2, ChitsShape
  <2>3. CASE Notify \/ Gossip \/ \E v \in Voter : QueryFailed(v)
    BY <1>1, <2>3, OtherHandlersShape
  <2>4. QED
    BY <1>1, <1>4, <2>1, <2>2, <2>3 DEF Handler
<1>5. QED
  BY <1>2, <1>3, <1>4 DEF Next

\* Whatever the order in which blocks, answers and failures arrive, and however
\* the calls nest, the engine uses consensus as the ledger allows: a block is
\* issued at most once, on a parent that is processing or accepted last, and
\* only a processing block is decided.
THEOREM EngineImplementsLedger == Spec => ImplementsLedger
<1>1. Init => IInv /\ Consensus!Init
  BY InitIInv
<1>2. IInv /\ [Next]_vars => IInv' /\ [Consensus!Next]_(Consensus!ledgerVars)
  BY NextIInv DEF consensus, Consensus!ledgerVars
<1>3. QED
  BY <1>1, <1>2, PTL DEF Spec, ImplementsLedger, Consensus!Spec

=============================================================================
