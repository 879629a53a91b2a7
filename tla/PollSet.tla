------------------------------- MODULE PollSet -------------------------------
(***************************************************************************)
(* The polls a node has outstanding (poll.set with earlyTermPoll).  A poll *)
(* asks a sample of validators, each with the number of times it was       *)
(* sampled; answers, failures and late or repeated answers come in any     *)
(* order, while blocks are issued.  A poll finishes early when the answers *)
(* still missing cannot matter, and results are handed to consensus in the *)
(* order the polls were started.                                           *)
(***************************************************************************)
EXTENDS SnowForest, BlockTree

CONSTANTS
  Validator,
  Samples,      \* Samples[r]: the samples of validators for poll r, bags of K
  RequestID     \* 1..n, used in this order by the engine

AlphaConfidence == TerminationConditions[1].alphaConfidence

VARIABLES
  processing,   \* the blocks consensus can name the parent of
  polls,        \* outstanding polls, the oldest first
  results,      \* the finished polls handed over, in that order
  answers       \* request -> [asked, first]: the sample, and the first answer
                \* of each validator asked, empty for a failure (history variable)

vars == <<processing, polls, results, answers>>

NoVotes == [b \in AnyBlock |-> 0]

Init ==
  /\ processing = {}
  /\ polls = <<>>
  /\ results = <<>>
  /\ answers = <<>>

Total(votes) == VotesFor(votes, DOMAIN votes)

\* earlyTermTraversalFactory.New
NewPoll(r, vdrs) == [id |-> r, votes |-> NoVotes, polled |-> vdrs, finished |-> FALSE]

-----------------------------------------------------------------------------
(* When a poll is finished.                                                *)

\* addIDAndAncestorsToGraph: b and the blocks reached from it with GetParent.
Vertices(b) == IF b \in processing THEN Ancestors[b] ELSE {b}

\* computeTransitiveVoteCountGraph
TransitiveVotes(votes) ==
  LET voted == {b \in AnyBlock : votes[b] > 0}
  IN  [x \in UNION {Vertices(b) : b \in voted} |->
         VotesFor(votes, {b \in voted : x \in Vertices(b)})]

\* longestSharedPrefixes: the siblings of x in the graph that share its first n
\* bits.
Group(graph, x, n) ==
  {c \in graph : Parent[c] = Parent[x] /\ IsPrefix(SubSeq(x, 1, n), c)}

\* computeTransitiveVotesForPrefixes: the votes of each group with a common
\* prefix that parts at the next bit.
PrefixCounts(transitive) ==
  LET graph == DOMAIN transitive \cap processing
      parts(x, n) == {c[n + 1] : c \in Group(graph, x, n)} = {0, 1}
      bifurcations == {y \in graph \X (1..(NumBits - 1)) : parts(y[1], y[2])}
  IN  {VotesFor(transitive, Group(graph, y[1], y[2])) : y \in bifurcations}

\* Bug: the votes for common prefixes are left out.
OnlyBlocks(transitive) == Range(transitive)

\* aggregateVotesFromPrefixesAndIDs
Counts(transitive) == Range(transitive) \cup PrefixCounts(transitive)

ShouldTerminate(freq, remaining) ==
  \/ freq + remaining < AlphaPreference
  \/ freq >= AlphaPreference /\ freq + remaining < AlphaConfidence
  \/ freq >= AlphaConfidence

Finished(p) ==
  LET remaining == Total(p.polled)
      counts == Counts(TransitiveVotes(p.votes))
  IN  \/ p.finished
      \/ remaining = 0
      \/ Total(p.votes) + remaining < AlphaPreference
      \/ counts # {} /\ \A freq \in counts : ShouldTerminate(freq, remaining)

-----------------------------------------------------------------------------
(* The set.                                                                *)

Add(r, vdrs) ==
  /\ \A i \in DOMAIN polls : polls[i].id # r
  /\ polls' = Append(polls, NewPoll(r, vdrs))
  /\ answers' = answers @@ (r :> [asked |-> vdrs, first |-> <<>>])
  /\ UNCHANGED <<processing, results>>

\* Bug: a finished poll does not wait for the older ones.
NewestFirst(ps) ==
  LET done == {i \in DOMAIN ps : Finished(ps[i])} IN
  [results |-> SetToSeq({ps[i] : i \in done}),
   polls   |-> SelectSeq(ps, LAMBDA p : ~Finished(p))]

\* processFinishedPolls: the oldest polls, up to the first that is unfinished.
ProcessFinishedPolls(ps) ==
  LET unfinished == {i \in DOMAIN ps : ~Finished(ps[i])}
      n == IF unfinished = {} THEN Len(ps) ELSE Min(unfinished) - 1
  IN  [results |-> SubSeq(ps, 1, n),
       polls   |-> SubSeq(ps, n + 1, Len(ps))]

\* poll i becomes p; nothing is handed over unless p is finished.
Update(i, p) ==
  LET done == Finished(p)
      ps == [polls EXCEPT ![i] = [p EXCEPT !.finished = done]]
      processed == ProcessFinishedPolls(ps)
  IN  IF done
      THEN /\ polls' = processed.polls
           /\ results' = results \o processed.results
      ELSE /\ polls' = ps
           /\ UNCHANGED results

\* Bag.Remove
BagRemove(bag, v) == [w \in DOMAIN bag \ {v} |-> bag[w]]

Count(bag, v) == IF v \in DOMAIN bag THEN bag[v] ELSE 0

\* Bug: the validator may answer again.
VotedAgain(p, v, b) == [p EXCEPT !.votes[b] = @ + Count(p.polled, v)]

\* earlyTermPoll.Vote
Voted(p, v, b) ==
  [p EXCEPT !.votes[b] = @ + Count(p.polled, v), !.polled = BagRemove(@, v)]

Answered(r, v, b) ==
  answers' = [answers EXCEPT ![r].first =
                IF v \in DOMAIN answers[r].asked THEN @ @@ (v :> b) ELSE @]

\* A vote for a poll that is not outstanding is dropped.
Vote(r, v, b) ==
  /\ \E i \in DOMAIN polls :
       /\ polls[i].id = r
       /\ Update(i, Voted(polls[i], v, b))
  /\ Answered(r, v, <<b>>)
  /\ UNCHANGED processing

\* Bug: the poll goes on waiting for a validator that failed.
StillWaiting(p, v) == p

\* earlyTermPoll.Drop
Dropped(p, v) == [p EXCEPT !.polled = BagRemove(@, v)]

Drop(r, v) ==
  /\ \E i \in DOMAIN polls :
       /\ polls[i].id = r
       /\ Update(i, Dropped(polls[i], v))
  /\ Answered(r, v, <<>>)
  /\ UNCHANGED processing

\* Consensus learns of a block.
Issue(b) ==
  /\ b \notin processing
  /\ Parent[b] \in processing \cup {Genesis}
  /\ processing' = processing \cup {b}
  /\ UNCHANGED <<polls, results, answers>>

Next ==
  \/ \E r \in RequestID \ DOMAIN answers :
       /\ \A q \in RequestID : q < r => q \in DOMAIN answers
       /\ \E vdrs \in Samples[r] : Add(r, vdrs)
  \/ \E r \in RequestID, v \in Validator :
       (\E b \in AnyBlock : Vote(r, v, b)) \/ Drop(r, v)
  \/ \E b \in Block : Issue(b)

\* v has been asked in an outstanding poll and has neither answered nor failed.
Outstanding(r, v) ==
  /\ \E i \in DOMAIN polls : polls[i].id = r
  /\ v \in DOMAIN answers[r].asked \ DOMAIN answers[r].first

\* Weak fairness of Vote or Drop by each validator asked: it answers, or its
\* request fails or times out.  The step is enabled while Outstanding holds and
\* ends that for good, so that this is all weak fairness says.
Fairness == \A r \in RequestID, v \in Validator : []<>~Outstanding(r, v)

Spec == Init /\ [][Next]_vars /\ Fairness

-----------------------------------------------------------------------------
(* Properties.                                                             *)

\* Results are handed over in the order the polls were started, each once,
\* whatever order their answers came in.
ResultsInOrder ==
  LET all == results \o polls
  IN  /\ \A i \in DOMAIN all : all[i].id = i
      /\ Len(all) = Cardinality(DOMAIN answers)

\* The votes of a poll are the first answers of its validators, each as often as
\* it was sampled: a repeated answer, an answer after a failure and the answer of
\* a validator that was not asked add nothing.
FirstAnswersCount ==
  \A p \in Range(polls) \cup Range(results) :
    LET h == answers[p.id]
    IN  \A b \in AnyBlock :
          p.votes[b] = VotesFor(h.asked, {v \in DOMAIN h.first : h.first[v] = <<b>>})

\* What consensus makes of n votes for an instance.
Level(n) == IF n >= AlphaConfidence THEN 2 ELSE IF n >= AlphaPreference THEN 1 ELSE 0

\* The votes the instance for prefix q among the children of p would be given.
InstanceVotes(votes, p, q) ==
  VotesFor(votes, {b \in processing : \E c \in Ancestors[b] \ {Genesis} :
                                        Parent[c] = p /\ IsPrefix(q, c)})

\* The votes of poll p with the answers f of the validators still outstanding.
Completed(p, f) ==
  [b \in AnyBlock |-> p.votes[b] + VotesFor(p.polled, {v \in DOMAIN f : f[v] = b})]

\* The claim in the comment of earlyTermPoll, "finishes when any remaining
\* validators can't change the result of the poll": whatever the outstanding
\* validators answer, no instance of any snow tree gets another level of votes.
CannotChange(p) ==
  \A f \in UNION {[S -> AnyBlock] : S \in SUBSET DOMAIN p.polled} :
    \A c \in processing : \A n \in 1..NumBits :
      LET q == SubSeq(c, 1, n)
      IN  Level(InstanceVotes(Completed(p, f), Parent[c], q)) =
            Level(InstanceVotes(p.votes, Parent[c], q))

\* A poll that a vote or a failure finishes early has its final result already.
EarlyFinishIsFinal ==
  [][\A p \in {q \in Range(polls') : q.finished} \cup Range(results') :
       (\E q \in Range(polls) : q.id = p.id /\ ~q.finished) => CannotChange(p)]_vars

\* Every poll is handed over once its validators have answered or failed: no
\* answer is lost, and no finished poll stays behind the others.
EveryPollFinishes ==
  \A r \in RequestID :
    r \in DOMAIN answers ~> \E i \in DOMAIN results : results[i].id = r

=============================================================================
