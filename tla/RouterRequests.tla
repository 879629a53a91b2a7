---------------------------- MODULE RouterRequests ---------------------------
(***************************************************************************)
(* The requests of the chains to their peers: the chain router, which      *)
(* passes a chain the answer or a failure, whichever it handles first, the *)
(* timeouts (AdaptiveTimeoutManager with its Timer) and the sender.        *)
(*                                                                         *)
(* A step is what is done under the lock of the router or of the timeout   *)
(* manager.  The goroutines that take these locks are the network, the     *)
(* chains, the dispatcher of the timer, and one for each failure that the  *)
(* sender reports.  Time is not measured: a deadline passes at some point  *)
(* after it is set, in any order, for the timeouts are adaptive.  What     *)
(* timeouts and answers do to the benchlists is in RouterPeers.            *)
(***************************************************************************)
EXTENDS Integers

CONSTANTS
  Chain,
  Request,
  On,               \* request r is about chain On[r]
  None

ASSUME RequestsAreOnChains == On \in [Request -> Chain]
ASSUME NoneIsNoRequest == None \notin Request

VARIABLES
  closing,
  chainHandlers,    \* the chains that are registered
  executing,        \* the chains whose context says Executing
  registered,       \* the requests a chain has begun to send
  timedRequests,    \* the requests without an answer
  unsent,           \* requests between the two parts of RegisterRequest
  asked,            \* requests that went to the peer, which may answer
  failing,          \* requests with a failure of the sender on its way
  answers,          \* answers[r]: how many answers or failures the chain got
  timeoutHeap,      \* the requests that have a timeout
  due,              \* the requests whose deadline has passed
  timer,            \* the Timer: its channel and fields, and what it waits for
  dispatcher        \* where timeout() is

chainVars == <<closing, chainHandlers, executing>>
timeoutVars == <<due, timer, dispatcher>>
vars == <<chainVars, registered, timedRequests, unsent, asked, failing, answers,
          timeoutHeap, timeoutVars>>

Init ==
  /\ closing = FALSE /\ chainHandlers = Chain /\ executing = {}
  /\ registered = {} /\ timedRequests = {} /\ unsent = {} /\ asked = {} /\ failing = {}
  /\ answers = [r \in Request |-> 0]
  /\ timeoutHeap = {} /\ due = {}
  /\ timer = [reset |-> FALSE, shouldExecute |-> FALSE, next |-> None, armed |-> None]
  /\ dispatcher = [at |-> "select", now |-> {}, request |-> None]

-----------------------------------------------------------------------------
(* The timeouts.                                                           *)

\* setNextTimeoutTime: Timer.SetTimeoutIn for the first request of the heap, or
\* Timer.Cancel.  Either leaves a token in the channel of the timer unless there
\* is one already.
SetNextTimeoutTime(heap) ==
  \E next \in IF heap = {} THEN {None}
              ELSE IF heap \cap due # {} THEN heap \cap due ELSE heap :
    timer' = [timer EXCEPT !.reset = TRUE,
                           !.shouldExecute = (heap # {}),
                           !.next = IF heap = {} THEN @ ELSE next]

DeadlinePasses(r) ==
  /\ r \in registered \ (unsent \cup due)
  /\ due' = due \cup {r}
  /\ UNCHANGED <<chainVars, registered, timedRequests, unsent, asked, failing, answers,
                 timeoutHeap, timer, dispatcher>>

\* Dispatch finds the token, and starts the timer if there is something to wait
\* for; it may be running, and goes on if there is not.
DispatchReset ==
  /\ dispatcher.at = "select" /\ timer.reset
  /\ timer' = [timer EXCEPT !.reset = FALSE,
                            !.armed = IF timer.shouldExecute THEN timer.next ELSE @]
  /\ UNCHANGED <<chainVars, registered, timedRequests, unsent, asked, failing, answers,
                 timeoutHeap, due, dispatcher>>

\* Dispatch sees the timer fire, and calls timeout() unless it was cancelled.
DispatchFire ==
  /\ dispatcher.at = "select" /\ timer.armed \in due
  /\ timer' = [timer EXCEPT !.armed = None]
  /\ dispatcher' = IF timer.shouldExecute
                   THEN [dispatcher EXCEPT !.at = "timeout", !.now = due]
                   ELSE dispatcher
  /\ UNCHANGED <<chainVars, registered, timedRequests, unsent, asked, failing, answers,
                 timeoutHeap, due>>

\* getNextTimeoutHandler: a request that was due when timeout() began.
NextTimeout ==
  /\ dispatcher.at = "timeout"
  /\ \E r \in timeoutHeap \cap dispatcher.now :
       /\ timeoutHeap' = timeoutHeap \ {r}
       /\ dispatcher' = [dispatcher EXCEPT !.at = "handler", !.request = r]
  /\ UNCHANGED <<chainVars, registered, timedRequests, unsent, asked, failing, answers,
                 due, timer>>

\* Bug: timeout() returns without setting the timer again.
TimeoutForgetsNext ==
  /\ dispatcher.at = "timeout" /\ timeoutHeap \cap dispatcher.now = {}
  /\ dispatcher' = [dispatcher EXCEPT !.at = "select", !.now = {}]
  /\ UNCHANGED <<chainVars, registered, timedRequests, unsent, asked, failing, answers,
                 timeoutHeap, due, timer>>

TimeoutReturns ==
  /\ dispatcher.at = "timeout" /\ timeoutHeap \cap dispatcher.now = {}
  /\ dispatcher' = [dispatcher EXCEPT !.at = "select", !.now = {}]
  /\ SetNextTimeoutTime(timeoutHeap)
  /\ UNCHANGED <<chainVars, registered, timedRequests, unsent, asked, failing, answers,
                 timeoutHeap, due>>

-----------------------------------------------------------------------------
(* Requests and what becomes of them.                                      *)

\* RegisterRequest under the lock of the router.
RegisterRequest(r) ==
  /\ ~closing /\ r \notin registered
  /\ registered' = registered \cup {r}
  /\ timedRequests' = timedRequests \cup {r}
  /\ unsent' = unsent \cup {r}
  /\ UNCHANGED <<chainVars, asked, failing, answers, timeoutHeap, timeoutVars>>

\* The rest: the timeout is set, and the request goes to the peer; or the sender
\* fails it because the peer is benched or cannot be reached; or neither, for a
\* request to the node itself.
SendRequest(r) ==
  /\ r \in unsent
  /\ unsent' = unsent \ {r}
  /\ timeoutHeap' = timeoutHeap \cup {r}
  /\ SetNextTimeoutTime(timeoutHeap')
  /\ \/ asked' = asked \cup {r} /\ UNCHANGED failing
     \/ failing' = failing \cup {r} /\ UNCHANGED asked
     \/ UNCHANGED <<asked, failing>>
  /\ UNCHANGED <<chainVars, registered, timedRequests, answers, due, dispatcher>>

\* clearRequest, RemoveRequest, and the message is pushed to the chain.
ClearAndPush(r) ==
  /\ timedRequests' = timedRequests \ {r}
  /\ timeoutHeap' = timeoutHeap \ {r}
  /\ answers' = [answers EXCEPT ![r] = @ + 1]

\* Bug: a failure is passed on although the request was answered.
FailWithoutClearing(r) ==
  IF On[r] \in chainHandlers
  THEN ClearAndPush(r)
  ELSE UNCHANGED <<timedRequests, timeoutHeap, answers>>

\* handleMessage, for a failure.  When closing there are no chains.
HandleFailed(r) ==
  IF On[r] \in chainHandlers /\ r \in timedRequests
  THEN ClearAndPush(r)
  ELSE UNCHANGED <<timedRequests, timeoutHeap, answers>>

\* A timeout reaches the router,
TimeoutHandler ==
  /\ dispatcher.at = "handler"
  /\ dispatcher' = [dispatcher EXCEPT !.at = "timeout", !.request = None]
  /\ HandleFailed(dispatcher.request)
  /\ UNCHANGED <<chainVars, registered, unsent, asked, failing, due, timer>>

\* and so does a failure of the sender, in a goroutine of its own.
HandleInternal(r) ==
  /\ r \in failing
  /\ failing' = failing \ {r}
  /\ HandleFailed(r)
  /\ UNCHANGED <<chainVars, registered, unsent, asked, timeoutVars>>

\* The peer answers, perhaps late or twice.  An answer to a chain that is
\* executing is dropped, and so is one to a request that is over.
HandleInbound(r) ==
  /\ r \in asked /\ On[r] \in chainHandlers \ executing /\ r \in timedRequests
  /\ ClearAndPush(r)
  /\ UNCHANGED <<chainVars, registered, unsent, asked, failing, timeoutVars>>

\* Jobs.ExecuteAll says so while it executes, at any time here.
SetExecuting(c) ==
  /\ c \in chainHandlers
  /\ executing' = IF c \in executing THEN executing \ {c} ELSE executing \cup {c}
  /\ UNCHANGED <<closing, chainHandlers, registered, timedRequests, unsent, asked, failing,
                 answers, timeoutHeap, timeoutVars>>

\* removeChain, when a chain has stopped.
RemoveChain(c) ==
  /\ chainHandlers' = chainHandlers \ {c}
  /\ UNCHANGED <<closing, executing, registered, timedRequests, unsent, asked, failing,
                 answers, timeoutHeap, timeoutVars>>

Shutdown ==
  /\ ~closing
  /\ closing' = TRUE /\ chainHandlers' = {}
  /\ UNCHANGED <<executing, registered, timedRequests, unsent, asked, failing, answers,
                 timeoutHeap, timeoutVars>>

-----------------------------------------------------------------------------

Dispatcher ==
  DispatchReset \/ DispatchFire \/ NextTimeout \/ TimeoutHandler \/ TimeoutReturns

Next ==
  \/ Dispatcher
  \/ \E c \in Chain : SetExecuting(c) \/ RemoveChain(c)
  \/ \E r \in Request : \/ RegisterRequest(r) \/ SendRequest(r) \/ DeadlinePasses(r)
                        \/ HandleInbound(r) \/ HandleInternal(r)
  \/ Shutdown

Spec == Init /\ [][Next]_vars

\* Goroutines are scheduled and time goes on.  Nobody has to answer.
FairSpec ==
  /\ Spec
  /\ WF_vars(Dispatcher)
  /\ \A r \in Request : /\ WF_vars(SendRequest(r)) /\ WF_vars(HandleInternal(r))
                        /\ WF_vars(DeadlinePasses(r))

-----------------------------------------------------------------------------
(* Properties.                                                             *)

\* A chain gets one answer to a request, from the peer or as a failure, however
\* the answer, the timeout and the failure of the sender come together; and while
\* the router still knows the request it has got none.
AnsweredOnce ==
  \A r \in Request : answers[r] = IF r \in registered \ timedRequests THEN 1 ELSE 0

\* A request of a chain that stays registered ends, although peers do not answer
\* and answers are dropped while the chain executes: no timeout is lost, whatever
\* is added to the heap and answered between the runs of timeout().
EveryRequestEnds ==
  \A r \in Request :
    r \in timedRequests ~> (r \notin timedRequests \/ On[r] \notin chainHandlers)

=============================================================================
