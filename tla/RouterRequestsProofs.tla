------------------------- MODULE RouterRequestsProofs ------------------------
(***************************************************************************)
(* That a chain gets one answer to each of its requests, for every set of  *)
(* chains and requests.  The invariant says of the requests in the hands   *)
(* of the dispatcher, of the sender and of the peers that they have been   *)
(* registered, which AnsweredOnce does not say and every step needs.       *)
(***************************************************************************)
EXTENDS RouterRequests, TLAPS

\* Leaves are for the SMT solver, with more time than the default, unless they
\* name another prover.
USE SMTT(30)

\* Where the requests can be.
RequestsOK ==
  /\ registered \subseteq Request
  /\ timedRequests \subseteq registered
  /\ unsent \subseteq registered
  /\ asked \subseteq registered
  /\ failing \subseteq registered
  /\ timeoutHeap \subseteq registered
  /\ dispatcher \in [at : {"select", "timeout", "handler"}, now : SUBSET Request,
                     request : Request \cup {None}]
  /\ due \subseteq registered
  /\ dispatcher.at = "handler" => dispatcher.request \in registered
  /\ answers \in [Request -> Nat]

AnswersInv == RequestsOK /\ AnsweredOnce

\* A failure or an answer of a request that is still timed is the first, and after
\* it the request is not timed any more.
LEMMA ClearAndPushKeeps ==
  ASSUME AnswersInv, NEW r \in timedRequests, ClearAndPush(r), registered' = registered
  PROVE  /\ AnsweredOnce'
         /\ timedRequests' \subseteq registered /\ timeoutHeap' \subseteq registered
         /\ answers' \in [Request -> Nat]
<1>1. r \in Request /\ r \in registered /\ answers[r] = 0
  BY DEF AnswersInv, RequestsOK, AnsweredOnce
<1>2. answers' \in [Request -> Nat]
  BY <1>1 DEF AnswersInv, RequestsOK, ClearAndPush
<1>3. ASSUME NEW q \in Request
      PROVE  answers'[q] = IF q \in registered' \ timedRequests' THEN 1 ELSE 0
  <2>1. CASE q = r
    BY <1>1, <2>1 DEF AnswersInv, RequestsOK, ClearAndPush
  <2>2. CASE q # r
    BY <1>1, <2>2 DEF AnswersInv, RequestsOK, AnsweredOnce, ClearAndPush
  <2> QED BY <2>1, <2>2
<1> QED BY <1>2, <1>3 DEF AnsweredOnce, AnswersInv, RequestsOK, ClearAndPush

\* handleMessage of a failure: the request is cleared, or nothing happens.
LEMMA HandleFailedKeeps ==
  ASSUME AnswersInv, NEW r \in registered, HandleFailed(r), registered' = registered
  PROVE  /\ AnsweredOnce'
         /\ timedRequests' \subseteq registered /\ timeoutHeap' \subseteq registered
         /\ answers' \in [Request -> Nat]
<1>1. CASE On[r] \in chainHandlers /\ r \in timedRequests
  BY <1>1, ClearAndPushKeeps DEF HandleFailed
<1>2. CASE ~(On[r] \in chainHandlers /\ r \in timedRequests)
  BY <1>2 DEF HandleFailed, AnswersInv, RequestsOK, AnsweredOnce
<1> QED BY <1>1, <1>2

\* The steps of the dispatcher other than the handler of a timeout, and those of
\* the router that only add to or take from the sets.
LEMMA DispatcherKeeps ==
  ASSUME AnswersInv, Dispatcher
  PROVE  AnswersInv'
<1> USE DEF AnswersInv, RequestsOK
<1>1. CASE DispatchReset
  BY <1>1 DEF DispatchReset, chainVars, AnsweredOnce
<1>2. CASE DispatchFire
  <2>1. dispatcher' \in [at : {"select", "timeout", "handler"}, now : SUBSET Request,
                         request : Request \cup {None}]
    BY Zenon, <1>2 DEF DispatchFire
  <2>2. dispatcher'.at # "handler"
    BY <1>2 DEF DispatchFire
  <2> QED BY <1>2, <2>1, <2>2 DEF DispatchFire, chainVars, AnsweredOnce
<1>3. CASE NextTimeout
  <2>1. PICK r \in timeoutHeap \cap dispatcher.now :
          /\ timeoutHeap' = timeoutHeap \ {r}
          /\ dispatcher' = [dispatcher EXCEPT !.at = "handler", !.request = r]
    BY Zenon, <1>3 DEF NextTimeout
  <2>2. /\ dispatcher' \in [at : {"select", "timeout", "handler"}, now : SUBSET Request,
                            request : Request \cup {None}]
        /\ dispatcher'.request = r
    BY Zenon, <2>1
  <2> QED BY <1>3, <2>1, <2>2 DEF NextTimeout, chainVars, AnsweredOnce
<1>4. CASE TimeoutHandler
  <2>1. /\ dispatcher' \in [at : {"select", "timeout", "handler"}, now : SUBSET Request,
                            request : Request \cup {None}]
        /\ dispatcher'.at # "handler"
    BY Zenon, <1>4 DEF TimeoutHandler
  <2>2. dispatcher.request \in registered /\ HandleFailed(dispatcher.request)
        /\ registered' = registered
    BY <1>4 DEF TimeoutHandler
  <2>3. /\ AnsweredOnce'
        /\ timedRequests' \subseteq registered /\ timeoutHeap' \subseteq registered
        /\ answers' \in [Request -> Nat]
    BY <2>2, HandleFailedKeeps
  <2> QED BY <1>4, <2>1, <2>2, <2>3 DEF TimeoutHandler, chainVars
<1>5. CASE TimeoutReturns
  <2>1. /\ dispatcher' \in [at : {"select", "timeout", "handler"}, now : SUBSET Request,
                            request : Request \cup {None}]
        /\ dispatcher'.at # "handler"
    BY Zenon, <1>5 DEF TimeoutReturns
  <2> QED BY <1>5, <2>1 DEF TimeoutReturns, chainVars, AnsweredOnce
<1> QED BY <1>1, <1>2, <1>3, <1>4, <1>5 DEF Dispatcher

\* Every step keeps the invariant.
LEMMA NextKeepsAnswers ==
  ASSUME AnswersInv, [Next]_vars
  PROVE  AnswersInv'
<1> USE DEF AnswersInv, RequestsOK
<1>1. CASE Dispatcher
  BY <1>1, DispatcherKeeps
<1>2. CASE \E c \in Chain : SetExecuting(c) \/ RemoveChain(c)
  BY <1>2 DEF SetExecuting, RemoveChain, timeoutVars, AnsweredOnce
<1>3. ASSUME NEW r \in Request, RegisterRequest(r)
      PROVE  AnswersInv'
  <2>1. answers[r] = 0 /\ r \notin registered
    BY <1>3 DEF RegisterRequest, AnsweredOnce
  <2> QED BY <1>3, <2>1 DEF RegisterRequest, chainVars, timeoutVars, AnsweredOnce
<1>4. ASSUME NEW r \in Request, SendRequest(r)
      PROVE  AnswersInv'
  BY <1>4 DEF SendRequest, chainVars, AnsweredOnce
<1>5. ASSUME NEW r \in Request, DeadlinePasses(r)
      PROVE  AnswersInv'
  BY <1>5 DEF DeadlinePasses, chainVars, AnsweredOnce
<1>6. ASSUME NEW r \in Request, HandleInbound(r)
      PROVE  AnswersInv'
  <2>1. /\ AnsweredOnce'
        /\ timedRequests' \subseteq registered /\ timeoutHeap' \subseteq registered
        /\ answers' \in [Request -> Nat]
    BY <1>6, ClearAndPushKeeps DEF HandleInbound
  <2> QED BY <1>6, <2>1 DEF HandleInbound, chainVars, timeoutVars
<1>7. ASSUME NEW r \in Request, HandleInternal(r)
      PROVE  AnswersInv'
  <2>1. /\ AnsweredOnce'
        /\ timedRequests' \subseteq registered /\ timeoutHeap' \subseteq registered
        /\ answers' \in [Request -> Nat]
    BY <1>7, HandleFailedKeeps DEF HandleInternal
  <2> QED BY <1>7, <2>1 DEF HandleInternal, chainVars, timeoutVars
<1>8. CASE Shutdown
  BY <1>8 DEF Shutdown, timeoutVars, AnsweredOnce
<1>9. CASE UNCHANGED vars
  BY <1>9 DEF vars, chainVars, timeoutVars, AnsweredOnce
<1> QED BY <1>1, <1>2, <1>3, <1>4, <1>5, <1>6, <1>7, <1>8, <1>9 DEF Next

\* However answers, timeouts and failures of the sender race, a chain gets exactly
\* one of them for a request (clearRequest in handleMessage).
THEOREM EveryRequestAnsweredOnce == Spec => []AnsweredOnce
<1>1. Init => AnswersInv
  BY DEF Init, AnswersInv, RequestsOK, AnsweredOnce
<1>2. AnswersInv /\ [Next]_vars => AnswersInv'
  BY NextKeepsAnswers
<1>3. AnswersInv => AnsweredOnce
  BY DEF AnswersInv
<1> QED BY <1>1, <1>2, <1>3, PTL DEF Spec

=============================================================================
