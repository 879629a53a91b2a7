----------------------------- MODULE RouterPeers -----------------------------
(***************************************************************************)
(* What the chains are told about the peers: the chain router with the     *)
(* benchlist of each chain.  A peer that fails to answer a chain often     *)
(* enough is benched, which all chains see as a disconnect, and unbenched  *)
(* by the goroutine of that benchlist some time later.                     *)
(*                                                                         *)
(* A step is what is done under the lock of the router or of a benchlist,  *)
(* which calls the router.  The network, the chains, the dispatcher of     *)
(* timeouts (RouterRequests) and the goroutines of the benchlists take     *)
(* them in any order.  Failures and answers come at any time.              *)
(***************************************************************************)
EXTENDS Integers, FiniteSetsExt

CONSTANTS
  Node, Chain, Subnet,
  PrimaryNetwork,   \* constants.PrimaryNetworkID
  PlatformChain,    \* the chain that is registered before there are peers
  SubnetOf,         \* SubnetOf[c]: the subnet of chain c
  Tracks,           \* Tracks[n]: the other subnets that both node n and we track
  Weight,           \* Weight[s][n]: the stake of node n on subnet s
  Threshold,        \* failures in a row before a node is benched
  MaxBenched,       \* MaxBenched[s]: maxPortion of the stake of subnet s
  MaxConnects,      \* bound: how often a peer connects
  None

ASSUME ChainsHaveSubnets ==
  /\ PrimaryNetwork \in Subnet /\ PlatformChain \in Chain
  /\ SubnetOf \in [Chain -> Subnet]
  /\ Tracks \in [Node -> SUBSET (Subnet \ {PrimaryNetwork})]
ASSUME BenchlistConfig ==
  /\ Weight \in [Subnet -> [Node -> Nat]] /\ MaxBenched \in [Subnet -> Nat]
  /\ Threshold \in Nat \ {0}
ASSUME NoneIsNoNode == None \notin Node

VARIABLES
  sybilProtectionEnabled,
  closing,
  chainHandlers,    \* the chains that are registered
  removed,          \* the chains that were, and have stopped
  trackedSubnets,   \* of the peers; empty for a node that is not one
  benched,          \* benched[n]: the chains the router knows n to be benched on
  told,             \* told[c][n]: Connected minus Disconnected that c was pushed
  link,             \* link[n]: how far network.Connected is, and how often it ran
  benchlistSet,     \* benchlistSet[c]: the nodes benched on chain c
  failureStreaks,
  expired,          \* expired[c]: the benched nodes whose time is over
  bencher           \* bencher[c]: where run() is, and its timer

chainVars == <<sybilProtectionEnabled, closing, chainHandlers, removed>>
benchVars == <<benchlistSet, failureStreaks, expired, bencher>>
vars == <<chainVars, trackedSubnets, benched, told, link, benchVars>>

Init ==
  /\ sybilProtectionEnabled \in BOOLEAN
  /\ closing = FALSE
  /\ chainHandlers = {PlatformChain} /\ removed = {}
  /\ trackedSubnets = [n \in Node |-> {}]
  /\ benched = [n \in Node |-> {}]
  /\ told = [c \in Chain |-> [n \in Node |-> 0]]
  /\ link = [n \in Node |-> [up |-> FALSE, left |-> {}, connects |-> 0]]
  /\ benchlistSet = [c \in Chain |-> {}]
  /\ failureStreaks = [c \in Chain |-> [n \in Node |-> 0]]
  /\ expired = [c \in Chain |-> {}]
  /\ bencher = [c \in Chain |-> [at |-> "select", resetTimer |-> FALSE, sleepFor |-> None]]

-----------------------------------------------------------------------------
(* The router.                                                             *)

IsPeer(n) == trackedSubnets[n] # {}

\* The chains that a node is on, given the subnets it tracks.
ChainsOf(subnets) ==
  {c \in chainHandlers : SubnetOf[c] \in subnets \/ ~sybilProtectionEnabled}

\* Push Connected (change = 1) or Disconnected (-1) of the nodes ns to their chains,
\* where subnets are those that count.
Push(ns, subnets(_), change) ==
  told' = [c \in Chain |-> [n \in Node |->
             IF n \in ns /\ c \in ChainsOf(subnets(n)) THEN told[c][n] + change
                                                       ELSE told[c][n]]]

\* AddChain registers the chain and tells it about the peers.
AddChain(c) ==
  /\ ~closing /\ c \notin chainHandlers \cup removed
  /\ chainHandlers' = chainHandlers \cup {c}
  /\ told' = [told EXCEPT ![c] = [n \in Node |->
       IF /\ IsPeer(n) /\ benched[n] = {}
          /\ SubnetOf[c] \in trackedSubnets[n] \/ ~sybilProtectionEnabled
       THEN @[n] + 1 ELSE @[n]]]
  /\ UNCHANGED <<sybilProtectionEnabled, closing, removed, trackedSubnets, benched, link,
                 benchVars>>

\* Connected, for subnet s.
Connected(n, s) ==
  /\ trackedSubnets' = [trackedSubnets EXCEPT ![n] = @ \cup {s}]
  /\ IF /\ benched[n] = {}
        /\ sybilProtectionEnabled \/ s = PrimaryNetwork
     THEN Push({n}, LAMBDA m : {s}, 1)
     ELSE UNCHANGED told

\* network.Connected: first the primary network, then the others one by one.
Connect(n) ==
  /\ ~closing /\ ~link[n].up /\ link[n].connects < MaxConnects
  /\ link' = [link EXCEPT ![n] = [up |-> TRUE, left |-> Tracks[n], connects |-> @.connects + 1]]
  /\ Connected(n, PrimaryNetwork)
  /\ UNCHANGED <<chainVars, benched, benchVars>>

ConnectSubnet(n, s) ==
  /\ ~closing /\ s \in link[n].left
  /\ link' = [link EXCEPT ![n].left = @ \ {s}]
  /\ Connected(n, s)
  /\ UNCHANGED <<chainVars, benched, benchVars>>

Disconnected(n) ==
  /\ ~closing /\ link[n].up /\ link[n].left = {}
  /\ link' = [link EXCEPT ![n].up = FALSE]
  /\ trackedSubnets' = [trackedSubnets EXCEPT ![n] = {}]
  /\ IF benched[n] = {}
     THEN Push({n}, LAMBDA m : trackedSubnets[m], -1)
     ELSE UNCHANGED told
  /\ UNCHANGED <<chainVars, benched, benchVars>>

\* Benched and Unbenched are called by the benchlist of chain c.  They return at
\* once when the router is closing.
Benched(c, n) ==
  IF closing THEN UNCHANGED <<benched, told>>
  ELSE /\ benched' = [benched EXCEPT ![n] = @ \cup {c}]
       /\ IF benched[n] = {} /\ IsPeer(n)
          THEN Push({n}, LAMBDA m : trackedSubnets[m], -1)
          ELSE UNCHANGED told

\* Bug: the node is connected again although another chain still benches it.
UnbenchedAtOnce(c, ns) ==
  IF closing THEN UNCHANGED <<benched, told>>
  ELSE /\ benched' = [n \in Node |-> IF n \in ns THEN benched[n] \ {c} ELSE benched[n]]
       /\ Push({n \in ns : IsPeer(n)}, LAMBDA m : trackedSubnets[m], 1)

\* The calls for all the nodes that removedExpiredNodes finds.
Unbenched(c, ns) ==
  IF closing THEN UNCHANGED <<benched, told>>
  ELSE /\ benched' = [n \in Node |-> IF n \in ns THEN benched[n] \ {c} ELSE benched[n]]
       /\ Push({n \in ns : benched[n] \subseteq {c} /\ IsPeer(n)},
               LAMBDA m : trackedSubnets[m], 1)

\* removeChain, when a chain has stopped.
RemoveChain(c) ==
  /\ c \in chainHandlers
  /\ chainHandlers' = chainHandlers \ {c} /\ removed' = removed \cup {c}
  /\ UNCHANGED <<sybilProtectionEnabled, closing, trackedSubnets, benched, told, link,
                 benchVars>>

Shutdown ==
  /\ ~closing /\ closing' = TRUE
  /\ removed' = removed \cup chainHandlers /\ chainHandlers' = {}
  /\ UNCHANGED <<sybilProtectionEnabled, trackedSubnets, benched, told, link, benchVars>>

-----------------------------------------------------------------------------
(* The benchlists.                                                         *)

\* SubsetWeight
SubsetWeight(s, nodes) == MapThenSumSet(LAMBDA n : Weight[s][n], nodes)

\* bench refuses nodes without stake, and more benched stake than allowed.
MayBench(c, n) ==
  LET s == SubnetOf[c]
  IN  /\ Weight[s][n] > 0
      /\ SubsetWeight(s, benchlistSet[c]) + Weight[s][n] <= MaxBenched[s]

\* Bug: run() is not told of the new node.
NotifiesNobody(c) == UNCHANGED bencher

\* The channel resetTimer holds one message, and bench does not wait to send.
Notify(c) == bencher' = [bencher EXCEPT ![c].resetTimer = TRUE]

\* RegisterFailure and bench; long says whether the failures have gone on for
\* minimumFailingDuration.  A streak is counted no further than it matters.
RegisterFailure(c, n) ==
  /\ n \notin benchlistSet[c]
  /\ \E long \in BOOLEAN :
       LET consecutive == failureStreaks[c][n] + 1
       IN  IF consecutive >= Threshold /\ long /\ MayBench(c, n)
           THEN /\ benchlistSet' = [benchlistSet EXCEPT ![c] = @ \cup {n}]
                /\ Benched(c, n)
                /\ failureStreaks' = [failureStreaks EXCEPT ![c][n] = 0]
                /\ Notify(c)
           ELSE /\ failureStreaks' = [failureStreaks EXCEPT ![c][n] =
                     IF consecutive < Threshold THEN consecutive ELSE @]
                /\ UNCHANGED <<benched, told, benchlistSet, bencher>>
  /\ UNCHANGED <<chainVars, trackedSubnets, link, expired>>

RegisterResponse(c, n) ==
  /\ failureStreaks' = [failureStreaks EXCEPT ![c][n] = 0]
  /\ UNCHANGED <<chainVars, trackedSubnets, benched, told, link, benchlistSet, expired, bencher>>

BenchTimePasses(c, n) ==
  /\ n \in benchlistSet[c] \ expired[c]
  /\ expired' = [expired EXCEPT ![c] = @ \cup {n}]
  /\ UNCHANGED <<chainVars, trackedSubnets, benched, told, link, benchlistSet,
                 failureStreaks, bencher>>

\* The select of run(): the timer fires, or bench asks for a new one.
BencherWakes(c) ==
  /\ bencher[c].at = "select"
  /\ \/ /\ bencher[c].sleepFor \in expired[c] \cup {None}
        /\ bencher' = [bencher EXCEPT ![c].at = "wait"]
     \/ /\ bencher[c].resetTimer
        /\ bencher' = [bencher EXCEPT ![c].at = "wait", ![c].resetTimer = FALSE]
  /\ UNCHANGED <<chainVars, trackedSubnets, benched, told, link, benchlistSet,
                 failureStreaks, expired>>

\* waitForBenchedNodes looks for a benched node and gives up the lock; having seen
\* none, it receives from the channel, whatever is benched by then, and looks again.
BencherLooks(c) ==
  /\ bencher[c].at = "wait"
  /\ bencher' = [bencher EXCEPT ![c].at = IF benchlistSet[c] = {} THEN "receive" ELSE "remove"]
  /\ UNCHANGED <<chainVars, trackedSubnets, benched, told, link, benchlistSet,
                 failureStreaks, expired>>

BencherReceives(c) ==
  /\ bencher[c].at = "receive" /\ bencher[c].resetTimer
  /\ bencher' = [bencher EXCEPT ![c].at = "wait", ![c].resetTimer = FALSE]
  /\ UNCHANGED <<chainVars, trackedSubnets, benched, told, link, benchlistSet,
                 failureStreaks, expired>>

RemovedExpiredNodes(c) ==
  /\ bencher[c].at = "remove"
  /\ bencher' = [bencher EXCEPT ![c].at = "sleep"]
  /\ benchlistSet' = [benchlistSet EXCEPT ![c] = @ \ expired[c]]
  /\ expired' = [expired EXCEPT ![c] = {}]
  /\ Unbenched(c, expired[c])
  /\ UNCHANGED <<chainVars, trackedSubnets, link, failureStreaks>>

\* durationToSleep: until the first of the benched nodes, or not at all.
DurationToSleep(c) ==
  /\ bencher[c].at = "sleep"
  /\ \E n \in IF benchlistSet[c] = {} THEN {None}
              ELSE IF expired[c] # {} THEN expired[c] ELSE benchlistSet[c] :
       bencher' = [bencher EXCEPT ![c] = [@ EXCEPT !.at = "select", !.sleepFor = n]]
  /\ UNCHANGED <<chainVars, trackedSubnets, benched, told, link, benchlistSet,
                 failureStreaks, expired>>

-----------------------------------------------------------------------------

\* run()
Bencher(c) ==
  \/ BencherWakes(c) \/ BencherLooks(c) \/ BencherReceives(c)
  \/ RemovedExpiredNodes(c) \/ DurationToSleep(c)

Next ==
  \/ \E c \in Chain : \/ AddChain(c) \/ RemoveChain(c) \/ Bencher(c)
                      \/ \E n \in Node : \/ RegisterFailure(c, n) \/ RegisterResponse(c, n)
                                         \/ BenchTimePasses(c, n)
  \/ \E n \in Node : \/ Connect(n) \/ Disconnected(n)
                     \/ \E s \in Subnet : ConnectSubnet(n, s)
  \/ Shutdown

Spec == Init /\ [][Next]_vars

\* Goroutines are scheduled and time goes on.
FairSpec ==
  /\ Spec
  /\ \A c \in Chain : WF_vars(Bencher(c)) /\ \A n \in Node : WF_vars(BenchTimePasses(c, n))

-----------------------------------------------------------------------------
(* Properties.                                                             *)

\* A chain has been told of a node as often as of its going, or once more if the
\* node is there: connected, on the subnet of the chain, and benched on no chain
\* at all ("If this validator is benched on any chain, treat them as disconnected
\* on all chains").
ToldWhoIsThere ==
  \A c \in chainHandlers, n \in Node :
    told[c][n] = IF /\ IsPeer(n)
                    /\ SubnetOf[c] \in trackedSubnets[n] \/ ~sybilProtectionEnabled
                    /\ \A d \in Chain : n \notin benchlistSet[d]
                 THEN 1 ELSE 0

\* No node stays benched: run() does not miss a node that is benched after it has
\* looked and before it receives, while it removes others, or while it computes
\* how long to sleep, and waits for no message that does not come ("Whenever a new
\* node is benched we ensure that resetTimer has a pending message while the write
\* lock is held").
EveryBenchEnds ==
  \A c \in Chain, n \in Node : n \in benchlistSet[c] ~> n \notin benchlistSet[c]

=============================================================================
