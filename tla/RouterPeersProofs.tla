-------------------------- MODULE RouterPeersProofs --------------------------
(***************************************************************************)
(* That the chains know exactly who is there, for every set of nodes,      *)
(* chains and subnets.  The invariant adds what the steps rely on: until   *)
(* the router closes, it knows the benches of all benchlists; Connected    *)
(* comes once for each subnet, the primary network first; and a chain that *)
(* is not registered yet has been told nothing.                            *)
(*                                                                         *)
(* And that run() of a benchlist is never without a reason to wake up.     *)
(***************************************************************************)
EXTENDS RouterPeers, TLAPS

\* Leaves are for the SMT solver, with more time than the default, unless they
\* name another prover.
USE SMTT(30)

TypeOK ==
  /\ sybilProtectionEnabled \in BOOLEAN /\ closing \in BOOLEAN
  /\ chainHandlers \subseteq Chain /\ removed \subseteq Chain
  /\ trackedSubnets \in [Node -> SUBSET Subnet]
  /\ benched \in [Node -> SUBSET Chain]
  /\ told \in [Chain -> [Node -> Int]]
  /\ link \in [Node -> [up : BOOLEAN, left : SUBSET Subnet, connects : Nat]]
  /\ benchlistSet \in [Chain -> SUBSET Node]
  /\ expired \in [Chain -> SUBSET Node]

\* The router knows the benches, as long as it listens.
BenchesKnown ==
  /\ ~closing => \A c \in Chain, n \in Node : c \in benched[n] <=> n \in benchlistSet[c]
  /\ closing => chainHandlers = {}

\* What Connected was called for.
LinksTracked ==
  \A n \in Node :
    /\ link[n].up <=> IsPeer(n)
    /\ link[n].left \cap trackedSubnets[n] = {}
    /\ PrimaryNetwork \notin link[n].left
    /\ ~link[n].up => link[n].left = {}

\* What a chain should know.
There(c, n) ==
  /\ IsPeer(n) /\ benched[n] = {}
  /\ SubnetOf[c] \in trackedSubnets[n] \/ ~sybilProtectionEnabled

Told ==
  \A c \in Chain, n \in Node :
    /\ c \in chainHandlers => told[c][n] = IF There(c, n) THEN 1 ELSE 0
    /\ c \notin chainHandlers \cup removed => told[c][n] = 0

PeersInv == TypeOK /\ BenchesKnown /\ LinksTracked /\ Told

-----------------------------------------------------------------------------

\* The invariant says what the chains are told in terms of the benchlists.
LEMMA InvIsToldWhoIsThere == PeersInv => ToldWhoIsThere
<1> SUFFICES ASSUME PeersInv, NEW c \in chainHandlers, NEW n \in Node
             PROVE  told[c][n] = IF /\ IsPeer(n)
                                    /\ SubnetOf[c] \in trackedSubnets[n]
                                         \/ ~sybilProtectionEnabled
                                    /\ \A d \in Chain : n \notin benchlistSet[d]
                                 THEN 1 ELSE 0
  BY DEF ToldWhoIsThere
<1>1. c \in Chain /\ ~closing
  BY DEF PeersInv, TypeOK, BenchesKnown
<1>2. benched[n] = {} <=> \A d \in Chain : n \notin benchlistSet[d]
  BY <1>1 DEF PeersInv, TypeOK, BenchesKnown
<1> QED BY <1>1, <1>2 DEF PeersInv, Told, There

\* AddChain and removal of chains.
LEMMA ChainsKeepPeers ==
  ASSUME PeersInv, NEW c \in Chain, AddChain(c) \/ RemoveChain(c)
  PROVE  PeersInv'
<1>1. CASE AddChain(c)
  <2> USE <1>1 DEF AddChain, PeersInv
  <2>1. TypeOK' BY DEF TypeOK, benchVars
  <2>2. BenchesKnown' BY DEF BenchesKnown, benchVars
  <2>3. LinksTracked' BY DEF LinksTracked, IsPeer
  <2>4. ASSUME NEW d \in Chain, NEW n \in Node
        PROVE  /\ d \in chainHandlers' => told'[d][n] = IF There(d, n)' THEN 1 ELSE 0
               /\ d \notin chainHandlers' \cup removed' => told'[d][n] = 0
    <3>1. There(d, n)' = There(d, n)
      BY DEF There, IsPeer
    <3>2. CASE d = c
      <4>1. told[c][n] = 0
        BY DEF Told
      <4> QED BY <3>1, <3>2, <4>1 DEF There, TypeOK
    <3>3. CASE d # c
      BY <3>1, <3>3 DEF Told, TypeOK
    <3> QED BY <3>2, <3>3
  <2> QED BY <2>1, <2>2, <2>3, <2>4 DEF Told
<1>2. CASE RemoveChain(c)
  BY <1>2 DEF RemoveChain, PeersInv, TypeOK, BenchesKnown, LinksTracked, Told, There,
              IsPeer, benchVars
<1> QED BY <1>1, <1>2

\* Connected for one subnet that is new: the first one is the primary network.
LEMMA ConnectedTells ==
  ASSUME PeersInv, ~closing, NEW m \in Node, NEW s \in Subnet, Connected(m, s),
         s \notin trackedSubnets[m],
         ~IsPeer(m) <=> s = PrimaryNetwork,
         UNCHANGED <<chainVars, benched>>
  PROVE  /\ told' \in [Chain -> [Node -> Int]]
         /\ trackedSubnets' \in [Node -> SUBSET Subnet]
         /\ trackedSubnets'[m] = trackedSubnets[m] \cup {s}
         /\ \A n \in Node : n # m => trackedSubnets'[n] = trackedSubnets[n]
         /\ Told'
<1> USE DEF PeersInv, TypeOK
<1>1. /\ trackedSubnets' = [trackedSubnets EXCEPT ![m] = @ \cup {s}]
      /\ trackedSubnets' \in [Node -> SUBSET Subnet]
      /\ trackedSubnets'[m] = trackedSubnets[m] \cup {s}
      /\ \A n \in Node : n # m => trackedSubnets'[n] = trackedSubnets[n]
  BY Zenon DEF Connected
<1>2. /\ told' \in [Chain -> [Node -> Int]]
      /\ \A c \in Chain, n \in Node : told'[c][n] =
           IF /\ n = m /\ benched[m] = {} /\ (sybilProtectionEnabled \/ s = PrimaryNetwork)
              /\ c \in chainHandlers /\ (SubnetOf[c] = s \/ ~sybilProtectionEnabled)
           THEN told[c][n] + 1 ELSE told[c][n]
  BY DEF Connected, Push, ChainsOf
<1>3. ASSUME NEW c \in Chain, NEW n \in Node
      PROVE  /\ c \in chainHandlers' => told'[c][n] = IF There(c, n)' THEN 1 ELSE 0
             /\ c \notin chainHandlers' \cup removed' => told'[c][n] = 0
  <2>1. CASE n # m
    BY <1>1, <1>2, <2>1 DEF Told, There, IsPeer, chainVars
  <2>2. CASE n = m
    <3>1. c \notin chainHandlers => told'[c][n] = told[c][n]
      BY <1>2
    <3>2. IsPeer(n)'
      BY <1>1, <2>2 DEF IsPeer
    <3>3. CASE c \in chainHandlers
      <4>1. told[c][n] = IF There(c, n) THEN 1 ELSE 0
        BY <3>3 DEF Told
      <4>2. There(c, n)' <=> /\ benched[n] = {}
                             /\ \/ SubnetOf[c] \in trackedSubnets[n] \/ SubnetOf[c] = s
                                \/ ~sybilProtectionEnabled
        BY <3>2, <1>1, <2>2 DEF There, chainVars
      <4>3. CASE sybilProtectionEnabled
        <5>1. There(c, n) <=> benched[n] = {} /\ SubnetOf[c] \in trackedSubnets[n]
          BY <4>3 DEF There, IsPeer
        <5>2. SubnetOf[c] = s => ~There(c, n)
          BY <5>1, <2>2
        <5> QED BY <1>2, <2>2, <3>3, <4>1, <4>2, <4>3, <5>1, <5>2 DEF chainVars
      <4>4. CASE ~sybilProtectionEnabled
        <5>1. There(c, n) <=> benched[n] = {} /\ s # PrimaryNetwork
          BY <4>4, <2>2 DEF There
        <5> QED BY <1>2, <2>2, <3>3, <4>1, <4>2, <4>4, <5>1 DEF chainVars
      <4> QED BY <4>3, <4>4
    <3> QED BY <3>1, <3>3 DEF Told, chainVars
  <2> QED BY <2>1, <2>2
<1> QED BY <1>1, <1>2, <1>3 DEF Told

\* The calls of the network.
LEMMA NetworkKeepsPeers ==
  ASSUME PeersInv, NEW m \in Node,
         Connect(m) \/ Disconnected(m) \/ \E s \in Subnet : ConnectSubnet(m, s)
  PROVE  PeersInv'
<1> USE DEF PeersInv, TypeOK
<1>1. CASE Connect(m)
  <2>1. ~IsPeer(m) /\ trackedSubnets[m] = {} /\ PrimaryNetwork \in Subnet
    BY <1>1, ChainsHaveSubnets DEF Connect, LinksTracked, IsPeer
  <2>2. /\ told' \in [Chain -> [Node -> Int]]
        /\ trackedSubnets' \in [Node -> SUBSET Subnet]
        /\ trackedSubnets'[m] = {PrimaryNetwork}
        /\ \A n \in Node : n # m => trackedSubnets'[n] = trackedSubnets[n]
        /\ Told'
    BY <1>1, <2>1, ConnectedTells DEF Connect
  <2>3. Tracks[m] \in SUBSET (Subnet \ {PrimaryNetwork})
    BY ChainsHaveSubnets
  <2>4. link' \in [Node -> [up : BOOLEAN, left : SUBSET Subnet, connects : Nat]]
    BY <1>1, <2>3 DEF Connect
  <2>5. LinksTracked'
    BY Zenon, <1>1, <2>2, <2>3 DEF Connect, LinksTracked, IsPeer
  <2> QED BY <1>1, <2>2, <2>4, <2>5 DEF Connect, chainVars, benchVars, BenchesKnown
<1>2. ASSUME NEW s \in Subnet, ConnectSubnet(m, s)
      PROVE  PeersInv'
  <2>1. IsPeer(m) /\ s \notin trackedSubnets[m] /\ s # PrimaryNetwork
    BY <1>2 DEF ConnectSubnet, LinksTracked
  <2>2. /\ told' \in [Chain -> [Node -> Int]]
        /\ trackedSubnets' \in [Node -> SUBSET Subnet]
        /\ trackedSubnets'[m] = trackedSubnets[m] \cup {s}
        /\ \A n \in Node : n # m => trackedSubnets'[n] = trackedSubnets[n]
        /\ Told'
    BY <1>2, <2>1, ConnectedTells DEF ConnectSubnet
  <2>3. /\ link' \in [Node -> [up : BOOLEAN, left : SUBSET Subnet, connects : Nat]]
        /\ link'[m].left = link[m].left \ {s} /\ link'[m].up = link[m].up
        /\ \A n \in Node : n # m => link'[n] = link[n]
    BY <1>2 DEF ConnectSubnet
  <2>4. LinksTracked'
    BY <2>1, <2>2, <2>3 DEF LinksTracked, IsPeer
  <2> QED BY <1>2, <2>2, <2>3, <2>4 DEF ConnectSubnet, chainVars, benchVars, BenchesKnown
<1>3. CASE Disconnected(m)
  <2>1. /\ trackedSubnets' \in [Node -> SUBSET Subnet]
        /\ trackedSubnets'[m] = {}
        /\ \A n \in Node : n # m => trackedSubnets'[n] = trackedSubnets[n]
    BY <1>3 DEF Disconnected
  <2>2. /\ link' \in [Node -> [up : BOOLEAN, left : SUBSET Subnet, connects : Nat]]
        /\ link'[m].left = {} /\ ~link'[m].up
        /\ \A n \in Node : n # m => link'[n] = link[n]
    BY Zenon, <1>3 DEF Disconnected
  <2>3. LinksTracked'
    BY <2>1, <2>2 DEF LinksTracked, IsPeer
  <2>4. /\ told' \in [Chain -> [Node -> Int]]
        /\ \A c \in Chain, n \in Node : told'[c][n] =
             IF /\ n = m /\ benched[m] = {} /\ c \in chainHandlers
                /\ (SubnetOf[c] \in trackedSubnets[m] \/ ~sybilProtectionEnabled)
             THEN told[c][n] - 1 ELSE told[c][n]
    BY <1>3 DEF Disconnected, Push, ChainsOf
  <2>5. ASSUME NEW c \in Chain, NEW n \in Node
        PROVE  /\ c \in chainHandlers' => told'[c][n] = IF There(c, n)' THEN 1 ELSE 0
               /\ c \notin chainHandlers' \cup removed' => told'[c][n] = 0
    <3>1. CASE n # m
      BY <1>3, <2>1, <2>4, <3>1 DEF Disconnected, Told, There, IsPeer, chainVars
    <3>2. CASE n = m
      <4>1. ~There(c, n)' /\ IsPeer(n)
        BY <1>3, <2>1, <3>2 DEF Disconnected, There, IsPeer, LinksTracked
      <4>2. CASE c \in chainHandlers
        BY <1>3, <2>4, <3>2, <4>1, <4>2 DEF Disconnected, Told, There, chainVars
      <4>3. CASE c \notin chainHandlers
        BY <1>3, <2>4, <3>2, <4>1, <4>3 DEF Disconnected, Told, chainVars
      <4> QED BY <4>2, <4>3
    <3> QED BY <3>1, <3>2
  <2>6. Told' BY <2>5 DEF Told
  <2> QED BY <1>3, <2>1, <2>2, <2>3, <2>4, <2>6 DEF Disconnected, chainVars, benchVars, BenchesKnown
<1> QED BY <1>1, <1>2, <1>3

\* Benched, called by bench for a node that is not benched on that chain.
LEMMA BenchedTells ==
  ASSUME PeersInv, NEW c \in Chain, NEW m \in Node, Benched(c, m),
         m \notin benchlistSet[c],
         benchlistSet' = [benchlistSet EXCEPT ![c] = @ \cup {m}],
         UNCHANGED <<chainVars, trackedSubnets, link, expired>>
  PROVE  PeersInv'
<1> USE DEF PeersInv, TypeOK
<1>1. benchlistSet' \in [Chain -> SUBSET Node]
  OBVIOUS
<1>2. LinksTracked'
  BY DEF LinksTracked, IsPeer
<1>3. CASE closing
  BY <1>1, <1>2, <1>3 DEF Benched, chainVars, BenchesKnown, Told, There, IsPeer
<1>4. CASE ~closing
  <2>1. /\ benched' \in [Node -> SUBSET Chain]
        /\ benched'[m] = benched[m] \cup {c}
        /\ \A n \in Node : n # m => benched'[n] = benched[n]
    BY <1>4 DEF Benched
  <2>2. BenchesKnown'
    BY <1>4, <2>1 DEF BenchesKnown, chainVars
  <2>3. /\ told' \in [Chain -> [Node -> Int]]
        /\ \A d \in Chain, n \in Node : told'[d][n] =
             IF /\ n = m /\ benched[m] = {} /\ IsPeer(m) /\ d \in chainHandlers
                /\ (SubnetOf[d] \in trackedSubnets[m] \/ ~sybilProtectionEnabled)
             THEN told[d][n] - 1 ELSE told[d][n]
    BY <1>4 DEF Benched, Push, ChainsOf
  <2>4. ASSUME NEW d \in Chain, NEW n \in Node
        PROVE  /\ d \in chainHandlers' => told'[d][n] = IF There(d, n)' THEN 1 ELSE 0
               /\ d \notin chainHandlers' \cup removed' => told'[d][n] = 0
    <3>1. CASE n # m
      BY <2>1, <2>3, <3>1 DEF Told, There, IsPeer, chainVars
    <3>2. CASE n = m
      <4>1. ~There(d, n)'
        BY Zenon, <2>1, <3>2 DEF There
      <4>2. CASE d \in chainHandlers
        BY <2>3, <3>2, <4>1, <4>2 DEF Told, There, chainVars
      <4>3. CASE d \notin chainHandlers
        BY <2>3, <4>3 DEF Told, chainVars
      <4> QED BY <4>2, <4>3
    <3> QED BY <3>1, <3>2
  <2>5. Told' BY <2>4 DEF Told
  <2> QED BY <1>1, <1>2, <2>1, <2>2, <2>3, <2>5 DEF chainVars
<1> QED BY <1>3, <1>4

\* Unbenched, called by removedExpiredNodes for nodes that leave the benchlist.
LEMMA UnbenchedTells ==
  ASSUME PeersInv, NEW c \in Chain, RemovedExpiredNodes(c), expired[c] \subseteq benchlistSet[c]
  PROVE  PeersInv'
<1> DEFINE ns == expired[c]
<1> USE DEF PeersInv, TypeOK
<1>1. /\ benchlistSet' \in [Chain -> SUBSET Node] /\ expired' \in [Chain -> SUBSET Node]
      /\ benchlistSet'[c] = benchlistSet[c] \ ns
      /\ \A d \in Chain : d # c => benchlistSet'[d] = benchlistSet[d]
  BY DEF RemovedExpiredNodes
<1>2. LinksTracked'
  BY DEF RemovedExpiredNodes, LinksTracked, IsPeer
<1>3. CASE closing
  BY <1>1, <1>2, <1>3 DEF RemovedExpiredNodes, Unbenched, chainVars, BenchesKnown, Told,
                          There, IsPeer
<1>4. CASE ~closing
  <2>1. /\ benched' \in [Node -> SUBSET Chain]
        /\ \A n \in Node : benched'[n] = IF n \in ns THEN benched[n] \ {c} ELSE benched[n]
    BY <1>4 DEF RemovedExpiredNodes, Unbenched
  <2>2. BenchesKnown'
    BY <1>1, <1>4, <2>1 DEF RemovedExpiredNodes, BenchesKnown, chainVars
  <2>3. /\ told' \in [Chain -> [Node -> Int]]
        /\ \A d \in Chain, n \in Node : told'[d][n] =
             IF /\ n \in ns /\ benched[n] \subseteq {c} /\ IsPeer(n) /\ d \in chainHandlers
                /\ (SubnetOf[d] \in trackedSubnets[n] \/ ~sybilProtectionEnabled)
             THEN told[d][n] + 1 ELSE told[d][n]
    BY <1>4 DEF RemovedExpiredNodes, Unbenched, Push, ChainsOf
  <2>4. ASSUME NEW d \in Chain, NEW n \in Node
        PROVE  /\ d \in chainHandlers' => told'[d][n] = IF There(d, n)' THEN 1 ELSE 0
               /\ d \notin chainHandlers' \cup removed' => told'[d][n] = 0
    <3>1. /\ IsPeer(n)' = IsPeer(n) /\ trackedSubnets' = trackedSubnets
          /\ sybilProtectionEnabled' = sybilProtectionEnabled
          /\ chainHandlers' = chainHandlers /\ removed' = removed
      BY DEF RemovedExpiredNodes, IsPeer, chainVars
    <3>2. CASE n \notin ns
      BY <2>1, <2>3, <3>1, <3>2 DEF Told, There
    <3>3. CASE n \in ns
      <4>1. benched[n] # {} /\ ~There(d, n)
        BY <1>4, <3>3 DEF BenchesKnown, There
      <4>2. benched'[n] = {} <=> benched[n] \subseteq {c}
        BY <2>1, <3>3
      <4>3. CASE d \in chainHandlers
        <5>1. told[d][n] = 0
          BY <4>1, <4>3 DEF Told
        <5> QED BY <2>3, <3>1, <3>3, <4>2, <4>3, <5>1 DEF There
      <4>4. CASE d \notin chainHandlers
        BY <2>3, <3>1, <4>4 DEF Told
      <4> QED BY <4>3, <4>4
    <3> QED BY <3>2, <3>3
  <2>5. Told' BY <2>4 DEF Told
  <2> QED BY <1>1, <1>2, <2>1, <2>2, <2>3, <2>5 DEF RemovedExpiredNodes, chainVars
<1> QED BY <1>3, <1>4

\* Only benched nodes can be over their time.
ExpiredAreBenched == \A c \in Chain : expired[c] \subseteq benchlistSet[c]

FullInv == PeersInv /\ ExpiredAreBenched

\* Steps that touch neither the router nor who is benched.
LEMMA OthersKeepPeers ==
  ASSUME PeersInv,
         UNCHANGED <<chainVars, trackedSubnets, benched, told, link, benchlistSet>>,
         expired' \in [Chain -> SUBSET Node]
  PROVE  PeersInv'
BY DEF PeersInv, TypeOK, BenchesKnown, LinksTracked, Told, There, IsPeer, chainVars

\* Every step keeps the invariant.
LEMMA NextKeepsPeers ==
  ASSUME FullInv, [Next]_vars
  PROVE  FullInv'
<1> USE DEF FullInv
<1>1. ASSUME NEW c \in Chain, AddChain(c) \/ RemoveChain(c)
      PROVE  FullInv'
  BY <1>1, ChainsKeepPeers DEF AddChain, RemoveChain, benchVars, ExpiredAreBenched
<1>2. ASSUME NEW n \in Node, Connect(n) \/ Disconnected(n) \/ \E s \in Subnet : ConnectSubnet(n, s)
      PROVE  FullInv'
  BY Zenon, <1>2, NetworkKeepsPeers
     DEF Connect, Disconnected, ConnectSubnet, benchVars, ExpiredAreBenched
<1>3. ASSUME NEW c \in Chain, NEW n \in Node, RegisterFailure(c, n)
      PROVE  FullInv'
  <2>1. \/ /\ benchlistSet' = [benchlistSet EXCEPT ![c] = @ \cup {n}]
           /\ Benched(c, n)
        \/ UNCHANGED <<benched, told, benchlistSet>>
    BY <1>3 DEF RegisterFailure
  <2>2. /\ n \notin benchlistSet[c]
        /\ UNCHANGED <<chainVars, trackedSubnets, link, expired>>
    BY <1>3 DEF RegisterFailure
  <2>3. CASE /\ benchlistSet' = [benchlistSet EXCEPT ![c] = @ \cup {n}]
             /\ Benched(c, n)
    <3>1. PeersInv'
      BY Zenon, <2>2, <2>3, BenchedTells
    <3> QED BY <2>2, <2>3, <3>1 DEF ExpiredAreBenched, PeersInv, TypeOK
  <2>4. CASE UNCHANGED <<benched, told, benchlistSet>>
    BY <2>2, <2>4, OthersKeepPeers DEF ExpiredAreBenched, PeersInv, TypeOK
  <2> QED BY <2>1, <2>3, <2>4
<1>4. ASSUME NEW c \in Chain, NEW n \in Node, RegisterResponse(c, n)
      PROVE  FullInv'
  BY <1>4, OthersKeepPeers DEF RegisterResponse, ExpiredAreBenched, PeersInv, TypeOK
<1>5. ASSUME NEW c \in Chain, NEW n \in Node, BenchTimePasses(c, n)
      PROVE  FullInv'
  BY <1>5, OthersKeepPeers DEF BenchTimePasses, ExpiredAreBenched, PeersInv, TypeOK
<1>6. ASSUME NEW c \in Chain,
             BencherWakes(c) \/ BencherLooks(c) \/ BencherReceives(c) \/ DurationToSleep(c)
      PROVE  FullInv'
  <2>1. UNCHANGED <<chainVars, trackedSubnets, benched, told, link, benchlistSet, expired>>
    BY Zenon, <1>6 DEF BencherWakes, BencherLooks, BencherReceives, DurationToSleep
  <2> QED BY <2>1, OthersKeepPeers DEF ExpiredAreBenched, PeersInv, TypeOK
<1>7. ASSUME NEW c \in Chain, RemovedExpiredNodes(c)
      PROVE  FullInv'
  <2>1. PeersInv'
    BY <1>7, UnbenchedTells DEF ExpiredAreBenched
  <2>2. ExpiredAreBenched'
    BY <1>7 DEF RemovedExpiredNodes, ExpiredAreBenched, PeersInv, TypeOK
  <2> QED BY <2>1, <2>2
<1>8. CASE Shutdown
  BY <1>8 DEF Shutdown, PeersInv, TypeOK, BenchesKnown, LinksTracked, Told, There, IsPeer,
              benchVars, ExpiredAreBenched
<1>9. CASE UNCHANGED vars
  BY <1>9, OthersKeepPeers DEF vars, benchVars, ExpiredAreBenched, PeersInv, TypeOK
<1> QED BY <1>1, <1>2, <1>3, <1>4, <1>5, <1>6, <1>7, <1>8, <1>9 DEF Next, Bencher

\* However benches, connections and chains come and go, each registered chain has
\* been pushed one Connected more than Disconnected for exactly the nodes that are
\* there and benched nowhere (Connected, Disconnected, Benched, Unbenched, AddChain).
THEOREM ChainsKnowWhoIsThere == Spec => []ToldWhoIsThere
<1>1. Init => FullInv
  <2> SUFFICES ASSUME Init PROVE FullInv
    OBVIOUS
  <2>1. TypeOK
    <3>1. link \in [Node -> [up : BOOLEAN, left : SUBSET Subnet, connects : Nat]]
      BY DEF Init
    <3>2. told \in [Chain -> [Node -> Int]]
      BY DEF Init
    <3> QED BY Zenon, <3>1, <3>2, ChainsHaveSubnets DEF Init, TypeOK
  <2>2. BenchesKnown /\ LinksTracked /\ ExpiredAreBenched
    BY DEF Init, BenchesKnown, LinksTracked, IsPeer, ExpiredAreBenched
  <2>3. Told
    BY DEF Init, Told, There, IsPeer
  <2> QED BY <2>1, <2>2, <2>3 DEF FullInv, PeersInv
<1>2. FullInv /\ [Next]_vars => FullInv'
  BY NextKeepsPeers
<1>3. FullInv => ToldWhoIsThere
  BY InvIsToldWhoIsThere DEF FullInv
<1> QED BY <1>1, <1>2, <1>3, PTL DEF Spec

-----------------------------------------------------------------------------
(* The wake-ups of run().                                                  *)

BencherStates ==
  [at : {"select", "wait", "receive", "remove", "sleep"},
   resetTimer : BOOLEAN, sleepFor : Node \cup {None}]

BencherType ==
  /\ benchlistSet \in [Chain -> SUBSET Node] /\ expired \in [Chain -> SUBSET Node]
  /\ bencher \in [Chain -> BencherStates]

WokenFor(c) ==
  benchlistSet[c] # {} =>
    /\ bencher[c].at = "receive" => bencher[c].resetTimer
    /\ bencher[c].at = "select" =>
         bencher[c].resetTimer \/ bencher[c].sleepFor \in benchlistSet[c] \cup {None}

\* While a node is benched, run() blocks only with a message in resetTimer or, in
\* its select, with a timer that is set for a node that is still benched.
WakeUpPending == \A c \in Chain : WokenFor(c)

WakeInv == BencherType /\ ExpiredAreBenched /\ WakeUpPending

\* What Notify and durationToSleep write is a state of run().
LEMMA StatesOfRun ==
  ASSUME NEW r \in BencherStates, NEW n \in Node \cup {None}
  PROVE  /\ [r EXCEPT !.resetTimer = TRUE] \in BencherStates
         /\ [r EXCEPT !.at = "select", !.sleepFor = n] \in BencherStates
BY ZenonT(20) DEF BencherStates

\* bench adds to the benchlist and notifies run(), or does neither.
LEMMA BenchNotifies ==
  ASSUME WakeInv, NEW c \in Chain, NEW n \in Node, RegisterFailure(c, n)
  PROVE  WakeInv'
<1> USE DEF WakeInv
<1>1. \/ /\ benchlistSet' = [benchlistSet EXCEPT ![c] = @ \cup {n}]
         /\ bencher' = [bencher EXCEPT ![c].resetTimer = TRUE]
      \/ UNCHANGED <<benchlistSet, bencher>>
  BY DEF RegisterFailure, Notify
<1>2. UNCHANGED expired
  BY DEF RegisterFailure
<1>3. bencher' \in [Chain -> BencherStates]
  <2>1. [bencher[c] EXCEPT !.resetTimer = TRUE] \in BencherStates
    BY Zenon, NoneIsNoNode, StatesOfRun DEF BencherType
  <2> QED BY Zenon, <1>1, <2>1 DEF BencherType
<1>4. benchlistSet' \in [Chain -> SUBSET Node] /\ ExpiredAreBenched'
  BY <1>1, <1>2 DEF BencherType, ExpiredAreBenched
<1>5. ASSUME NEW d \in Chain
      PROVE  WokenFor(d)'
  BY <1>1 DEF BencherType, BencherStates, WakeUpPending, WokenFor
<1> QED BY <1>2, <1>3, <1>4, <1>5 DEF BencherType, WakeUpPending

\* run() goes on to block when it has seen no benched node, or has set its timer
\* for one.
LEMMA BencherStaysAwake ==
  ASSUME WakeInv, NEW c \in Chain, Bencher(c)
  PROVE  WakeInv'
<1> USE DEF WakeInv
<1>1. CASE BencherWakes(c) \/ BencherLooks(c) \/ BencherReceives(c)
  <2>1. BencherType' /\ ExpiredAreBenched'
    BY <1>1 DEF BencherWakes, BencherLooks, BencherReceives, BencherType, BencherStates,
                ExpiredAreBenched
  <2>2. ASSUME NEW d \in Chain
        PROVE  WokenFor(d)'
    BY <1>1 DEF BencherWakes, BencherLooks, BencherReceives, BencherType, BencherStates,
                WakeUpPending, WokenFor
  <2> QED BY <2>1, <2>2 DEF WakeUpPending
<1>2. CASE RemovedExpiredNodes(c)
  <2>1. BencherType' /\ ExpiredAreBenched'
    BY <1>2 DEF RemovedExpiredNodes, BencherType, BencherStates, ExpiredAreBenched
  <2>2. ASSUME NEW d \in Chain
        PROVE  WokenFor(d)'
    BY <1>2 DEF RemovedExpiredNodes, BencherType, BencherStates, WakeUpPending, WokenFor
  <2> QED BY <2>1, <2>2 DEF WakeUpPending
<1>3. CASE DurationToSleep(c)
  <2> DEFINE S == IF benchlistSet[c] = {} THEN {None}
                  ELSE IF expired[c] # {} THEN expired[c] ELSE benchlistSet[c]
  <2>1. PICK n \in S : bencher' = [bencher EXCEPT ![c] = [@ EXCEPT !.at = "select", !.sleepFor = n]]
    BY Zenon, <1>3 DEF DurationToSleep
  <2>2. n \in Node \cup {None} /\ (benchlistSet[c] # {} => n \in benchlistSet[c])
    BY DEF BencherType, ExpiredAreBenched
  <2> HIDE DEF S
  <2>3. UNCHANGED <<benchlistSet, expired>>
    BY <1>3 DEF DurationToSleep
  <2>4. bencher' \in [Chain -> BencherStates]
    <3>1. [bencher[c] EXCEPT !.at = "select", !.sleepFor = n] \in BencherStates
      BY Zenon, <2>2, StatesOfRun DEF BencherType
    <3> QED BY Zenon, <2>1, <3>1 DEF BencherType
  <2>5. BencherType' /\ ExpiredAreBenched'
    BY <2>3, <2>4 DEF BencherType, ExpiredAreBenched
  <2>6. ASSUME NEW d \in Chain
        PROVE  WokenFor(d)'
    BY <2>1, <2>2, <2>3 DEF BencherType, BencherStates, WakeUpPending, WokenFor
  <2> QED BY <2>5, <2>6 DEF WakeUpPending
<1> QED BY <1>1, <1>2, <1>3 DEF Bencher

\* run() is never blocked for good while a node is benched: benched between its
\* look at the heap and its receive, while it removes nodes or sets its timer, the
\* node has left a message ("Whenever a new node is benched we ensure that
\* resetTimer has a pending message while the write lock is held").
THEOREM NoWakeUpIsMissed == Spec => []WakeUpPending
<1>1. Init => WakeInv
  BY DEF Init, WakeInv, BencherType, BencherStates, ExpiredAreBenched, WakeUpPending, WokenFor
<1>2. WakeInv /\ [Next]_vars => WakeInv'
  <2> SUFFICES ASSUME WakeInv, [Next]_vars
               PROVE  WakeInv'
    OBVIOUS
  <2>1. ASSUME NEW c \in Chain, Bencher(c) \/ \E n \in Node : RegisterFailure(c, n)
        PROVE  WakeInv'
    BY Zenon, <2>1, BenchNotifies, BencherStaysAwake
  <2>2. ASSUME NEW c \in Chain, NEW n \in Node, BenchTimePasses(c, n)
        PROVE  WakeInv'
    BY <2>2 DEF BenchTimePasses, WakeInv, BencherType, ExpiredAreBenched, WakeUpPending, WokenFor
  <2>3. CASE UNCHANGED <<benchlistSet, expired, bencher>>
    BY <2>3 DEF WakeInv, BencherType, ExpiredAreBenched, WakeUpPending, WokenFor
  <2>4. ASSUME NEW c \in Chain,
               AddChain(c) \/ RemoveChain(c) \/ \E n \in Node : RegisterResponse(c, n)
        PROVE  UNCHANGED <<benchlistSet, expired, bencher>>
    BY <2>4 DEF AddChain, RemoveChain, RegisterResponse, benchVars
  <2>5. ASSUME NEW n \in Node, Connect(n) \/ Disconnected(n) \/ \E s \in Subnet : ConnectSubnet(n, s)
        PROVE  UNCHANGED <<benchlistSet, expired, bencher>>
    BY <2>5 DEF Connect, Disconnected, ConnectSubnet, benchVars
  <2>6. ASSUME Shutdown \/ UNCHANGED vars
        PROVE  UNCHANGED <<benchlistSet, expired, bencher>>
    BY <2>6 DEF Shutdown, vars, benchVars
  <2> QED BY Zenon, <2>1, <2>2, <2>3, <2>4, <2>5, <2>6 DEF Next
<1>3. WakeInv => WakeUpPending
  BY DEF WakeInv
<1> QED BY <1>1, <1>2, <1>3, PTL DEF Spec

=============================================================================
