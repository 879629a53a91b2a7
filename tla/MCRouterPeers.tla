---------------------------- MODULE MCRouterPeers ----------------------------
(* The platform chain P and a chain S of a subnet, which a peer tracks.    *)
EXTENDS RouterPeers

MCSubnetOf == [c \in Chain |-> IF c = "P" THEN "primary" ELSE "subnet"]
MCTracks == [n \in Node |-> IF n = "n1" THEN {"subnet"} ELSE {}]
MCWeight ==
  [s \in Subnet |-> [n \in Node |-> IF s = "subnet" /\ n # "n1" THEN 0 ELSE 1]]
MCMaxBenched == [s \in Subnet |-> IF s = "subnet" THEN 1 ELSE 2]

=============================================================================
