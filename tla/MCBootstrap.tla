----------------------------- MODULE MCBootstrap -----------------------------
(***************************************************************************)
(* Bootstrap on a chain of four blocks with a fork, three beacons, one of  *)
(* them faulty, and batches of two.                                        *)
(***************************************************************************)
EXTENDS Bootstrap

MCParent == [b \in {"c1", "c2", "c3", "c4", "f2"} |->
  CASE b = "c1" -> "g" [] b = "c2" -> "c1" [] b = "c3" -> "c2"
    [] b = "c4" -> "c3" [] b = "f2" -> "c1"]
MCHeight == [b \in {"g", "c1", "c2", "c3", "c4", "f2"} |->
  CASE b = "g" -> 0 [] b = "c1" -> 1 [] b \in {"c2", "f2"} -> 2
    [] b = "c3" -> 3 [] b = "c4" -> 4]
MCAncestors == [b \in {"g", "c1", "c2", "c3", "c4", "f2"} |->
  CASE b = "g" -> {"g"} [] b = "c1" -> {"g", "c1"} [] b = "c2" -> {"g", "c1", "c2"}
    [] b = "c3" -> {"g", "c1", "c2", "c3"} [] b = "c4" -> {"g", "c1", "c2", "c3", "c4"}
    [] b = "f2" -> {"g", "c1", "f2"}]
MCWeight == [n \in {"n1", "n2", "n3"} |-> 1]

=============================================================================
