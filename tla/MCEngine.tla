------------------------------ MODULE MCEngine ------------------------------
(* A branch of three blocks, with blocks in conflict with its first and    *)
(* with its second:                                                        *)
(*                                                                         *)
(*   g - a1 - a2 - a3                                                      *)
(*    |    \- c2                                                           *)
(*    \- b1                                                                *)
(*                                                                         *)
(* In MCOptions a1 is an oracle block with the options a2 and c2.  In      *)
(* MCStartOptions g is one, with the options a1 and b1, so that the engine *)
(* starts by delivering them.                                              *)
EXTENDS Engine

CONSTANT MCBlock    \* the blocks of the instance

Tree == ("a1" :> "g") @@ ("a2" :> "a1") @@ ("a3" :> "a2") @@ ("c2" :> "a1") @@ ("b1" :> "g")

MCParent == [b \in MCBlock |-> Tree[b]]

Path[b \in MCBlock \cup {"g"}] ==
  {b} \cup IF b = "g" THEN {} ELSE Path[Tree[b]]

MCAncestors == [b \in MCBlock \cup {"g"} |-> Path[b]]

MCHeight == [b \in MCBlock \cup {"g"} |-> Cardinality(Path[b]) - 1]

MCOptions ==
  [b \in MCBlock \cup {"g"} |-> IF b = "a1" THEN <<"a2", "c2">> ELSE <<>>]

MCStartOptions ==
  [b \in MCBlock \cup {"g"} |-> IF b = "g" THEN <<"a1", "b1">> ELSE <<>>]

=============================================================================
