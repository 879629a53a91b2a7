------------------------ MODULE MCTopologicalLiveness ------------------------
(* Five blocks with identifiers of three bits:                             *)
(*                                                                         *)
(*            Genesis                                                      *)
(*           /       \                                                     *)
(*         000       001        (siblings that part at the last bit)       *)
(*        /   \        \                                                   *)
(*      010   110       101     (siblings that part at the first bit)      *)
EXTENDS TopologicalLiveness

MCGenesis == <<>>

MCParent ==
  (<<0, 0, 0>> :> MCGenesis) @@ (<<0, 0, 1>> :> MCGenesis)
  @@ (<<0, 1, 0>> :> <<0, 0, 0>>) @@ (<<1, 1, 0>> :> <<0, 0, 0>>)
  @@ (<<1, 0, 1>> :> <<0, 0, 1>>)

MCBlock == DOMAIN MCParent

Path[b \in MCBlock \cup {MCGenesis}] ==
  {b} \cup IF b = MCGenesis THEN {} ELSE Path[MCParent[b]]

MCAncestors == [b \in MCBlock \cup {MCGenesis} |-> Path[b]]

MCHeight == [b \in MCBlock \cup {MCGenesis} |-> Cardinality(Path[b]) - 1]

MCTerminationConditions == <<[alphaConfidence |-> 3, beta |-> 2]>>

=============================================================================
