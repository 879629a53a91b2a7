------------------------------ MODULE MCPollSet ------------------------------
(* Two polls of validators that were drawn several times, over siblings    *)
(* that share their first bit, and a grandchild; each poll has a sample of *)
(* its own.                                                                *)
(*                                                                         *)
(*   Genesis - 00 - 10                                                     *)
(*          \- 01                                                          *)
EXTENDS PollSet

MCGenesis == <<>>

MCParent ==
  (<<0, 0>> :> MCGenesis) @@ (<<0, 1>> :> MCGenesis)
  @@ (<<1, 0>> :> <<0, 0>>)

MCBlock == DOMAIN MCParent

Path[b \in MCBlock \cup {MCGenesis}] ==
  {b} \cup IF b = MCGenesis THEN {} ELSE Path[MCParent[b]]

MCAncestors == [b \in MCBlock \cup {MCGenesis} |-> Path[b]]

MCHeight == [b \in MCBlock \cup {MCGenesis} |-> Cardinality(Path[b]) - 1]

MCTerminationConditions == <<[alphaConfidence |-> 4, beta |-> 2]>>

MCSamples == <<{("v1" :> 1) @@ ("v2" :> 1) @@ ("v3" :> 2) @@ ("v4" :> 1)},
               {("v1" :> 5)}>>

=============================================================================
