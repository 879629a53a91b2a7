--------------------------- MODULE MCVotePropagation --------------------------
(* Six blocks: branches of length three, two and one.                      *)
EXTENDS VotePropagation

MCGenesis == <<>>

MCParent ==
  (<<0, 0, 0>> :> MCGenesis) @@ (<<0, 0, 1>> :> MCGenesis)
  @@ (<<0, 1, 0>> :> <<0, 0, 0>>) @@ (<<1, 1, 0>> :> <<0, 0, 0>>)
  @@ (<<1, 0, 1>> :> <<0, 1, 0>>) @@ (<<1, 1, 1>> :> <<0, 0, 1>>)

MCBlock == DOMAIN MCParent

Path[b \in MCBlock \cup {MCGenesis}] ==
  {b} \cup IF b = MCGenesis THEN {} ELSE Path[MCParent[b]]

MCAncestors == [b \in MCBlock \cup {MCGenesis} |-> Path[b]]

MCHeight == [b \in MCBlock \cup {MCGenesis} |-> Cardinality(Path[b]) - 1]

MCTerminationConditions == <<[alphaConfidence |-> 4, beta |-> 2]>>

=============================================================================
