--------------------------- MODULE MCSnowTreePolls ---------------------------
(* Identifiers of three bytes of two bits.  A new choice parts from the    *)
(* others at the first bit, at the last, and in the byte between; where it *)
(* parts in the byte between, it differs again in the last.                *)
EXTENDS SnowTreePolls

MCId == {<<0, 0, 0, 0, 0, 0>>, <<0, 0, 0, 0, 0, 1>>,
         <<0, 0, 0, 1, 1, 0>>, <<1, 0, 0, 0, 0, 1>>}

MCTerminationConditions == <<[alphaConfidence |-> 3, beta |-> 2]>>

=============================================================================
