-------------------------- MODULE MCRouterRequests ---------------------------
(* Three requests of one chain: one may be due while another is answered   *)
(* and the third is being added.                                           *)
EXTENDS RouterRequests

MCOn == [r \in Request |-> "P"]

=============================================================================
