-------------------------------- MODULE Ledger -------------------------------
(***************************************************************************)
(* What Snowman consensus promises its virtual machine.  A block that was  *)
(* issued is later accepted, rejected, or still processing.  Decisions     *)
(* move the last accepted block to a processing descendant: everything in  *)
(* between is accepted, everything that conflicts with it is rejected, and *)
(* nothing else is decided.  A decision is never taken back.               *)
(***************************************************************************)
EXTENDS BlockTree

VARIABLES
  last,        \* the last accepted block
  accepted,    \* the blocks on which Accept was called, and Genesis
  rejected,    \* the blocks on which Reject was called
  processing   \* the blocks issued and not decided

ledgerVars == <<last, accepted, rejected, processing>>

Init ==
  /\ last = Genesis
  /\ accepted = {Genesis}
  /\ rejected = {}
  /\ processing = {}

Issue(b) ==
  /\ b \notin accepted \cup rejected \cup processing
  /\ Parent[b] \in processing \cup {last}
  /\ processing' = processing \cup {b}
  /\ UNCHANGED <<last, accepted, rejected>>

\* Accepted with d: what is between the last accepted block and d.
AcceptedWith(d) == Ancestors[d]

RejectedBy(d) == {b \in processing : Conflict(b, d)}

Remaining(d) == {b \in processing : Extends(b, d)}

Decide(d) ==
  /\ d \in processing
  /\ last' = d
  /\ accepted' = accepted \cup AcceptedWith(d)
  /\ rejected' = rejected \cup RejectedBy(d)
  /\ processing' = Remaining(d)

Next == \E b \in Block : Issue(b) \/ Decide(b)

Spec == Init /\ [][Next]_ledgerVars

-----------------------------------------------------------------------------

\* The three sets hold blocks; Genesis is never issued or rejected.
TypeOK ==
  /\ last \in AnyBlock
  /\ accepted \subseteq AnyBlock
  /\ rejected \subseteq Block
  /\ processing \subseteq Block

\* Accept has been called on the ancestors of the last accepted block and on
\* nothing else: the accepted blocks are one chain.
AcceptedIsChain == accepted = Ancestors[last]

\* No two accepted blocks have the same height.
OneBlockPerHeight ==
  \A a, b \in accepted : Height[a] = Height[b] => a = b

\* A processing block extends the last accepted block through processing
\* blocks: none is orphaned by a decision, none waits below a decided block.
ProcessingExtendsLast ==
  \A b \in processing : /\ Extends(b, last)
                        /\ Ancestors[b] \subseteq accepted \cup processing

\* Accept and Reject are never both called on a block, and neither is called on
\* one that is still processing.
OneStatePerBlock ==
  /\ accepted \cap rejected = {}
  /\ processing \cap (accepted \cup rejected) = {}

\* Only a block that conflicts with the accepted chain was rejected.
RejectedConflicts == \A b \in rejected : Conflict(b, last)

=============================================================================
