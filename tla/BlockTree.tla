------------------------------ MODULE BlockTree ------------------------------
(***************************************************************************)
(* The blocks there are.  A block names its parent once and for all, so    *)
(* the tree of all blocks that may ever be issued is a constant; what      *)
(* changes is which of them a node has seen and decided.                   *)
(***************************************************************************)
EXTENDS Integers, FiniteSets

CONSTANTS
  Block,      \* the blocks that may be issued
  Genesis,    \* the last accepted block the node starts from
  Parent,     \* Parent[b]: the block that b extends
  Height,     \* Height[b]: Block.Height()
  Ancestors   \* Ancestors[b]: b and the blocks between it and Genesis

AnyBlock == Block \cup {Genesis}

ASSUME BlocksFormATree ==
  /\ Genesis \notin Block
  /\ Parent \in [Block -> AnyBlock]
  /\ Height \in [AnyBlock -> Nat]
  /\ \A b \in Block : Height[b] = Height[Parent[b]] + 1
  /\ Ancestors \in [AnyBlock -> SUBSET AnyBlock]
  /\ Ancestors[Genesis] = {Genesis}
  /\ \A b \in Block : Ancestors[b] = {b} \cup Ancestors[Parent[b]]

\* b is a proper descendant of a.
Extends(b, a) == b # a /\ a \in Ancestors[b]

\* Neither block extends the other: at most one of them can be accepted.
Conflict(a, b) == a \notin Ancestors[b] /\ b \notin Ancestors[a]

=============================================================================
