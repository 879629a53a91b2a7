----------------------------- MODULE LeastNumber -----------------------------
(***************************************************************************)
(* The least-number principle, as a statement about sets of naturals.  It  *)
(* is how the proofs follow a loop (the termination conditions RecordPoll  *)
(* goes through) or climb a tree (the ancestors of a block): look at the   *)
(* least index or height at which the claim fails.                         *)
(***************************************************************************)
EXTENDS Integers, TLAPS, WellFoundedInduction

NatLess == {p \in Nat \X Nat : p[1] < p[2]}

\* A nonempty set of naturals has a least member.
LEMMA LeastNatural ==
  ASSUME NEW T \in SUBSET Nat, T # {}
  PROVE  \E m \in T : \A n \in T : m <= n
<1>1. IsWellFoundedOn(NatLess, Nat)
  BY NatLessThanWellFounded DEF OpToRel, NatLess
<1>2. PICK m \in T : \A n \in T : ~(<<n, m>> \in NatLess)
  <2>1. T \subseteq Nat
    OBVIOUS
  <2>2. QED
    BY <1>1, <2>1, WFMin
<1>3. \A n \in T : ~(n < m)
  BY <1>2 DEF NatLess
<1>4. QED
  BY <1>3

=============================================================================
