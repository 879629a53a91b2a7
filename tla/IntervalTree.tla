---------------------------- MODULE IntervalTree -----------------------------
(***************************************************************************)
(* The heights a bootstrapping node has fetched, kept as disjoint          *)
(* intervals (snow/engine/snowman/bootstrap/interval): in memory in a tree *)
(* ordered by upper bound, and on disk with the upper bound as the key.    *)
(* Every operation on the tree also writes to disk what it changed, and    *)
(* nothing else, so that NewTree finds the same intervals after a restart. *)
(*                                                                         *)
(* A tree t is [known, num]: the intervals, and the number of heights the  *)
(* code counts as it goes, modulo the width of a height.  The store is the *)
(* set of its entries.                                                     *)
(***************************************************************************)
EXTENDS Integers, FiniteSetsExt

CONSTANT MaxHeight   \* math.MaxUint64

ASSUME MaxHeightIsNatural == MaxHeight \in Nat

AnyHeight == 0..MaxHeight
Interval == [lower : AnyHeight, upper : AnyHeight]

Contains(i, h) == i.lower <= h /\ h <= i.upper
AdjacentToLowerBound(i, h) == h < MaxHeight /\ h + 1 = i.lower
AdjacentToUpperBound(i, h) == i.upper < MaxHeight /\ i.upper + 1 = h

\* AscendGreaterOrEqual: the first interval from height h on, as a set that is
\* empty when the code's pointer stays nil.
Ceiling(known, h) ==
  {i \in known : i.upper >= h /\ \A j \in known : j.upper >= h => i.upper <= j.upper}

\* DescendLessOrEqual: the last interval that ends at h or before.
Floor(known, h) ==
  {i \in known : i.upper <= h /\ \A j \in known : j.upper <= h => j.upper <= i.upper}

TreeContains(t, h) == \E i \in Ceiling(t.known, h) : Contains(i, h)

\* Flatten, as the set of what it lists.
Heights(known) == UNION {i.lower..i.upper : i \in known}

-----------------------------------------------------------------------------
(* The entries on disk.                                                    *)

DeleteInterval(entries, upperBounds) == {e \in entries : e.upper \notin upperBounds}

PutIntervals(entries, new) ==
  DeleteInterval(entries, {e.upper : e \in new}) \cup new

NewTree(entries) ==
  [known |-> entries,
   num   |-> MapThenSumSet(LAMBDA i : (i.upper - i.lower) + 1, entries) % (MaxHeight + 1)]

-----------------------------------------------------------------------------
(* Add: the new height joins the interval above, the one below, both or    *)
(* neither.                                                                *)

JoinsUpper(known, h) == {i \in Ceiling(known, h) : AdjacentToLowerBound(i, h)}
JoinsLower(known, h) == {i \in Floor(known, h) : AdjacentToUpperBound(i, h)}

Joined(known, h) ==
  {[lower |-> l, upper |-> u] :
     l \in IF JoinsLower(known, h) = {} THEN {h}
           ELSE {i.lower : i \in JoinsLower(known, h)},
     u \in IF JoinsUpper(known, h) = {} THEN {h}
           ELSE {i.upper : i \in JoinsUpper(known, h)}}

TreeAdd(t, h) ==
  IF TreeContains(t, h) THEN t
  ELSE [known |-> (t.known \ (JoinsUpper(t.known, h) \cup JoinsLower(t.known, h)))
                  \cup Joined(t.known, h),
        num   |-> (t.num + 1) % (MaxHeight + 1)]

\* Bug: the interval below is extended without deleting its old entry.
EntriesKeptLower(t, entries, h) ==
  IF TreeContains(t, h) THEN entries ELSE PutIntervals(entries, Joined(t.known, h))

\* What Add writes: the interval below loses its key, since its upper bound
\* changes; the one above keeps it.
EntriesAdd(t, entries, h) ==
  IF TreeContains(t, h) THEN entries
  ELSE PutIntervals(DeleteInterval(entries, {i.upper : i \in JoinsLower(t.known, h)}),
                    Joined(t.known, h))

-----------------------------------------------------------------------------
(* Remove: what is left of the interval on either side of the height.      *)

Holder(known, h) == {i \in Ceiling(known, h) : Contains(i, h)}

LeftOver(known, h) ==
  {[lower |-> i.lower, upper |-> h - 1] : i \in {j \in Holder(known, h) : j.lower < h}}
  \cup {[lower |-> h + 1, upper |-> i.upper] : i \in {j \in Holder(known, h) : h < j.upper}}

TreeRemove(t, h) ==
  IF ~TreeContains(t, h) THEN t
  ELSE [known |-> (t.known \ Holder(t.known, h)) \cup LeftOver(t.known, h),
        num   |-> (t.num + MaxHeight) % (MaxHeight + 1)]

EntriesRemove(t, entries, h) ==
  PutIntervals(DeleteInterval(entries, {i.upper : i \in {j \in Holder(t.known, h) : j.upper = h}}),
               LeftOver(t.known, h))

-----------------------------------------------------------------------------

\* Two intervals neither overlap nor touch.
Separated(known) ==
  \A i, j \in known : i # j => i.upper + 1 < j.lower \/ j.upper + 1 < i.lower

\* A tree is a set of heights in its only form: its maximal runs.
IsTree(known) ==
  /\ known \subseteq Interval
  /\ \A i \in known : i.lower <= i.upper
  /\ Separated(known)

=============================================================================
