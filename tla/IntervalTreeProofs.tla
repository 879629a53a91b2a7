------------------------- MODULE IntervalTreeProofs --------------------------
(***************************************************************************)
(* The interval tree is a set of heights: Contains, Add and Remove are     *)
(* membership, insertion and removal for every set of maximal runs, and    *)
(* what Add and Remove write to disk leaves there the intervals they leave *)
(* in memory.                                                              *)
(***************************************************************************)
EXTENDS IntervalTree, TLAPS

\* Contains and Remove look only at the first interval from a height on; if any
\* interval has the height, it is that one.
LEMMA CeilingHasHolder ==
  ASSUME NEW known, IsTree(known), NEW h \in AnyHeight, NEW i \in known, Contains(i, h)
  PROVE  Ceiling(known, h) = {i} /\ Holder(known, h) = {i}
<1>1. \A j \in known : j \in Interval /\ j.lower <= j.upper
  BY DEF IsTree
<1>2. \A j \in known : j # i => i.upper + 1 < j.lower \/ j.upper + 1 < i.lower
  BY DEF IsTree, Separated
<1>3. \A j \in known : j.upper >= h => i.upper <= j.upper
  BY <1>1, <1>2, MaxHeightIsNatural DEF Interval, AnyHeight, Contains
<1>4. i \in Ceiling(known, h)
  BY <1>3, <1>1 DEF Ceiling, Contains, Interval, AnyHeight
<1>5. ASSUME NEW j \in Ceiling(known, h) PROVE j = i
  BY <1>5, <1>4, <1>1, <1>2, MaxHeightIsNatural DEF Ceiling, Interval, AnyHeight
<1>. QED  BY <1>4, <1>5 DEF Holder

\* Tree.Contains answers whether the height is in the set.
THEOREM ContainsIsMembership ==
  ASSUME NEW t, IsTree(t.known), NEW h \in AnyHeight
  PROVE  TreeContains(t, h) <=> h \in Heights(t.known)
<1>1. \A j \in t.known : j \in Interval
  BY DEF IsTree
<1>2. ASSUME TreeContains(t, h) PROVE h \in Heights(t.known)
  BY <1>1, <1>2, MaxHeightIsNatural DEF TreeContains, Ceiling, Contains, Heights, Interval, AnyHeight
<1>3. ASSUME h \in Heights(t.known) PROVE TreeContains(t, h)
  <2>1. PICK i \in t.known : h \in i.lower..i.upper
    BY <1>3 DEF Heights
  <2>2. Contains(i, h)
    BY <2>1, <1>1, MaxHeightIsNatural DEF Contains, Interval, AnyHeight
  <2>. QED  BY <2>2, CeilingHasHolder DEF TreeContains
<1>. QED  BY <1>2, <1>3

-----------------------------------------------------------------------------

\* The interval that Add extends downwards is the only one above that touches.
LEMMA JoinsUpperIsAdjacent ==
  ASSUME NEW known, IsTree(known), NEW h \in AnyHeight
  PROVE  JoinsUpper(known, h) = {i \in known : i.lower = h + 1}
<1>1. \A j \in known : j \in Interval /\ j.lower <= j.upper
  BY DEF IsTree
<1>2. JoinsUpper(known, h) \subseteq {i \in known : i.lower = h + 1}
  BY DEF JoinsUpper, Ceiling, AdjacentToLowerBound
<1>3. ASSUME NEW i \in known, i.lower = h + 1 PROVE i \in JoinsUpper(known, h)
  <2>1. \A j \in known : j # i => i.upper + 1 < j.lower \/ j.upper + 1 < i.lower
    BY DEF IsTree, Separated
  <2>2. i.upper >= h /\ \A j \in known : j.upper >= h => i.upper <= j.upper
    BY <1>1, <1>3, <2>1, MaxHeightIsNatural DEF Interval, AnyHeight
  <2>3. AdjacentToLowerBound(i, h)
    BY <1>1, <1>3, MaxHeightIsNatural DEF Interval, AnyHeight, AdjacentToLowerBound
  <2>. QED  BY <2>2, <2>3 DEF JoinsUpper, Ceiling
<1>. QED  BY <1>2, <1>3

\* Likewise below.
LEMMA JoinsLowerIsAdjacent ==
  ASSUME NEW known, IsTree(known), NEW h \in AnyHeight
  PROVE  JoinsLower(known, h) = {i \in known : i.upper + 1 = h}
<1>1. \A j \in known : j \in Interval /\ j.lower <= j.upper
  BY DEF IsTree
<1>2. JoinsLower(known, h) \subseteq {i \in known : i.upper + 1 = h}
  BY DEF JoinsLower, Floor, AdjacentToUpperBound
<1>3. ASSUME NEW i \in known, i.upper + 1 = h PROVE i \in JoinsLower(known, h)
  <2>1. \A j \in known : j # i => i.upper + 1 < j.lower \/ j.upper + 1 < i.lower
    BY DEF IsTree, Separated
  <2>2. i.upper <= h /\ \A j \in known : j.upper <= h => j.upper <= i.upper
    BY <1>1, <1>3, <2>1, MaxHeightIsNatural DEF Interval, AnyHeight
  <2>3. AdjacentToUpperBound(i, h)
    BY <1>1, <1>3, MaxHeightIsNatural DEF Interval, AnyHeight, AdjacentToUpperBound
  <2>. QED  BY <2>2, <2>3 DEF JoinsLower, Floor
<1>. QED  BY <1>2, <1>3

\* What Add makes of a new height and the intervals it touches is one interval: the
\* heights of these, apart from all the others.
LEMMA JoinedIsOneRun ==
  ASSUME NEW known, IsTree(known), NEW h \in AnyHeight, h \notin Heights(known)
  PROVE  \E n \in Interval :
           /\ Joined(known, h) = {n}
           /\ n.lower <= h /\ h <= n.upper
           /\ \A i \in JoinsUpper(known, h) : i.upper = n.upper /\ i.lower = h + 1
           /\ \A i \in JoinsLower(known, h) : i.lower = n.lower /\ i.upper + 1 = h
           /\ JoinsUpper(known, h) = {} => n.upper = h
           /\ JoinsLower(known, h) = {} => n.lower = h
           /\ \A j \in known \ (JoinsUpper(known, h) \cup JoinsLower(known, h)) :
                n.upper + 1 < j.lower \/ j.upper + 1 < n.lower
<1>. DEFINE U == JoinsUpper(known, h)
            L == JoinsLower(known, h)
<1>1. \A j \in known : j \in Interval /\ j.lower <= j.upper
  BY DEF IsTree
<1>2. \A i, j \in known : i # j => i.upper + 1 < j.lower \/ j.upper + 1 < i.lower
  BY DEF IsTree, Separated
<1>3. U = {i \in known : i.lower = h + 1} /\ L = {i \in known : i.upper + 1 = h}
  BY JoinsUpperIsAdjacent, JoinsLowerIsAdjacent
<1>4. \A j \in known : h < j.lower \/ j.upper < h
  BY <1>1, MaxHeightIsNatural DEF Heights, Interval, AnyHeight
<1>5. \A i, j \in U : i = j
  BY <1>1, <1>2, <1>3, MaxHeightIsNatural DEF Interval, AnyHeight
<1>6. \A i, j \in L : i = j
  BY <1>1, <1>2, <1>3, MaxHeightIsNatural DEF Interval, AnyHeight
<1>7. PICK u \in AnyHeight :
        /\ (IF U = {} THEN {h} ELSE {i.upper : i \in U}) = {u}
        /\ h <= u /\ (U = {} => u = h) /\ \A i \in U : i.upper = u
        /\ \A j \in known \ U : h < j.lower => u + 1 < j.lower
  <2>1. CASE U = {}
    <3>1. \A j \in known : h < j.lower => h + 1 < j.lower
      BY <2>1, <1>1, <1>3, MaxHeightIsNatural DEF Interval, AnyHeight
    <3>. QED  BY <2>1, <3>1 DEF AnyHeight
  <2>2. CASE U # {}
    <3>1. PICK i \in U : U = {i}
      BY <2>2, <1>5
    <3>2. i \in known /\ i.lower = h + 1 /\ i.upper \in AnyHeight /\ h <= i.upper
      BY <3>1, <1>1, <1>3, MaxHeightIsNatural DEF Interval, AnyHeight
    <3>3. \A j \in known \ U : h < j.lower => i.upper + 1 < j.lower
      <4>1. SUFFICES ASSUME NEW j \in known, j # i, h < j.lower
                     PROVE  i.upper + 1 < j.lower
        BY <3>1
      <4>. QED  BY <4>1, <3>2, <1>1, <1>2, MaxHeightIsNatural DEF Interval, AnyHeight
    <3>4. {k.upper : k \in U} = {i.upper}
      BY <3>1
    <3>. HIDE DEF U
    <3>. QED  BY <2>2, <3>1, <3>2, <3>3, <3>4
  <2>. QED  BY <2>1, <2>2
<1>8. PICK l \in AnyHeight :
        /\ (IF L = {} THEN {h} ELSE {i.lower : i \in L}) = {l}
        /\ l <= h /\ (L = {} => l = h) /\ \A i \in L : i.lower = l
        /\ \A j \in known \ L : j.upper < h => j.upper + 1 < l
  <2>1. CASE L = {}
    <3>1. \A j \in known : j.upper < h => j.upper + 1 < h
      BY <2>1, <1>1, <1>3, MaxHeightIsNatural DEF Interval, AnyHeight
    <3>. QED  BY <2>1, <3>1 DEF AnyHeight
  <2>2. CASE L # {}
    <3>1. PICK i \in L : L = {i}
      BY <2>2, <1>6
    <3>2. i \in known /\ i.upper + 1 = h /\ i.lower \in AnyHeight /\ i.lower <= h
      BY <3>1, <1>1, <1>3, MaxHeightIsNatural DEF Interval, AnyHeight
    <3>3. \A j \in known \ L : j.upper < h => j.upper + 1 < i.lower
      <4>1. SUFFICES ASSUME NEW j \in known, j # i, j.upper < h
                     PROVE  j.upper + 1 < i.lower
        BY <3>1
      <4>. QED  BY <4>1, <3>2, <1>1, <1>2, MaxHeightIsNatural DEF Interval, AnyHeight
    <3>4. {k.lower : k \in L} = {i.lower}
      BY <3>1
    <3>. HIDE DEF L
    <3>. QED  BY <2>2, <3>1, <3>2, <3>3, <3>4
  <2>. QED  BY <2>1, <2>2
<1>. DEFINE n == [lower |-> l, upper |-> u]
<1>9. n \in Interval /\ n.lower = l /\ n.upper = u
  BY DEF Interval
<1>10. Joined(known, h) = {n}
  <2>1. Joined(known, h) = {[lower |-> x, upper |-> y] : x \in {l}, y \in {u}}
    BY <1>7, <1>8 DEF Joined
  <2>. QED  BY <2>1
<1>11. \A j \in known \ (U \cup L) : u + 1 < j.lower \/ j.upper + 1 < l
  BY <1>4, <1>7, <1>8
<1>12. \A i \in U : i.lower = h + 1
  BY <1>3
<1>13. \A i \in L : i.upper + 1 = h
  BY <1>3
<1>. HIDE DEF n, U, L
<1>. QED  BY <1>7, <1>8, <1>9, <1>10, <1>11, <1>12, <1>13 DEF U, L

\* Tree.Add inserts the height, keeps the intervals maximal and disjoint, and
\* writes to disk exactly what it changes in memory.
THEOREM AddIsInsertion ==
  ASSUME NEW t, IsTree(t.known), NEW h \in AnyHeight
  PROVE  /\ IsTree(TreeAdd(t, h).known)
         /\ Heights(TreeAdd(t, h).known) = Heights(t.known) \cup {h}
         /\ EntriesAdd(t, t.known, h) = TreeAdd(t, h).known
<1>. DEFINE known == t.known
            U == JoinsUpper(known, h)
            L == JoinsLower(known, h)
<1>1. \A j \in known : j \in Interval /\ j.lower <= j.upper
  BY DEF IsTree
<1>2. \A i, j \in known : i # j => i.upper + 1 < j.lower \/ j.upper + 1 < i.lower
  BY DEF IsTree, Separated
<1>3. CASE h \in Heights(known)
  <2>1. TreeContains(t, h)
    BY <1>3, ContainsIsMembership
  <2>. QED  BY <2>1, <1>3 DEF TreeAdd, EntriesAdd
<1>4. CASE h \notin Heights(known)
  <2>1. ~TreeContains(t, h)
    BY <1>4, ContainsIsMembership
  <2>2. PICK n \in Interval :
           /\ Joined(known, h) = {n}
           /\ n.lower <= h /\ h <= n.upper
           /\ \A i \in U : i.upper = n.upper /\ i.lower = h + 1
           /\ \A i \in L : i.lower = n.lower /\ i.upper + 1 = h
           /\ U = {} => n.upper = h
           /\ L = {} => n.lower = h
           /\ \A j \in known \ (U \cup L) : n.upper + 1 < j.lower \/ j.upper + 1 < n.lower
    BY <1>4, JoinedIsOneRun
  <2>3. U \subseteq known /\ L \subseteq known
    BY DEF JoinsUpper, JoinsLower, Ceiling, Floor
  <2>4. TreeAdd(t, h).known = (known \ (U \cup L)) \cup {n}
    BY <2>1, <2>2 DEF TreeAdd
  <2>5. EntriesAdd(t, known, h)
          = {e \in {d \in known : d.upper \notin {i.upper : i \in L}} : e.upper \notin {n.upper}} \cup {n}
    BY <2>1, <2>2 DEF EntriesAdd, PutIntervals, DeleteInterval
  <2>. HIDE DEF U, L, known
  <2>6. IsTree((known \ (U \cup L)) \cup {n})
    <3>1. n.lower <= n.upper
      BY <2>2, MaxHeightIsNatural DEF Interval, AnyHeight
    <3>2. Separated((known \ (U \cup L)) \cup {n})
      BY <1>2, <2>2 DEF Separated
    <3>. QED  BY <3>1, <3>2, <1>1 DEF IsTree
  <2>7. Heights((known \ (U \cup L)) \cup {n}) = Heights(known) \cup {h}
    <3>1. ASSUME NEW k \in n.lower..n.upper PROVE k = h \/ k \in Heights(known)
      <4>1. CASE k < h
        <5>1. L # {}
          BY <4>1, <3>1, <2>2, MaxHeightIsNatural DEF Interval, AnyHeight
        <5>2. PICK i \in L : TRUE
          BY <5>1
        <5>3. i.lower <= k /\ k <= i.upper /\ i \in known
          BY <4>1, <3>1, <2>2, <2>3, <1>1, MaxHeightIsNatural DEF Interval, AnyHeight
        <5>. QED  BY <5>3, <3>1, <1>1 DEF Heights, Interval, AnyHeight
      <4>2. CASE h < k
        <5>1. U # {}
          BY <4>2, <3>1, <2>2, MaxHeightIsNatural DEF Interval, AnyHeight
        <5>2. PICK i \in U : TRUE
          BY <5>1
        <5>3. i.lower <= k /\ k <= i.upper /\ i \in known
          BY <4>2, <3>1, <2>2, <2>3, <1>1, MaxHeightIsNatural DEF Interval, AnyHeight
        <5>. QED  BY <5>3, <3>1, <1>1 DEF Heights, Interval, AnyHeight
      <4>. QED  BY <4>1, <4>2, <3>1, MaxHeightIsNatural DEF Interval, AnyHeight
    <3>2. ASSUME NEW i \in U \cup L, NEW k \in i.lower..i.upper PROVE k \in n.lower..n.upper
      BY <3>2, <2>2, <2>3, <1>1, MaxHeightIsNatural DEF Interval, AnyHeight
    <3>3. h \in n.lower..n.upper
      BY <2>2, MaxHeightIsNatural DEF Interval, AnyHeight
    <3>4. Heights((known \ (U \cup L)) \cup {n}) \subseteq Heights(known) \cup {h}
      BY <3>1 DEF Heights
    <3>5. Heights(known) \cup {h} \subseteq Heights((known \ (U \cup L)) \cup {n})
      BY <3>2, <3>3 DEF Heights
    <3>. QED  BY <3>4, <3>5
  <2>8. ASSUME NEW e \in known
        PROVE  (e \in U \cup L) <=> (e.upper \in {i.upper : i \in L} \/ e.upper = n.upper)
    <3>1. ASSUME e \in U \cup L PROVE e.upper \in {i.upper : i \in L} \/ e.upper = n.upper
      BY <3>1, <2>2
    <3>2. ASSUME NEW i \in L, e.upper = i.upper PROVE e \in L
      BY <3>2, <2>3, <1>1, <1>2, MaxHeightIsNatural DEF Interval, AnyHeight
    <3>3. ASSUME e.upper = n.upper PROVE e \in U \cup L
      BY <3>3, <2>2, <1>1, MaxHeightIsNatural DEF Interval, AnyHeight
    <3>. QED  BY <3>1, <3>2, <3>3
  <2>9. EntriesAdd(t, known, h) = TreeAdd(t, h).known
    BY <2>4, <2>5, <2>8
  <2>. QED  BY <2>4, <2>6, <2>7, <2>9 DEF known
<1>. QED  BY <1>3, <1>4

-----------------------------------------------------------------------------

\* Tree.Remove removes the height, splitting its interval where it must, and
\* writes to disk exactly what it changes in memory.
THEOREM RemoveIsRemoval ==
  ASSUME NEW t, IsTree(t.known), NEW h \in AnyHeight
  PROVE  /\ IsTree(TreeRemove(t, h).known)
         /\ Heights(TreeRemove(t, h).known) = Heights(t.known) \ {h}
         /\ EntriesRemove(t, t.known, h) = TreeRemove(t, h).known
<1>. DEFINE known == t.known
            rest == LeftOver(known, h)
<1>1. \A j \in known : j \in Interval /\ j.lower <= j.upper
  BY DEF IsTree
<1>2. \A i, j \in known : i # j => i.upper + 1 < j.lower \/ j.upper + 1 < i.lower
  BY DEF IsTree, Separated
<1>3. CASE h \notin Heights(known)
  <2>1. ~TreeContains(t, h)
    BY <1>3, ContainsIsMembership
  <2>2. Holder(known, h) = {}
    BY <2>1 DEF TreeContains, Holder
  <2>3. rest = {}
    BY <2>2 DEF LeftOver
  <2>4. EntriesRemove(t, known, h) = known
    BY <2>2, <2>3 DEF EntriesRemove, PutIntervals, DeleteInterval
  <2>. QED  BY <2>1, <2>4, <1>3 DEF TreeRemove
<1>4. CASE h \in Heights(known)
  <2>1. TreeContains(t, h)
    BY <1>4, ContainsIsMembership
  <2>2. PICK i \in known : h \in i.lower..i.upper
    BY <1>4 DEF Heights
  <2>3. i.lower \in AnyHeight /\ i.upper \in AnyHeight /\ i.lower <= h /\ h <= i.upper
    BY <2>2, <1>1, MaxHeightIsNatural DEF Interval, AnyHeight
  <2>4. Holder(known, h) = {i}
    BY <2>3, CeilingHasHolder DEF Contains
  <2>5. TreeRemove(t, h).known = (known \ {i}) \cup rest
    BY <2>1, <2>4 DEF TreeRemove
  <2>6. EntriesRemove(t, known, h)
          = PutIntervals({e \in known : i.upper = h => e.upper # h}, rest)
    <3>1. {j.upper : j \in {k \in Holder(known, h) : k.upper = h}}
            = IF i.upper = h THEN {h} ELSE {}
      BY <2>4
    <3>. QED  BY <3>1 DEF EntriesRemove, DeleteInterval
  <2>7. ASSUME NEW x
        PROVE  x \in rest <=> \/ i.lower < h /\ x = [lower |-> i.lower, upper |-> h - 1]
                              \/ h < i.upper /\ x = [lower |-> h + 1, upper |-> i.upper]
    BY <2>4 DEF LeftOver
  <2>8. \A x \in rest : /\ x \in Interval /\ x.lower <= x.upper
                        /\ i.lower <= x.lower /\ x.upper <= i.upper
                        /\ \/ x.lower = i.lower /\ x.upper = h - 1
                           \/ x.lower = h + 1 /\ x.upper = i.upper
    BY <2>7, <2>3, MaxHeightIsNatural DEF Interval, AnyHeight
  <2>. HIDE DEF rest, known
  <2>9. IsTree((known \ {i}) \cup rest)
    <3>1. ASSUME NEW x \in rest, NEW j \in known \ {i}
          PROVE  x.upper + 1 < j.lower \/ j.upper + 1 < x.lower
      BY <3>1, <2>2, <2>3, <2>8, <1>1, <1>2, MaxHeightIsNatural DEF Interval, AnyHeight
    <3>2. ASSUME NEW x \in rest, NEW y \in rest, x # y
          PROVE  x.upper + 1 < y.lower \/ y.upper + 1 < x.lower
      <4>1. (x.lower = i.lower /\ x.upper = h - 1) \/ (x.lower = h + 1 /\ x.upper = i.upper)
        BY <2>8
      <4>2. (y.lower = i.lower /\ y.upper = h - 1) \/ (y.lower = h + 1 /\ y.upper = i.upper)
        BY <2>8
      <4>3. x.lower # y.lower \/ x.upper # y.upper
        BY <3>2, <2>8 DEF Interval
      <4>. QED  BY <4>1, <4>2, <4>3, <2>3, <2>8, MaxHeightIsNatural DEF Interval, AnyHeight
    <3>3. Separated((known \ {i}) \cup rest)
      BY <3>1, <3>2, <1>2 DEF Separated
    <3>. QED  BY <3>3, <2>8, <1>1 DEF IsTree
  <2>10. Heights((known \ {i}) \cup rest) = Heights(known) \ {h}
    <3>1. ASSUME NEW k \in i.lower..i.upper, k # h
          PROVE  \E x \in rest : k \in x.lower..x.upper
      <4>1. CASE k < h
        <5>1. [lower |-> i.lower, upper |-> h - 1] \in rest
          BY <4>1, <3>1, <2>3, <2>7, MaxHeightIsNatural DEF AnyHeight
        <5>. QED  BY <5>1, <4>1, <3>1, <2>3, MaxHeightIsNatural DEF AnyHeight
      <4>2. CASE h < k
        <5>1. [lower |-> h + 1, upper |-> i.upper] \in rest
          BY <4>2, <3>1, <2>3, <2>7, MaxHeightIsNatural DEF AnyHeight
        <5>. QED  BY <5>1, <4>2, <3>1, <2>3, MaxHeightIsNatural DEF AnyHeight
      <4>. QED  BY <4>1, <4>2, <3>1, <2>3, MaxHeightIsNatural DEF AnyHeight
    <3>2. ASSUME NEW x \in rest, NEW k \in x.lower..x.upper
          PROVE  k \in i.lower..i.upper /\ k # h
      BY <3>2, <2>3, <2>8, MaxHeightIsNatural DEF Interval, AnyHeight
    <3>3. ASSUME NEW j \in known \ {i} PROVE h \notin j.lower..j.upper
      BY <3>3, <2>2, <2>3, <1>1, <1>2, MaxHeightIsNatural DEF Interval, AnyHeight
    <3>4. Heights((known \ {i}) \cup rest) \subseteq Heights(known) \ {h}
      BY <3>2, <3>3, <2>2 DEF Heights
    <3>5. Heights(known) \ {h} \subseteq Heights((known \ {i}) \cup rest)
      BY <3>1 DEF Heights
    <3>. QED  BY <3>4, <3>5
  <2>11. EntriesRemove(t, known, h) = (known \ {i}) \cup rest
    <3>1. ASSUME NEW e \in known, e # i
          PROVE  e.upper # i.upper /\ e.upper # h /\ \A x \in rest : e.upper # x.upper
      BY <3>1, <2>2, <2>3, <2>8, <1>1, <1>2, MaxHeightIsNatural DEF Interval, AnyHeight
    <3>2. i.upper = h \/ \E x \in rest : i.upper = x.upper
      <4>1. CASE h < i.upper
        <5>1. [lower |-> h + 1, upper |-> i.upper] \in rest
          BY <4>1, <2>7
        <5>. QED  BY <5>1
      <4>. QED  BY <4>1, <2>3, MaxHeightIsNatural DEF AnyHeight
    <3>3. \A e \in known : e # i <=>
             (i.upper = h => e.upper # h) /\ \A x \in rest : e.upper # x.upper
      BY <3>1, <3>2
    <3>4. PutIntervals({e \in known : i.upper = h => e.upper # h}, rest)
            = {e \in known : (i.upper = h => e.upper # h) /\ \A x \in rest : e.upper # x.upper}
              \cup rest
      BY DEF PutIntervals, DeleteInterval
    <3>. QED  BY <3>3, <3>4, <2>6
  <2>. QED  BY <2>5, <2>9, <2>10, <2>11 DEF known
<1>. QED  BY <1>3, <1>4

=============================================================================
