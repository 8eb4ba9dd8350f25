---------------------------- MODULE PeersProofs ----------------------------
(***************************************************************************)
(* Theorems about the parts that Peers composes, for every value of its    *)
(* constants: the order that sort.Slice puts a list in, what QuorumMatch   *)
(* computes from it, configurations as sorted lists without duplicates,    *)
(* mailboxes that lose nothing, and timers that a valid configuration      *)
(* keeps quiet.  Loops over lists are recursive functions, and what they   *)
(* compute is proved by induction over the naturals in the form of sets    *)
(* (InductiveSet).                                                         *)
(***************************************************************************)
EXTENDS Peers, Sorting, Sequences, FiniteSetTheorems, WellFoundedInduction, TLAPS

\* A set of naturals that is not empty has a least member.
LEMMA LeastNatural ==
    ASSUME NEW T, T \subseteq Nat, T # {}
    PROVE  \E x \in T : \A y \in T : x <= y
<1>. DEFINE R == OpToRel(<, Nat)
<1>1. IsWellFoundedOn(R, Nat)
  BY NatLessThanWellFounded
<1>2. \A x, y \in Nat : <<x, y>> \in R <=> x < y
  BY DEF OpToRel
<1>. HIDE DEF R
<1>3. PICK x \in T : \A y \in T : ~(<<y, x>> \in R)
  BY <1>1, WFMin
<1>4. ASSUME NEW y \in T PROVE x <= y
  <2>1. x \in Nat /\ y \in Nat
    OBVIOUS
  <2>2. ~(y < x)
    BY <2>1, <1>2, <1>3
  <2>. QED  BY <2>1, <2>2
<1>. QED  BY <1>4

\* Induction over the naturals, for a set.
LEMMA InductiveSet ==
    ASSUME NEW T, 0 \in T, \A n \in Nat : n \in T => n + 1 \in T
    PROVE  Nat \subseteq T
<1>. SUFFICES ASSUME ~(Nat \subseteq T) PROVE FALSE
  OBVIOUS
<1>1. PICK x \in Nat \ T : \A y \in Nat \ T : x <= y
  BY LeastNatural
<1>2. x - 1 \in Nat /\ x - 1 \in T
  BY <1>1
<1>. QED  BY <1>1, <1>2

\* A slice of numbers: finitely many elements.
Slice(f) ==
    /\ IsFiniteSet(DOMAIN f)
    /\ \A k \in DOMAIN f : f[k] \in Nat

\* Below counts, and counts more as x grows.
LEMMA BelowCounts ==
    ASSUME NEW f, Slice(f), NEW x \in Nat
    PROVE  /\ Below(f, x) \in Nat
           /\ Below(f, x) <= Cardinality(DOMAIN f)
           /\ Cardinality(DOMAIN f) \in Nat
           /\ \A y \in Nat : x <= y => Below(f, x) <= Below(f, y)
<1>. DEFINE S(y) == {k \in DOMAIN f : f[k] < y}
<1>1. \A y \in Nat : S(y) \in SUBSET DOMAIN f /\ IsFiniteSet(S(y))
  BY FS_Subset DEF Slice
<1>2. Cardinality(DOMAIN f) \in Nat
  BY FS_CardinalityType DEF Slice
<1>3. Cardinality(S(x)) \in Nat /\ Cardinality(S(x)) <= Cardinality(DOMAIN f)
  BY <1>1, FS_CardinalityType, FS_Subset DEF Slice
<1>4. ASSUME NEW y \in Nat, x <= y PROVE Cardinality(S(x)) <= Cardinality(S(y))
  <2>1. S(x) \in SUBSET S(y)
    BY <1>4 DEF Slice
  <2>2. IsFiniteSet(S(y))
    BY <1>1
  <2>. HIDE DEF S
  <2>. QED  BY <2>1, <2>2, FS_Subset
<1>. QED  BY <1>2, <1>3, <1>4 DEF Below

\* Below x + 1 are those below x and those equal to x.
LEMMA BelowNext ==
    ASSUME NEW f, Slice(f), NEW x \in Nat
    PROVE  /\ x \notin Range(f) => Below(f, x + 1) = Below(f, x)
           /\ x \in Range(f) => Below(f, x + 1) > Below(f, x)
           /\ (\A j, k \in DOMAIN f : f[j] = f[k] => j = k) => Below(f, x + 1) <= Below(f, x) + 1
<1>. DEFINE L == {k \in DOMAIN f : f[k] < x}
            U == {k \in DOMAIN f : f[k] < x + 1}
            E == {k \in DOMAIN f : f[k] = x}
<1>1. U = L \cup E
  BY DEF Slice
<1>2. L \cap E = {}
  BY DEF Slice
<1>3. IsFiniteSet(L) /\ IsFiniteSet(E) /\ IsFiniteSet(U)
  BY FS_Subset DEF Slice
<1>4. Cardinality(U) = Cardinality(L) + Cardinality(E)
  <2>1. Cardinality(L \cap E) = 0
    BY <1>2, FS_EmptySet
  <2>2. Cardinality(L) \in Nat /\ Cardinality(E) \in Nat
    BY <1>3, FS_CardinalityType
  <2>3. Cardinality(L \cup E) = Cardinality(L) + Cardinality(E) - Cardinality(L \cap E)
    BY <1>3, FS_Union
  <2>. HIDE DEF L, U, E
  <2>. QED  BY <1>1, <2>1, <2>2, <2>3
<1>5. Cardinality(L) \in Nat /\ Cardinality(E) \in Nat
  BY <1>3, FS_CardinalityType
<1>6. ASSUME x \notin Range(f) PROVE Cardinality(E) = 0
  <2>1. E = {}
    BY <1>6 DEF Range
  <2>. QED  BY <2>1, FS_EmptySet
<1>7. ASSUME x \in Range(f) PROVE Cardinality(E) > 0
  <2>1. E # {}
    BY <1>7 DEF Range
  <2>. QED  BY <2>1, <1>3, <1>5, FS_EmptySet
<1>8. ASSUME \A j, k \in DOMAIN f : f[j] = f[k] => j = k PROVE Cardinality(E) <= 1
  <2>1. CASE E = {}
    BY <2>1, FS_EmptySet
  <2>2. CASE E # {}
    <3>1. PICK k \in E : TRUE
      BY <2>2
    <3>2. E = {k}
      BY <1>8, <3>1
    <3>3. Cardinality({k}) = 1
      BY FS_Singleton
    <3>. QED  BY <3>2, <3>3
  <2>. QED  BY <2>1, <2>2
<1>9. Below(f, x) = Cardinality(L) /\ Below(f, x + 1) = Cardinality(U)
  BY DEF Below
<1>. HIDE DEF L, U, E
<1>. QED  BY <1>4, <1>5, <1>6, <1>7, <1>8, <1>9

\* For every place there is an element that belongs there.
LEMMA PlaceIsTaken ==
    ASSUME NEW f, Slice(f), NEW k \in 1 .. Cardinality(DOMAIN f)
    PROVE  \E x \in Range(f) : Below(f, x) < k /\ k <= Below(f, x + 1)
<1>0. Cardinality(DOMAIN f) \in Nat /\ k \in Nat /\ k > 0
  BY FS_CardinalityType DEF Slice
<1>. DEFINE T == {y \in Nat : k <= Below(f, y + 1)}
<1>1. T # {}
  <2>. DEFINE V == {z \in Nat : \E K \in SUBSET DOMAIN f : Cardinality(K) = z /\
                        ~ \E y \in Nat : \A i \in K : f[i] <= y}
  <2>1. \E y \in Nat : \A i \in DOMAIN f : f[i] <= y
    <3>1. V = {}
      <4>. SUFFICES ASSUME V # {} PROVE FALSE
        OBVIOUS
      <4>1. PICK z \in V : \A w \in V : z <= w
        BY LeastNatural
      <4>2. PICK K \in SUBSET DOMAIN f : Cardinality(K) = z /\ ~ \E y \in Nat : \A i \in K : f[i] <= y
        BY <4>1
      <4>3. IsFiniteSet(K)
        BY FS_Subset DEF Slice
      <4>4. PICK j \in K : TRUE
        BY <4>2
      <4>5. Cardinality(K \ {j}) = z - 1 /\ z - 1 \in Nat
        <5>1. IsFiniteSet(K \ {j})
          BY <4>3, FS_RemoveElement
        <5>2. Cardinality(K \ {j}) = Cardinality(K) - 1
          BY <4>3, FS_RemoveElement
        <5>. QED  BY <5>1, <5>2, <4>2, FS_CardinalityType
      <4>6. K \ {j} \in SUBSET DOMAIN f
        OBVIOUS
      <4>7. z - 1 \notin V
        BY <4>1, <4>5
      <4>8. PICK y \in Nat : \A i \in K \ {j} : f[i] <= y
        BY <4>5, <4>6, <4>7
      <4>9. f[j] \in Nat /\ \A i \in K : f[i] \in Nat
        BY DEF Slice
      <4>10. \A i \in K : f[i] <= y + f[j]
        BY <4>8, <4>9
      <4>. QED  BY <4>2, <4>9, <4>10
    <3>2. Cardinality(DOMAIN f) \in Nat /\ DOMAIN f \in SUBSET DOMAIN f
      BY <1>0
    <3>. QED  BY <3>1, <3>2
  <2>2. PICK y \in Nat : \A i \in DOMAIN f : f[i] <= y
    BY <2>1
  <2>3. {i \in DOMAIN f : f[i] < y + 1} = DOMAIN f
    BY <2>2 DEF Slice
  <2>. QED  BY <2>3 DEF Below
<1>2. PICK x \in T : \A y \in T : x <= y
  <2>1. T \subseteq Nat
    OBVIOUS
  <2>. HIDE DEF T
  <2>. QED  BY <1>1, <2>1, LeastNatural
<1>3. x \in Nat /\ k <= Below(f, x + 1)
  OBVIOUS
<1>4. Below(f, x) < k
  <2>1. Below(f, x) \in Nat
    BY <1>3, BelowCounts
  <2>2. CASE x = 0
    <3>1. {i \in DOMAIN f : f[i] < 0} = {}
      BY DEF Slice
    <3>2. Below(f, 0) = 0
      BY <3>1, FS_EmptySet DEF Below
    <3>. QED  BY <2>2, <3>2, <1>0
  <2>3. CASE x # 0
    <3>1. x - 1 \in Nat /\ (x - 1) + 1 = x
      BY <2>3, <1>3
    <3>2. x - 1 \notin T
      BY <1>2, <1>3
    <3>. QED  BY <3>1, <3>2, <2>1, <1>0
  <2>. QED  BY <2>2, <2>3
<1>5. x \in Range(f)
  BY <1>3, <1>4, <1>0, BelowNext, BelowCounts
<1>. QED  BY <1>3, <1>4, <1>5

\* What Ascending returns: as many numbers, each from the slice, each at a place
\* that fits.
LEMMA AscendingFits ==
    ASSUME NEW f, Slice(f)
    PROVE  /\ Cardinality(DOMAIN f) \in Nat
           /\ Ascending(f) \in Seq(Nat)
           /\ Len(Ascending(f)) = Cardinality(DOMAIN f)
           /\ DOMAIN Ascending(f) = 1 .. Cardinality(DOMAIN f)
           /\ \A k \in 1 .. Cardinality(DOMAIN f) :
                /\ Ascending(f)[k] \in Range(f)
                /\ Ascending(f)[k] \in Nat
                /\ Below(f, Ascending(f)[k]) < k
                /\ k <= Below(f, Ascending(f)[k] + 1)
<1>. DEFINE n == Cardinality(DOMAIN f)
<1>1. n \in Nat
  BY FS_CardinalityType DEF Slice
<1>2. Range(f) \subseteq Nat
  BY DEF Range, Slice
<1>3. ASSUME NEW k \in 1 .. n
      PROVE  /\ Ascending(f)[k] \in Range(f)
             /\ Below(f, Ascending(f)[k]) < k
             /\ k <= Below(f, Ascending(f)[k] + 1)
  <2>. DEFINE P(x) == Below(f, x) < k /\ k <= Below(f, x + 1)
  <2>1. \E x \in Range(f) : P(x)
    BY PlaceIsTaken
  <2>2. Ascending(f)[k] = CHOOSE x \in Range(f) : P(x)
    BY DEF Ascending
  <2>. HIDE DEF P
  <2>3. Ascending(f)[k] \in Range(f) /\ P(Ascending(f)[k])
    BY <2>1, <2>2, Zenon
  <2>. QED  BY <2>3 DEF P
<1>4. DOMAIN Ascending(f) = 1 .. n
  BY DEF Ascending
<1>5. Ascending(f) \in [1 .. n -> Nat]
  <2>1. \A k \in 1 .. n : Ascending(f)[k] \in Nat
    BY <1>2, <1>3
  <2>2. Ascending(f) = [k \in DOMAIN Ascending(f) |-> Ascending(f)[k]]
    BY DEF Ascending
  <2>. HIDE DEF n
  <2>. QED  BY <1>4, <2>1, <2>2
<1>. HIDE DEF n
<1>6. Ascending(f) \in Seq(Nat) /\ Len(Ascending(f)) = n
  BY <1>1, <1>5
<1>. QED  BY <1>1, <1>2, <1>3, <1>4, <1>6 DEF n

\* An element of the sorted slice is below x exactly if its place is among the
\* first Below(f, x).
LEMMA AscendingOrder ==
    ASSUME NEW f, Slice(f), NEW x \in Nat, NEW k \in 1 .. Cardinality(DOMAIN f)
    PROVE  Ascending(f)[k] < x <=> k <= Below(f, x)
<1>. DEFINE v == Ascending(f)[k]
<1>1. /\ v \in Nat
      /\ Below(f, v) < k
      /\ k <= Below(f, v + 1)
      /\ k \in Nat
  BY AscendingFits
<1>2. Below(f, x) \in Nat /\ Below(f, v) \in Nat /\ Below(f, v + 1) \in Nat
  BY <1>1, BelowCounts
<1>3. CASE v < x
  <2>1. Below(f, v + 1) <= Below(f, x)
    BY <1>1, <1>3, BelowCounts
  <2>. QED  BY <1>1, <1>2, <1>3, <2>1
<1>4. CASE ~(v < x)
  <2>1. Below(f, x) <= Below(f, v)
    BY <1>1, <1>4, BelowCounts
  <2>. QED  BY <1>1, <1>2, <1>4, <2>1
<1>. QED  BY <1>3, <1>4

\* Sorting changes no count.
LEMMA AscendingCounts ==
    ASSUME NEW f, Slice(f), NEW x \in Nat
    PROVE  Slice(Ascending(f)) /\ Below(Ascending(f), x) = Below(f, x)
<1>. DEFINE n == Cardinality(DOMAIN f)
            b == Below(f, x)
<1>1. n \in Nat /\ b \in Nat /\ b <= n
  BY BelowCounts
<1>2. DOMAIN Ascending(f) = 1 .. n /\ \A k \in 1 .. n : Ascending(f)[k] \in Nat
  BY AscendingFits
<1>3. \A k \in 1 .. n : Ascending(f)[k] < x <=> k <= b
  BY AscendingOrder
<1>. HIDE DEF n, b
<1>4. {k \in 1 .. n : Ascending(f)[k] < x} = 1 .. b
  BY <1>1, <1>3
<1>5. IsFiniteSet(1 .. n) /\ Cardinality(1 .. b) = b
  BY <1>1, FS_Interval
<1>. QED  BY <1>2, <1>4, <1>5 DEF Below, Slice, b

\* A slice without repetitions.
Distinct(f) == \A j, k \in DOMAIN f : f[j] = f[k] => j = k

\* Sorting keeps the elements.
LEMMA AscendingKeeps ==
    ASSUME NEW f, Slice(f)
    PROVE  Range(Ascending(f)) = Range(f)
<1>. DEFINE n == Cardinality(DOMAIN f)
<1>1. /\ n \in Nat
      /\ DOMAIN Ascending(f) = 1 .. n
      /\ \A k \in 1 .. n : Ascending(f)[k] \in Range(f) /\ Ascending(f)[k] \in Nat
  BY AscendingFits
<1>2. Range(Ascending(f)) \subseteq Range(f)
  BY <1>1 DEF Range
<1>3. ASSUME NEW x \in Range(f) PROVE x \in Range(Ascending(f))
  <2>1. x \in Nat
    BY DEF Range, Slice
  <2>. DEFINE k == Below(f, x) + 1
  <2>2. k \in 1 .. n /\ k <= Below(f, x + 1)
    <3>1. /\ Below(f, x) \in Nat
          /\ Below(f, x + 1) \in Nat
          /\ Below(f, x + 1) <= n
      BY <2>1, BelowCounts
    <3>2. Below(f, x + 1) > Below(f, x)
      BY <2>1, BelowNext
    <3>. HIDE DEF n
    <3>. QED  BY <3>1, <3>2, <1>1
  <2>3. ~(Ascending(f)[k] < x) /\ Ascending(f)[k] < x + 1
    <3>1. Ascending(f)[k] < x <=> k <= Below(f, x)
      BY <2>1, <2>2, AscendingOrder
    <3>2. Ascending(f)[k] < x + 1 <=> k <= Below(f, x + 1)
      BY <2>1, <2>2, AscendingOrder
    <3>3. Below(f, x) \in Nat
      BY <2>1, BelowCounts
    <3>. QED  BY <2>2, <3>1, <3>2, <3>3
  <2>4. Ascending(f)[k] = x
    BY <2>1, <2>2, <2>3, <1>1
  <2>. HIDE DEF k
  <2>. QED  BY <2>2, <2>4, <1>1 DEF Range
<1>. QED  BY <1>2, <1>3

\* Sorting a slice without repetitions makes none.
LEMMA AscendingDistinct ==
    ASSUME NEW f, Slice(f), Distinct(f)
    PROVE  Distinct(Ascending(f))
<1>. SUFFICES ASSUME NEW j \in DOMAIN Ascending(f), NEW k \in DOMAIN Ascending(f),
                     Ascending(f)[j] = Ascending(f)[k]
              PROVE  j = k
  BY DEF Distinct
<1>. DEFINE v == Ascending(f)[k]
<1>1. /\ v \in Nat
      /\ j \in Nat /\ k \in Nat
      /\ Below(f, v) < k /\ k <= Below(f, v + 1)
      /\ Below(f, v) < j /\ j <= Below(f, v + 1)
  BY AscendingFits
<1>2. Below(f, v) \in Nat /\ Below(f, v + 1) \in Nat
  BY <1>1, BelowCounts
<1>3. Below(f, v + 1) <= Below(f, v) + 1
  BY <1>1, BelowNext DEF Distinct
<1>. QED  BY <1>1, <1>2, <1>3

\* How many elements of a slice without repetitions are below x depends only on
\* the set of its elements.
LEMMA DistinctCounts ==
    ASSUME NEW f, Slice(f), Distinct(f)
    PROVE  /\ IsFiniteSet(Range(f))
           /\ Cardinality(DOMAIN f) = Cardinality(Range(f))
           /\ \A x \in Nat : Below(f, x) = Cardinality({y \in Range(f) : y < x})
<1>. DEFINE Image(S) == {f[k] : k \in S}
<1>1. ASSUME NEW S \in SUBSET DOMAIN f
      PROVE  IsFiniteSet(Image(S)) /\ Cardinality(Image(S)) = Cardinality(S)
  <2>. DEFINE g == [k \in S |-> f[k]]
  <2>1. IsFiniteSet(S)
    BY FS_Subset DEF Slice
  <2>2. g \in Bijection(S, Image(S))
    <3>1. g \in [S -> Image(S)]
      OBVIOUS
    <3>2. \A j, k \in S : g[j] = g[k] => j = k
      BY DEF Distinct
    <3>3. \A y \in Image(S) : \E k \in S : g[k] = y
      OBVIOUS
    <3>. QED  BY <3>1, <3>2, <3>3 DEF Bijection, Injection, Surjection, IsInjective
  <2>3. ExistsBijection(S, Image(S))
    BY <2>2 DEF ExistsBijection
  <2>. HIDE DEF Image
  <2>. QED  BY <2>1, <2>3, FS_Bijection
<1>2. Range(f) = Image(DOMAIN f)
  BY DEF Range
<1>3. ASSUME NEW x \in Nat
      PROVE  {y \in Range(f) : y < x} = Image({k \in DOMAIN f : f[k] < x})
  BY DEF Range
<1>. HIDE DEF Image
<1>. QED  BY <1>1, <1>2, <1>3 DEF Below

\* Slices without repetitions and with the same elements are sorted alike, so
\* the order in which peers are named to NewConfig does not matter.
LEMMA AscendingBySet ==
    ASSUME NEW f, Slice(f), Distinct(f), NEW g, Slice(g), Distinct(g), Range(f) = Range(g)
    PROVE  Ascending(f) = Ascending(g)
<1>1. Cardinality(DOMAIN f) = Cardinality(DOMAIN g)
  BY DistinctCounts
<1>2. \A x \in Nat : Below(f, x) = Below(g, x)
  BY DistinctCounts
<1>3. \A x \in Range(f) : x \in Nat /\ x + 1 \in Nat
  BY DEF Range, Slice
<1>4. ASSUME NEW k \in 1 .. Cardinality(DOMAIN f) PROVE Ascending(f)[k] = Ascending(g)[k]
  <2>1. /\ Ascending(f)[k] \in Nat
        /\ Below(f, Ascending(f)[k]) < k
        /\ k <= Below(f, Ascending(f)[k] + 1)
    BY AscendingFits
  <2>2. /\ Ascending(g)[k] \in Nat
        /\ \A x \in Nat : Ascending(g)[k] < x <=> k <= Below(f, x)
    BY <1>1, <1>2, AscendingFits, AscendingOrder
  <2>3. Ascending(g)[k] < Ascending(f)[k] + 1
    BY <2>1, <2>2
  <2>4. ~(Ascending(g)[k] < Ascending(f)[k])
    <3>1. Below(f, Ascending(f)[k]) \in Nat /\ k \in Nat
      BY <2>1, BelowCounts
    <3>. QED  BY <2>1, <2>2, <3>1
  <2>. QED  BY <2>1, <2>2, <2>3, <2>4
<1>5. /\ DOMAIN Ascending(f) = 1 .. Cardinality(DOMAIN f)
      /\ DOMAIN Ascending(g) = 1 .. Cardinality(DOMAIN f)
      /\ Ascending(f) = [k \in DOMAIN Ascending(f) |-> Ascending(f)[k]]
      /\ Ascending(g) = [k \in DOMAIN Ascending(g) |-> Ascending(g)[k]]
  BY <1>1 DEF Ascending
<1>. QED  BY <1>4, <1>5, Zenon

-----------------------------------------------------------------------------
(***************************************************************************)
(* The peer tracker.                                                       *)
(***************************************************************************)

\* What the tracker knows of a follower is what the follower has acknowledged.
TrackerInv ==
    /\ DOMAIN tracked \subseteq Follower
    /\ tracked \in [DOMAIN tracked -> [nextIndex : Nat, matchIndex : Nat]]
    /\ stored \in [Follower -> 0 .. LastIndex]
    /\ \A p \in DOMAIN tracked : tracked[p].matchIndex = stored[p]

\* Every step keeps it, because the answers of a follower arrive in order.
LEMMA TrackerKeepsInv ==
    ASSUME TrackerInv, Tracker!Next
    PROVE  TrackerInv'
<1>1. PICK p \in Follower :
        \/ \E m \in 0 .. LastIndex : Tracker!UpdateMatch(p, m)
        \/ Tracker!DecrementNext(p)
  BY DEF Tracker!Next
<1>2. ASSUME NEW m \in 0 .. LastIndex, Tracker!UpdateMatch(p, m)
      PROVE  TrackerInv'
  <2>0. LastIndex \in Nat
    BY PeersAssumption
  <2>1. p \in DOMAIN tracked /\ m >= stored[p]
    BY <1>2 DEF Tracker!UpdateMatch, Tracker!Tracked
  <2>2. stored' = [stored EXCEPT ![p] = m]
    <3>1. stored[p] \in Nat /\ m \in Nat
      BY <2>0 DEF TrackerInv
    <3>2. (IF m > stored[p] THEN m ELSE stored[p]) = m
      BY <2>1, <3>1
    <3>. QED  BY <1>2, <3>2 DEF Tracker!UpdateMatch
  <2>3. /\ DOMAIN tracked' = DOMAIN tracked
        /\ tracked' \in [DOMAIN tracked -> [nextIndex : Nat, matchIndex : Nat]]
        /\ tracked'[p].matchIndex = m
        /\ \A q \in DOMAIN tracked : q # p => tracked'[q] = tracked[q]
    BY <1>2, <2>0, <2>1 DEF Tracker!UpdateMatch, TrackerInv
  <2>. QED  BY <2>1, <2>2, <2>3 DEF TrackerInv
<1>3. ASSUME Tracker!DecrementNext(p)
      PROVE  TrackerInv'
  <2>1. p \in DOMAIN tracked /\ tracked[p].nextIndex > 1 /\ stored' = stored
    BY <1>3 DEF Tracker!DecrementNext, Tracker!Tracked
  <2>2. /\ DOMAIN tracked' = DOMAIN tracked
        /\ tracked' \in [DOMAIN tracked -> [nextIndex : Nat, matchIndex : Nat]]
        /\ \A q \in DOMAIN tracked : tracked'[q].matchIndex = tracked[q].matchIndex
    BY <1>3, <2>1 DEF Tracker!DecrementNext, TrackerInv
  <2>. QED  BY <2>1, <2>2 DEF TrackerInv
<1>. QED  BY <1>1, <1>2, <1>3

\* The tracker counts and sorts as Sorting does.
LEMMA TrackerSorts ==
    /\ \A S : Tracker!Cardinality(S) = Cardinality(S)
    /\ \A f : Tracker!Ascending(f) = Ascending(f)
<1>1. ASSUME NEW S PROVE Tracker!Cardinality(S) = Cardinality(S)
  BY Zenon DEF Tracker!Cardinality, Cardinality
<1>2. ASSUME NEW f, NEW x PROVE Tracker!Below(f, x) = Below(f, x)
  BY <1>1 DEF Tracker!Below, Below
<1>3. ASSUME NEW f PROVE Tracker!Ascending(f) = Ascending(f)
  <2>1. Tracker!Range(f) = Range(f)
    BY DEF Tracker!Range, Range
  <2>2. Tracker!Ascending(f) =
          [k \in 1 .. Cardinality(DOMAIN f) |->
            CHOOSE x \in Range(f) : Tracker!Below(f, x) < k /\ k <= Tracker!Below(f, x + 1)]
    BY <1>1, <2>1 DEF Tracker!Ascending
  <2>. QED  BY <1>2, <2>2 DEF Ascending
<1>. QED  BY <1>1, <1>3

\* The sort and the pick of QuorumMatch agree with counting.
LEMMA QuorumMatchCounts ==
    ASSUME TrackerInv
    PROVE  Tracker!QuorumMatchIsMajority
<1>. DEFINE n == Cardinality(DOMAIN tracked)
            f == [p \in DOMAIN tracked |-> tracked[p].matchIndex]
            m == Ascending(f)
            g == Append(m, LastIndex)
<1>0. LastIndex \in Nat
  BY PeersAssumption
<1>1. IsFiniteSet(DOMAIN tracked) /\ n \in Nat
  BY PeersAssumption, FS_Subset, FS_CardinalityType DEF TrackerInv
<1>2. DOMAIN f = DOMAIN tracked /\ Slice(f)
  BY <1>1 DEF Slice, TrackerInv
<1>3. m \in Seq(Nat) /\ Len(m) = n
  BY <1>2, AscendingFits
<1>4. /\ DOMAIN g = 1 .. n + 1
      /\ Cardinality(DOMAIN g) = n + 1
      /\ g[n + 1] = LastIndex
      /\ \A k \in 1 .. n : g[k] = m[k]
      /\ DOMAIN m = 1 .. n
  <2>1. /\ DOMAIN g = 1 .. n + 1 /\ g[n + 1] = LastIndex /\ \A k \in 1 .. n : g[k] = m[k]
        /\ DOMAIN m = 1 .. n
    <3>. HIDE DEF m, n
    <3>. QED  BY <1>0, <1>1, <1>3
  <2>2. Cardinality(1 .. n + 1) = n + 1
    <3>. HIDE DEF n
    <3>. QED  BY <1>1, FS_Interval
  <2>. QED  BY <2>1, <2>2
<1>5. Slice(g)
  <2>1. IsFiniteSet(1 .. n + 1)
    BY <1>1, FS_Interval
  <2>2. \A k \in 1 .. n + 1 : g[k] \in Nat
    <3>. HIDE DEF m, n
    <3>. QED  BY <1>0, <1>1, <1>3
  <2>. QED  BY <1>4, <2>1, <2>2 DEF Slice
<1>6. Tracker!QuorumMatch(LastIndex) = Ascending(g)[n + 1 - (n + 1) \div 2]
  <2>1. Tracker!MatchIndexes = m
    BY TrackerSorts DEF Tracker!MatchIndexes, Tracker!Tracked
  <2>2. Tracker!Matches(LastIndex) = Ascending(g)
    BY <2>1, TrackerSorts DEF Tracker!Matches
  <2>3. Tracker!Cardinality(Tracker!Tracked) = n
    BY TrackerSorts DEF Tracker!Tracked
  <2>. HIDE DEF g, n
  <2>. QED  BY <1>1, <2>2, <2>3 DEF Tracker!QuorumMatch
<1>7. ASSUME NEW index \in 0 .. LastIndex
      PROVE  index <= Tracker!QuorumMatch(LastIndex) <=> Tracker!OnMajority(index, stored)
  <2>0. index \in Nat
    BY <1>0
  <2>. DEFINE B == {p \in DOMAIN tracked : f[p] < index}
              A == {p \in DOMAIN tracked : stored[p] >= index}
              b == Below(f, index)
              k == n + 1 - (n + 1) \div 2
  <2>1. b = Cardinality(B) /\ b \in Nat /\ b <= n
    BY <2>0, <1>2, BelowCounts DEF Below
  <2>2. Cardinality(A) = n - b
    <3>1. A = DOMAIN tracked \ B
      BY <2>0, <1>0 DEF TrackerInv
    <3>2. B \in SUBSET DOMAIN tracked
      OBVIOUS
    <3>3. Cardinality(DOMAIN tracked \ B) = n - Cardinality(DOMAIN tracked \cap B)
      <4>. HIDE DEF B
      <4>. QED  BY <1>1, FS_Difference
    <3>4. DOMAIN tracked \cap B = B
      BY <3>2
    <3>. HIDE DEF A, B, n, b
    <3>. QED  BY <3>1, <3>3, <3>4, <2>1
  <2>3. Below(g, index) = b
    <3>1. {j \in DOMAIN g : g[j] < index} = {j \in 1 .. n : m[j] < index}
      <4>. HIDE DEF n, m, g
      <4>. QED  BY <1>0, <1>1, <1>4
    <3>2. Below(g, index) = Below(m, index)
      BY <3>1, <1>4 DEF Below
    <3>. QED  BY <3>2, <2>0, <1>2, AscendingCounts
  <2>4. k \in 1 .. n + 1
    <3>. HIDE DEF n
    <3>. QED  BY <1>1
  <2>5. /\ Ascending(g)[k] \in Nat
        /\ Ascending(g)[k] < index <=> k <= b
    BY <1>4, <1>5, <2>0, <2>3, <2>4, AscendingFits, AscendingOrder
  <2>6. index <= Tracker!QuorumMatch(LastIndex) <=> b < k
    <3>1. Tracker!QuorumMatch(LastIndex) = Ascending(g)[k]
      BY <1>6
    <3>2. k \in Nat
      BY <1>1, <2>4
    <3>. HIDE DEF k, b, g
    <3>. QED  BY <3>1, <3>2, <2>0, <2>1, <2>5
  <2>7. Tracker!OnMajority(index, stored) <=> 1 + (n - b) >= (n + 1) \div 2 + 1
    BY <2>2, TrackerSorts DEF Tracker!OnMajority, Tracker!Tracked
  <2>. HIDE DEF n, b
  <2>. QED  BY <1>1, <2>1, <2>6, <2>7
<1>. QED  BY <1>7 DEF Tracker!QuorumMatchIsMajority

-----------------------------------------------------------------------------
(***************************************************************************)
(* Configurations.                                                         *)
(***************************************************************************)

\* MemberList counts and sorts as Sorting does.
LEMMA MembersSort ==
    /\ \A S : Members!Cardinality(S) = Cardinality(S)
    /\ \A f : Members!Range(f) = Range(f)
    /\ \A f : Members!Ascending(f) = Ascending(f)
<1>1. ASSUME NEW S PROVE Members!Cardinality(S) = Cardinality(S)
  BY Zenon DEF Members!Cardinality, Cardinality
<1>2. ASSUME NEW f, NEW x PROVE Members!Below(f, x) = Below(f, x)
  BY <1>1 DEF Members!Below, Below
<1>3. ASSUME NEW f PROVE Members!Range(f) = Range(f)
  BY DEF Members!Range, Range
<1>4. ASSUME NEW f PROVE Members!Ascending(f) = Ascending(f)
  <2>1. Members!Ascending(f) =
          [k \in 1 .. Cardinality(DOMAIN f) |->
            CHOOSE x \in Range(f) : Members!Below(f, x) < k /\ k <= Members!Below(f, x + 1)]
    BY <1>1, <1>3 DEF Members!Ascending
  <2>. QED  BY <1>2, <2>1 DEF Ascending
<1>. QED  BY <1>1, <1>3, <1>4

\* The loop of RemovePeer and OtherPeers leaves out one peer and keeps the rest,
\* each once (membership.go:39-48, 61-70).
LEMMA WithoutLeavesOut ==
    ASSUME NEW c \in Seq(MemberId), Distinct(c), NEW id
    PROVE  /\ Members!Without(c, id) \in Seq(MemberId)
           /\ Distinct(Members!Without(c, id))
           /\ Range(Members!Without(c, id)) = Range(c) \ {id}
<1>. DEFINE F(g, k) == IF k = 0 THEN <<>>
                       ELSE IF c[k] # id THEN Append(g[k - 1], c[k]) ELSE g[k - 1]
            Out(g, n) == g = [k \in 0 .. n |-> F(g, k)]
            E == {n \in Nat : \E g : Out(g, n)}
<1>1. 0 \in E
  <2>. DEFINE g == [k \in 0 .. 0 |-> <<>>]
  <2>1. Out(g, 0)
    OBVIOUS
  <2>. QED  BY <2>1, Zenon
<1>2. ASSUME NEW n \in Nat, n \in E PROVE n + 1 \in E
  <2>1. PICK g : Out(g, n)
    BY <1>2
  <2>0. \A k \in 0 .. n : g[k] = F(g, k)
    <3>. HIDE DEF F
    <3>. QED  BY <2>1
  <2>. DEFINE h == [k \in 0 .. n + 1 |->
                      IF k <= n THEN g[k]
                      ELSE IF c[n + 1] # id THEN Append(g[n], c[n + 1]) ELSE g[n]]
  <2>2. ASSUME NEW k \in 0 .. n + 1 PROVE h[k] = F(h, k)
    <3>1. CASE k = 0
      BY <2>1, <3>1
    <3>2. CASE k \in 1 .. n
      <4>1. g[k] = F(g, k) /\ h[k] = g[k] /\ h[k - 1] = g[k - 1]
        BY <2>0, <3>2
      <4>. QED  BY <3>2, <4>1
    <3>3. CASE k = n + 1
      <4>1. h[k - 1] = g[n] /\ k # 0
        BY <3>3
      <4>. QED  BY <3>3, <4>1
    <3>. QED  BY <3>1, <3>2, <3>3
  <2>3. Out(h, n + 1)
    <3>. DEFINE q == [k \in 0 .. n + 1 |-> F(h, k)]
    <3>1. h = q
      BY <2>2
    <3>. QED  BY <3>1
  <2>. HIDE DEF Out, h
  <2>. QED  BY <2>3
<1>3. Len(c) \in E
  <2>. HIDE DEF E
  <2>. QED  BY <1>1, <1>2, InductiveSet
<1>. DEFINE out == CHOOSE g : Out(g, Len(c))
<1>4. Out(out, Len(c))
  BY <1>3
<1>5. Members!Without(c, id) = out[Len(c)]
  BY DEF Members!Without
<1>. DEFINE L == Len(c)
            Good(k) == /\ out[k] \in Seq(MemberId)
                       /\ Distinct(out[k])
                       /\ Range(out[k]) = {c[j] : j \in 1 .. k} \ {id}
            G == {k \in Nat : k <= L => Good(k)}
<1>6. L \in Nat /\ DOMAIN c = 1 .. L /\ \A k \in 1 .. L : c[k] \in MemberId
  OBVIOUS
<1>7. \A k \in 0 .. L : out[k] = F(out, k)
  BY <1>4, <1>6
<1>. HIDE DEF out, L
<1>8. 0 \in G
  <2>1. out[0] = <<>>
    <3>1. 0 \in 0 .. L
      BY <1>6
    <3>. QED  BY <1>7, <3>1
  <2>2. Range(<<>>) = {} /\ Distinct(<<>>) /\ <<>> \in Seq(MemberId)
    BY DEF Range, Distinct
  <2>3. {c[j] : j \in 1 .. 0} = {}
    OBVIOUS
  <2>. QED  BY <2>1, <2>2, <2>3
<1>9. ASSUME NEW k \in Nat, k \in G PROVE k + 1 \in G
  <2>. SUFFICES ASSUME k + 1 <= L PROVE Good(k + 1)
    OBVIOUS
  <2>1. Good(k)
    BY <1>6, <1>9
  <2>2. k + 1 \in 0 .. L /\ k + 1 \in 1 .. L /\ k + 1 # 0 /\ (k + 1) - 1 = k
    BY <1>6
  <2>3. {c[j] : j \in 1 .. k + 1} = {c[j] : j \in 1 .. k} \cup {c[k + 1]}
    OBVIOUS
  <2>4. CASE c[k + 1] # id
    <3>1. out[k + 1] = Append(out[k], c[k + 1])
      BY <1>7, <2>2, <2>4
    <3>2. c[k + 1] \in MemberId
      BY <1>6, <2>2
    <3>3. Range(out[k + 1]) = Range(out[k]) \cup {c[k + 1]}
      <4>. DEFINE s == out[k]
                  t == Append(s, c[k + 1])
      <4>1. /\ Len(s) \in Nat
            /\ DOMAIN s = 1 .. Len(s)
            /\ DOMAIN t = 1 .. Len(s) + 1
            /\ \A j \in 1 .. Len(s) : t[j] = s[j]
            /\ t[Len(s) + 1] = c[k + 1]
        BY <2>1, <3>2
      <4>. HIDE DEF s, t
      <4>2. Range(t) = Range(s) \cup {c[k + 1]}
        BY <4>1 DEF Range
      <4>. QED  BY <3>1, <4>2 DEF s, t
    <3>4. c[k + 1] \notin Range(out[k])
      <4>1. \A j \in 1 .. k : c[j] # c[k + 1]
        BY <1>6, <2>2 DEF Distinct
      <4>. QED  BY <2>1, <4>1
    <3>5. Distinct(out[k + 1])
      BY <2>1, <3>1, <3>2, <3>4 DEF Distinct, Range
    <3>. QED  BY <2>1, <2>3, <2>4, <3>1, <3>2, <3>3, <3>5
  <2>5. CASE c[k + 1] = id
    <3>1. out[k + 1] = out[k]
      BY <1>7, <2>2, <2>5
    <3>. QED  BY <2>1, <2>3, <2>5, <3>1
  <2>. QED  BY <2>4, <2>5
<1>10. L \in G
  <2>. HIDE DEF G
  <2>. QED  BY <1>6, <1>8, <1>9, InductiveSet
<1>11. Good(L)
  BY <1>6, <1>10
<1>12. Range(c) = {c[j] : j \in 1 .. L}
  BY <1>6 DEF Range
<1>. QED  BY <1>5, <1>11, <1>12 DEF L

\* What NewConfig makes of a list that names no peer twice.
IsConfig(c) ==
    /\ c \in Seq(MemberId)
    /\ Distinct(c)
    /\ c = Ascending(c)

\* A list of peers is a slice of numbers.
LEMMA ListIsSlice ==
    ASSUME NEW c \in Seq(MemberId)
    PROVE  Slice(c) /\ Range(c) \subseteq MemberId /\ Cardinality(DOMAIN c) = Len(c)
<1>. DEFINE n == Len(c)
<1>1. /\ DOMAIN c = 1 .. n
      /\ n \in Nat
      /\ \A k \in 1 .. n : c[k] \in MemberId
  OBVIOUS
<1>. HIDE DEF n
<1>2. IsFiniteSet(1 .. n) /\ Cardinality(1 .. n) = n
  BY <1>1, FS_Interval
<1>3. \A k \in 1 .. n : c[k] \in Nat
  BY <1>1, PeersAssumption
<1>. QED  BY <1>1, <1>2, <1>3 DEF Slice, Range, n

\* NewConfig makes a configuration of the peers it is given (membership.go:13-19).
LEMMA NewConfigSorts ==
    ASSUME NEW c \in Seq(MemberId), Distinct(c)
    PROVE  IsConfig(Members!NewConfig(c)) /\ Range(Members!NewConfig(c)) = Range(c)
<1>. DEFINE a == Ascending(c)
<1>1. Slice(c) /\ Range(c) \subseteq MemberId
  BY ListIsSlice
<1>2. Range(a) = Range(c) /\ Distinct(a)
  BY <1>1, AscendingKeeps, AscendingDistinct
<1>3. a \in Seq(Nat) /\ Slice(a)
  BY <1>1, AscendingFits, AscendingCounts
<1>4. a \in Seq(MemberId)
  <2>. HIDE DEF a
  <2>1. \A k \in 1 .. Len(a) : a[k] \in MemberId
    <3>1. DOMAIN a = 1 .. Len(a)
      BY <1>3
    <3>. QED  BY <1>1, <1>2, <3>1 DEF Range
  <2>. QED  BY <1>3, <2>1
<1>5. a = Ascending(a)
  BY <1>1, <1>2, <1>3, AscendingBySet
<1>6. Members!NewConfig(c) = a
  BY MembersSort DEF Members!NewConfig
<1>. HIDE DEF a
<1>. QED  BY <1>2, <1>4, <1>5, <1>6 DEF IsConfig

\* A configuration is determined by its peers, and its length is their number.
LEMMA ConfigBySet ==
    ASSUME NEW c, IsConfig(c)
    PROVE  /\ IsFiniteSet(Range(c))
           /\ Range(c) \subseteq MemberId
           /\ Len(c) = Cardinality(Range(c))
           /\ \A d : IsConfig(d) /\ Range(c) = Range(d) => c = d
<1>1. c \in Seq(MemberId) /\ Distinct(c) /\ Slice(c)
  BY ListIsSlice DEF IsConfig
<1>2. \A d : IsConfig(d) => Slice(d) /\ Distinct(d) /\ d = Ascending(d)
  BY ListIsSlice DEF IsConfig
<1>3. c = Ascending(c)
  BY DEF IsConfig
<1>4. ASSUME NEW d, IsConfig(d), Range(c) = Range(d) PROVE c = d
  BY <1>1, <1>2, <1>3, <1>4, AscendingBySet
<1>. QED  BY <1>1, <1>4, ListIsSlice, DistinctCounts

\* AddPeer returns a configuration with the peer added, itself if it was there
\* (membership.go:50-59).
LEMMA AddPeerAdds ==
    ASSUME NEW c, IsConfig(c), NEW p \in MemberId
    PROVE  /\ IsConfig(Members!AddPeer(c, p))
           /\ Range(Members!AddPeer(c, p)) = Range(c) \cup {p}
<1>0. c \in Seq(MemberId) /\ Distinct(c)
  BY DEF IsConfig
<1>1. Members!HasPeer(c, p) <=> p \in Range(c)
  BY <1>0 DEF Members!HasPeer, Range
<1>2. CASE Members!HasPeer(c, p)
  BY <1>1, <1>2 DEF Members!AddPeer
<1>3. CASE ~Members!HasPeer(c, p)
  <2>. DEFINE a == Append(c, p)
  <2>1. /\ a \in Seq(MemberId)
        /\ Len(c) \in Nat
        /\ DOMAIN c = 1 .. Len(c)
        /\ DOMAIN a = 1 .. Len(c) + 1
        /\ \A k \in 1 .. Len(c) : a[k] = c[k]
        /\ a[Len(c) + 1] = p
    BY <1>0
  <2>2. Members!AddPeer(c, p) = Members!NewConfig(a)
    BY <1>3 DEF Members!AddPeer
  <2>. HIDE DEF a
  <2>3. Distinct(a) /\ Range(a) = Range(c) \cup {p}
    <3>1. Range(a) = Range(c) \cup {p}
      BY <2>1 DEF Range
    <3>2. \A k \in 1 .. Len(c) : c[k] # p
      BY <1>1, <1>3, <2>1 DEF Range
    <3>3. Distinct(a)
      BY <1>0, <2>1, <3>2 DEF Distinct
    <3>. QED  BY <3>1, <3>3
  <2>. QED  BY <2>1, <2>2, <2>3, NewConfigSorts
<1>. QED  BY <1>2, <1>3

\* RemovePeer returns a configuration without the peer (membership.go:61-70).
LEMMA RemovePeerRemoves ==
    ASSUME NEW c, IsConfig(c), NEW p \in MemberId
    PROVE  /\ IsConfig(Members!RemovePeer(c, p))
           /\ Range(Members!RemovePeer(c, p)) = Range(c) \ {p}
  BY WithoutLeavesOut, NewConfigSorts DEF IsConfig, Members!RemovePeer

\* Equal compares configurations as lists (membership.go:72-83).
LEMMA EqualIsEquality ==
    ASSUME NEW c \in Seq(MemberId), NEW d \in Seq(MemberId)
    PROVE  Members!Equal(c, d) <=> c = d
  BY DEF Members!Equal

\* small is big, or big without one peer.
WithinOne(small, big) ==
    \/ small = big
    \/ \E p \in big : small = big \ {p}

\* Both configurations are sorted lists, and one has at most one peer more.
MembersInv ==
    /\ IsConfig(list)
    /\ IsConfig(oldList)
    /\ WithinOne(Range(oldList), Range(list)) \/ WithinOne(Range(list), Range(oldList))

\* The first configuration.
LEMMA MembersStart ==
    ASSUME Members!Init
    PROVE  MembersInv
<1>1. PICK l \in Members!Lists : list = Members!NewConfig(l)
  BY DEF Members!Init
<1>2. l \in Seq(MemberId) /\ Distinct(l)
  <2>1. PICK n \in 0 .. MaxPeers : l \in [1 .. n -> MemberId]
    BY DEF Members!Lists
  <2>2. n \in Nat
    BY PeersAssumption
  <2>3. \A j, k \in DOMAIN l : l[j] = l[k] => j = k
    BY DEF Members!Lists, Members!IsInjective
  <2>. QED  BY <2>1, <2>2, <2>3 DEF Distinct
<1>. QED  BY <1>1, <1>2, NewConfigSorts DEF Members!Init, MembersInv, WithinOne

\* A step adds one peer or removes one.
LEMMA MembersStep ==
    ASSUME MembersInv, Members!Next
    PROVE  \E p \in MemberId :
              /\ oldList' = list
              /\ IsConfig(list')
              /\ \/ p \notin Range(list) /\ Range(list') = Range(list) \cup {p}
                 \/ p \in Range(list) /\ Range(list') = Range(list) \ {p}
<1>1. PICK p \in MemberId : Members!Add(p) \/ Members!Remove(p)
  BY DEF Members!Next
<1>2. IsConfig(list)
  BY DEF MembersInv
<1>3. CASE Members!Add(p)
  <2>. DEFINE c == Members!AddPeer(list, p)
  <2>1. IsConfig(c) /\ Range(c) = Range(list) \cup {p}
    BY <1>2, AddPeerAdds
  <2>2. ~Members!Equal(c, list) /\ list' = c /\ oldList' = list
    BY <1>3 DEF Members!Add, Members!ChangeTo
  <2>3. p \notin Range(list)
    <3>. SUFFICES ASSUME p \in Range(list) PROVE FALSE
      OBVIOUS
    <3>1. Range(c) = Range(list)
      BY <2>1
    <3>2. c = list
      BY <1>2, <2>1, <3>1, ConfigBySet
    <3>. QED  BY <1>2, <2>2, <3>2, EqualIsEquality DEF IsConfig
  <2>. QED  BY <2>1, <2>2, <2>3
<1>4. CASE Members!Remove(p)
  <2>. DEFINE c == Members!RemovePeer(list, p)
  <2>1. IsConfig(c) /\ Range(c) = Range(list) \ {p}
    BY <1>2, RemovePeerRemoves
  <2>2. ~Members!Equal(c, list) /\ list' = c /\ oldList' = list
    BY <1>4 DEF Members!Remove, Members!ChangeTo
  <2>3. p \in Range(list)
    <3>. SUFFICES ASSUME p \notin Range(list) PROVE FALSE
      OBVIOUS
    <3>1. Range(c) = Range(list)
      BY <2>1
    <3>2. c = list
      BY <1>2, <2>1, <3>1, ConfigBySet
    <3>. QED  BY <1>2, <2>2, <3>2, EqualIsEquality DEF IsConfig
  <2>. QED  BY <2>1, <2>2, <2>3
<1>. QED  BY <1>1, <1>3, <1>4

\* Every change keeps the invariant.
LEMMA MembersKeepInv ==
    ASSUME MembersInv, Members!Next
    PROVE  MembersInv'
<1>1. PICK p \in MemberId :
              /\ oldList' = list
              /\ IsConfig(list')
              /\ \/ p \notin Range(list) /\ Range(list') = Range(list) \cup {p}
                 \/ p \in Range(list) /\ Range(list') = Range(list) \ {p}
  BY MembersStep
<1>2. CASE p \notin Range(list) /\ Range(list') = Range(list) \cup {p}
  <2>1. p \in Range(list') /\ Range(oldList') = Range(list') \ {p}
    BY <1>1, <1>2
  <2>2. WithinOne(Range(oldList'), Range(list'))
    BY <2>1 DEF WithinOne
  <2>. QED  BY <1>1, <2>2 DEF MembersInv
<1>3. CASE p \in Range(list) /\ Range(list') = Range(list) \ {p}
  <2>1. p \in Range(oldList') /\ Range(list') = Range(oldList') \ {p}
    BY <1>1, <1>3
  <2>2. WithinOne(Range(list'), Range(oldList'))
    BY <2>1 DEF WithinOne
  <2>. QED  BY <1>1, <2>2 DEF MembersInv
<1>. QED  BY <1>1, <1>2, <1>3

\* A change of the list is a change of the abstract membership.
LEMMA MembersImplement ==
    /\ Members!Init => Members!M!Init
    /\ MembersInv /\ Members!Next => Members!M!Next
<1>1. ASSUME Members!Init PROVE Members!M!Init
  <2>1. Range(list) \subseteq MemberId
    BY <1>1, MembersStart, ConfigBySet DEF MembersInv
  <2>. QED  BY <1>1, <2>1, MembersSort DEF Members!Init, Members!M!Init
<1>2. ASSUME MembersInv, Members!Next PROVE Members!M!Next
  <2>1. PICK p \in MemberId :
              /\ oldList' = list
              /\ IsConfig(list')
              /\ \/ p \notin Range(list) /\ Range(list') = Range(list) \cup {p}
                 \/ p \in Range(list) /\ Range(list') = Range(list) \ {p}
    BY <1>2, MembersStep
  <2>2. Members!M!Add(p) \/ Members!M!Remove(p)
    BY <2>1, MembersSort DEF Members!M!Add, Members!M!Remove, Members!M!Change
  <2>. QED  BY <2>2 DEF Members!M!Next
<1>. QED  BY <1>1, <1>2

\* Two disjoint sets inside a finite set have together at most its size: the
\* counting argument behind the quorum of membership.go:34-37.
LEMMA DisjointFit ==
    ASSUME NEW S, IsFiniteSet(S), NEW a \in SUBSET S, NEW b \in SUBSET S, a \cap b = {}
    PROVE  /\ Cardinality(a) \in Nat
           /\ Cardinality(b) \in Nat
           /\ Cardinality(S) \in Nat
           /\ Cardinality(a) + Cardinality(b) <= Cardinality(S)
<1>1. IsFiniteSet(a) /\ IsFiniteSet(b) /\ a \cup b \in SUBSET S
  BY FS_Subset
<1>2. Cardinality(a) \in Nat /\ Cardinality(b) \in Nat /\ Cardinality(S) \in Nat
  BY <1>1, FS_CardinalityType
<1>3. Cardinality(a \cup b) = Cardinality(a) + Cardinality(b) - Cardinality(a \cap b)
  BY <1>1, FS_Union
<1>4. Cardinality(a \cap b) = 0
  BY FS_EmptySet
<1>5. Cardinality(a \cup b) <= Cardinality(S)
  BY <1>1, FS_Subset
<1>. QED  BY <1>2, <1>3, <1>4, <1>5

\* A majority of a set and one of the same set without one peer meet: AddPeer and
\* RemovePeer change one peer at a time (membership.go:50-70).
LEMMA NeighboursOverlap ==
    ASSUME NEW big, IsFiniteSet(big), NEW small, WithinOne(small, big),
           NEW a \in SUBSET small, Cardinality(a) >= Cardinality(small) \div 2 + 1,
           NEW b \in SUBSET big, Cardinality(b) >= Cardinality(big) \div 2 + 1
    PROVE  a \cap b # {}
<1>. SUFFICES ASSUME a \cap b = {} PROVE FALSE
  OBVIOUS
<1>1. small \in SUBSET big
  BY DEF WithinOne
<1>2. /\ Cardinality(a) \in Nat
      /\ Cardinality(b) \in Nat
      /\ Cardinality(big) \in Nat
      /\ Cardinality(a) + Cardinality(b) <= Cardinality(big)
  <2>1. a \in SUBSET big
    BY <1>1
  <2>. QED  BY <2>1, DisjointFit
<1>3. /\ Cardinality(small) \in Nat
      /\ \/ Cardinality(small) = Cardinality(big)
         \/ Cardinality(small) = Cardinality(big) - 1
  <2>1. CASE small = big
    BY <2>1, <1>2
  <2>2. ASSUME NEW p \in big, small = big \ {p}
        PROVE  Cardinality(small) \in Nat /\ Cardinality(small) = Cardinality(big) - 1
    <3>1. IsFiniteSet(small)
      BY <1>1, FS_Subset
    <3>. QED  BY <2>2, <3>1, FS_RemoveElement, FS_CardinalityType
  <2>. QED  BY <2>1, <2>2 DEF WithinOne
<1>. QED  BY <1>2, <1>3

\* Majorities of the lists meet: their lengths are the numbers of peers.
LEMMA ListMajoritiesMeet ==
    ASSUME MembersInv
    PROVE  Members!MajoritiesOverlap
<1>. SUFFICES ASSUME NEW a \in SUBSET Range(list), NEW b \in SUBSET Range(oldList),
                     Members!IsMajority(list, Cardinality(a)),
                     Members!IsMajority(oldList, Cardinality(b))
              PROVE  a \cap b # {}
  BY MembersSort DEF Members!MajoritiesOverlap
<1>1. /\ IsFiniteSet(Range(list)) /\ Len(list) = Cardinality(Range(list))
      /\ IsFiniteSet(Range(oldList)) /\ Len(oldList) = Cardinality(Range(oldList))
  BY ConfigBySet DEF MembersInv
<1>2. /\ Cardinality(a) >= Cardinality(Range(list)) \div 2 + 1
      /\ Cardinality(b) >= Cardinality(Range(oldList)) \div 2 + 1
  BY <1>1 DEF Members!IsMajority, Members!Quorum
<1>3. CASE WithinOne(Range(oldList), Range(list))
  <2>1. b \cap a # {}
    BY <1>1, <1>2, <1>3, NeighboursOverlap
  <2>. QED  BY <2>1
<1>4. CASE WithinOne(Range(list), Range(oldList))
  BY <1>1, <1>2, <1>4, NeighboursOverlap
<1>. QED  BY <1>3, <1>4 DEF MembersInv

\* A configuration is determined by its peers, so the order of changes is lost.
LEMMA OrderIsLost ==
    ASSUME MembersInv
    PROVE  Members!OrderIsIrrelevant
<1>0. IsConfig(list)
  BY DEF MembersInv
<1>1. ASSUME NEW p \in MemberId, NEW q \in MemberId
      PROVE  Members!Equal(Members!AddPeer(Members!AddPeer(list, p), q),
                           Members!AddPeer(Members!AddPeer(list, q), p))
  <2>. DEFINE c == Members!AddPeer(Members!AddPeer(list, p), q)
              d == Members!AddPeer(Members!AddPeer(list, q), p)
  <2>1. IsConfig(c) /\ Range(c) = (Range(list) \cup {p}) \cup {q}
    BY <1>0, AddPeerAdds
  <2>2. IsConfig(d) /\ Range(d) = (Range(list) \cup {q}) \cup {p}
    BY <1>0, AddPeerAdds
  <2>. HIDE DEF c, d
  <2>3. Range(c) = Range(d)
    BY <2>1, <2>2
  <2>4. c = d
    BY <2>1, <2>2, <2>3, ConfigBySet
  <2>5. Members!Equal(c, d)
    BY <2>1, <2>2, <2>4, EqualIsEquality DEF IsConfig
  <2>. QED  BY <2>5 DEF c, d
<1>2. ASSUME NEW p \in Range(list)
      PROVE  Members!Equal(Members!AddPeer(Members!RemovePeer(list, p), p), list)
  <2>. DEFINE c == Members!AddPeer(Members!RemovePeer(list, p), p)
  <2>1. p \in MemberId
    BY <1>0, ConfigBySet
  <2>2. IsConfig(c) /\ Range(c) = (Range(list) \ {p}) \cup {p}
    BY <1>0, <2>1, RemovePeerRemoves, AddPeerAdds
  <2>. HIDE DEF c
  <2>3. Range(c) = Range(list)
    BY <2>2
  <2>4. c = list
    BY <1>0, <2>2, <2>3, ConfigBySet
  <2>5. Members!Equal(c, list)
    BY <1>0, <2>2, <2>4, EqualIsEquality DEF IsConfig
  <2>. QED  BY <2>5 DEF c
<1>. QED  BY <1>1, <1>2, MembersSort DEF Members!OrderIsIrrelevant

\* OtherPeers leaves out one peer, and the node adds one again.
LEMMA OtherPeersCount ==
    ASSUME MembersInv
    PROVE  Members!NodesUseTheQuorum
<1>0. IsConfig(list)
  BY DEF MembersInv
<1>1. ASSUME NEW p \in Range(list)
      PROVE  Len(Members!OtherPeers(list, p)) + 1 = Len(list)
  <2>. DEFINE o == Members!OtherPeers(list, p)
  <2>1. o \in Seq(MemberId) /\ Distinct(o) /\ Range(o) = Range(list) \ {p}
    BY <1>0, WithoutLeavesOut DEF IsConfig, Members!OtherPeers
  <2>. HIDE DEF o
  <2>2. Len(o) = Cardinality(Range(o))
    BY <2>1, ListIsSlice, DistinctCounts
  <2>3. /\ IsFiniteSet(Range(list))
        /\ Len(list) = Cardinality(Range(list))
        /\ Cardinality(Range(list)) \in Nat
    BY <1>0, ConfigBySet, FS_CardinalityType
  <2>4. Cardinality(Range(list) \ {p}) = Cardinality(Range(list)) - 1
    BY <2>3, FS_RemoveElement
  <2>5. Len(o) = Len(list) - 1
    BY <2>1, <2>2, <2>3, <2>4
  <2>. QED  BY <2>3, <2>5 DEF o
<1>. QED  BY <1>1, MembersSort DEF Members!NodesUseTheQuorum, Members!Quorum

-----------------------------------------------------------------------------
(***************************************************************************)
(* The transport.                                                          *)
(***************************************************************************)

Elements(s) == {s[k] : k \in 1 .. Len(s)}

Increasing(s) == \A j, k \in 1 .. Len(s) : j < k => s[j] < s[k]

\* What was received by i and then what its mailbox holds.
Through(i) == received[i] \o Mail!Pending(i)

\* The messages accepted so far are 1 to n.
Numbered(n) ==
    /\ \A i \in MailId : Elements(accepted[i]) \subseteq 1 .. n
    /\ \A x \in 1 .. n : \E i \in MailId : x \in Elements(accepted[i])
    /\ discarded \subseteq 1 .. n

\* A message is accepted for one peer and has the next number.
MailInv ==
    /\ DOMAIN mailbox \subseteq MailId
    /\ mailbox \in [DOMAIN mailbox -> Seq(Nat)]
    /\ closed \in BOOLEAN
    /\ accepted \in [MailId -> Seq(Nat)]
    /\ received \in [MailId -> Seq(Nat)]
    /\ \E n \in Nat : Numbered(n)
    /\ \A i, j \in MailId : i # j => Elements(accepted[i]) \cap Elements(accepted[j]) = {}
    /\ \A i \in MailId : /\ Increasing(Through(i))
                         /\ Elements(Through(i)) = Elements(accepted[i]) \ discarded

\* The elements of a sequence made of two.
LEMMA ElementsOfTwo ==
    ASSUME NEW s \in Seq(Nat), NEW t \in Seq(Nat)
    PROVE  /\ s \o t \in Seq(Nat)
           /\ Elements(s \o t) = Elements(s) \cup Elements(t)
           /\ Increasing(s \o t) <=>
                /\ Increasing(s)
                /\ Increasing(t)
                /\ \A x \in Elements(s), y \in Elements(t) : x < y
<1>. DEFINE st == s \o t
            m == Len(s)
            n == Len(t)
<1>1. /\ st \in Seq(Nat)
      /\ m \in Nat
      /\ n \in Nat
      /\ Len(st) = m + n
      /\ \A k \in 1 .. m : st[k] = s[k]
      /\ \A k \in 1 .. n : st[m + k] = t[k]
      /\ \A k \in 1 .. m : s[k] \in Nat
      /\ \A k \in 1 .. n : t[k] \in Nat
  OBVIOUS
<1>2. Elements(s) = {s[k] : k \in 1 .. m} /\ Elements(t) = {t[k] : k \in 1 .. n}
  BY DEF Elements
<1>3. Increasing(s) <=> \A j, k \in 1 .. m : j < k => s[j] < s[k]
  BY DEF Increasing
<1>4. Increasing(t) <=> \A j, k \in 1 .. n : j < k => t[j] < t[k]
  BY DEF Increasing
<1>. HIDE DEF st, m, n
<1>5. \A k \in 1 .. m + n : k \in 1 .. m \/ \E l \in 1 .. n : k = m + l
  <2>. SUFFICES ASSUME NEW k \in 1 .. m + n, k \notin 1 .. m PROVE \E l \in 1 .. n : k = m + l
    OBVIOUS
  <2>1. k - m \in 1 .. n /\ k = m + (k - m)
    BY <1>1
  <2>. QED  BY <2>1
<1>6. Elements(st) = Elements(s) \cup Elements(t)
  <2>1. ASSUME NEW k \in 1 .. m + n PROVE st[k] \in Elements(s) \cup Elements(t)
    <3>1. CASE k \in 1 .. m
      BY <1>1, <1>2, <3>1
    <3>2. ASSUME NEW l \in 1 .. n, k = m + l PROVE st[k] \in Elements(t)
      BY <1>1, <1>2, <3>2
    <3>. QED  BY <1>5, <3>1, <3>2
  <2>2. ASSUME NEW k \in 1 .. m PROVE k \in 1 .. m + n /\ s[k] = st[k]
    BY <1>1
  <2>3. ASSUME NEW k \in 1 .. n PROVE m + k \in 1 .. m + n /\ t[k] = st[m + k]
    BY <1>1
  <2>4. Elements(st) = {st[k] : k \in 1 .. m + n}
    BY <1>1 DEF Elements
  <2>. QED  BY <1>2, <2>1, <2>2, <2>3, <2>4
<1>7. ASSUME Increasing(st)
      PROVE  /\ Increasing(s)
             /\ Increasing(t)
             /\ \A x \in Elements(s), y \in Elements(t) : x < y
  <2>1. \A j, k \in 1 .. m + n : j < k => st[j] < st[k]
    BY <1>1, <1>7 DEF Increasing
  <2>2. Increasing(s)
    BY <1>1, <1>3, <2>1
  <2>3. ASSUME NEW j \in 1 .. n, NEW k \in 1 .. n, j < k PROVE t[j] < t[k]
    <3>1. m + j \in 1 .. m + n /\ m + k \in 1 .. m + n /\ m + j < m + k
      BY <1>1, <2>3
    <3>. QED  BY <1>1, <2>1, <3>1
  <2>4. ASSUME NEW j \in 1 .. m, NEW k \in 1 .. n PROVE s[j] < t[k]
    <3>1. j \in 1 .. m + n /\ m + k \in 1 .. m + n /\ j < m + k
      BY <1>1
    <3>. QED  BY <1>1, <2>1, <3>1
  <2>. QED  BY <1>2, <1>4, <2>2, <2>3, <2>4
<1>8. ASSUME Increasing(s), Increasing(t), \A x \in Elements(s), y \in Elements(t) : x < y
      PROVE  Increasing(st)
  <2>. SUFFICES ASSUME NEW j \in 1 .. m + n, NEW k \in 1 .. m + n, j < k
                PROVE  st[j] < st[k]
    BY <1>1 DEF Increasing
  <2>1. CASE k \in 1 .. m
    <3>1. j \in 1 .. m
      BY <1>1, <2>1
    <3>. QED  BY <1>1, <1>3, <1>8, <2>1, <3>1
  <2>2. ASSUME NEW l \in 1 .. n, k = m + l PROVE st[j] < st[k]
    <3>1. CASE j \in 1 .. m
      BY <1>1, <1>2, <1>8, <2>2, <3>1
    <3>2. ASSUME NEW i \in 1 .. n, j = m + i PROVE st[j] < st[k]
      <4>1. i < l
        BY <1>1, <2>2, <3>2
      <4>2. t[i] < t[l]
        BY <1>4, <1>8, <4>1
      <4>3. st[j] = t[i] /\ st[k] = t[l]
        BY <1>1, <2>2, <3>2
      <4>. QED  BY <4>2, <4>3
    <3>. QED  BY <1>5, <3>1, <3>2
  <2>. QED  BY <1>5, <2>1, <2>2
<1>. QED  BY <1>1, <1>6, <1>7, <1>8 DEF st

\* The empty sequence, and a sequence of one.
LEMMA ElementsOfOne ==
    /\ <<>> \in Seq(Nat) /\ Elements(<<>>) = {} /\ Increasing(<<>>)
    /\ \A x \in Nat : /\ <<x>> \in Seq(Nat)
                      /\ Elements(<<x>>) = {x}
                      /\ Increasing(<<x>>)
  BY DEF Elements, Increasing

\* What the map holds for a peer is a sequence of numbers.
LEMMA PendingType ==
    ASSUME MailInv, NEW i \in MailId
    PROVE  Mail!Pending(i) \in Seq(Nat)
  BY DEF MailInv, Mail!Pending, Mail!Known

\* The next number is one more than the last.
LEMMA NextNumber ==
    ASSUME NEW n \in Nat, Numbered(n)
    PROVE  Mail!NextMessage = n + 1
<1>1. \A S : Mail!Cardinality(S) = Cardinality(S)
  BY Zenon DEF Mail!Cardinality, Cardinality
<1>2. UNION {Mail!Messages(accepted[i]) : i \in MailId} = 1 .. n
  <2>1. \A i \in MailId : Mail!Messages(accepted[i]) = Elements(accepted[i])
    BY DEF Mail!Messages, Elements
  <2>. QED  BY <2>1 DEF Numbered
<1>3. Cardinality(1 .. n) = n
  BY FS_Interval
<1>4. Mail!Cardinality(UNION {Mail!Messages(accepted[i]) : i \in MailId}) = n
  BY <1>1, <1>2, <1>3, Zenon
<1>5. Mail!NextMessage = 1 + n
  BY <1>4, Zenon DEF Mail!NextMessage
<1>. QED  BY <1>5

\* Init: nothing is accepted yet.
LEMMA MailStart ==
    ASSUME Mail!Init
    PROVE  MailInv
<1>1. \A i \in MailId : accepted[i] = <<>> /\ received[i] = <<>> /\ Mail!Pending(i) = <<>>
  BY DEF Mail!Init, Mail!Pending, Mail!Known
<1>2. \A i \in MailId : Elements(accepted[i]) = {} /\ Through(i) = <<>>
  BY <1>1, ElementsOfOne DEF Through
<1>3. Numbered(0)
  BY <1>2 DEF Numbered, Mail!Init
<1>4. /\ DOMAIN mailbox \subseteq MailId
      /\ mailbox \in [DOMAIN mailbox -> Seq(Nat)]
      /\ closed \in BOOLEAN
      /\ accepted \in [MailId -> Seq(Nat)]
      /\ received \in [MailId -> Seq(Nat)]
      /\ discarded = {}
  <2>1. MailPeers \subseteq MailId /\ mailbox = [i \in MailPeers |-> <<>>]
    BY PeersAssumption DEF Mail!Init
  <2>2. DOMAIN mailbox \subseteq MailId /\ mailbox \in [DOMAIN mailbox -> Seq(Nat)]
    BY <2>1
  <2>3. accepted \in [MailId -> Seq(Nat)] /\ received \in [MailId -> Seq(Nat)]
    BY DEF Mail!Init
  <2>. QED  BY <2>2, <2>3 DEF Mail!Init
<1>. QED  BY <1>2, <1>3, <1>4, ElementsOfOne DEF MailInv

\* Send: the new number is the largest of all.
LEMMA SendKeepsInv ==
    ASSUME MailInv, NEW i \in MailId, Mail!Send(i)
    PROVE  MailInv'
<1>1. PICK n \in Nat : Numbered(n)
  BY DEF MailInv
<1>. DEFINE m == n + 1
<1>0. m \in Nat /\ (1 .. n) \cup {m} = 1 .. m /\ \A x \in 1 .. n : x < m /\ x # m
  OBVIOUS
<1>2. /\ i \in DOMAIN mailbox
      /\ mailbox' = [mailbox EXCEPT ![i] = Append(@, m)]
      /\ accepted' = [accepted EXCEPT ![i] = Append(@, m)]
      /\ closed' = closed
      /\ received' = received
      /\ discarded' = discarded
  BY <1>1, NextNumber DEF Mail!Send, Mail!Known
<1>. HIDE DEF m
<1>3. /\ DOMAIN mailbox' = DOMAIN mailbox
      /\ mailbox' \in [DOMAIN mailbox -> Seq(Nat)]
      /\ accepted' \in [MailId -> Seq(Nat)]
      /\ mailbox'[i] = mailbox[i] \o <<m>>
      /\ accepted'[i] = accepted[i] \o <<m>>
      /\ \A j \in MailId : j # i => accepted'[j] = accepted[j]
      /\ \A j \in DOMAIN mailbox : j # i => mailbox'[j] = mailbox[j]
  <2>1. \A s \in Seq(Nat) : Append(s, m) = s \o <<m>> /\ Append(s, m) \in Seq(Nat)
    BY <1>0
  <2>2. mailbox[i] \in Seq(Nat) /\ accepted[i] \in Seq(Nat)
    BY <1>2 DEF MailInv
  <2>3. /\ mailbox \in [DOMAIN mailbox -> Seq(Nat)]
        /\ accepted \in [MailId -> Seq(Nat)]
    BY DEF MailInv
  <2>. QED  BY <1>2, <2>1, <2>2, <2>3
<1>4. \A j \in MailId : \A x \in Elements(accepted[j]) : x \in 1 .. n
  BY <1>1 DEF Numbered
<1>5. Elements(accepted'[i]) = Elements(accepted[i]) \cup {m}
  <2>1. accepted[i] \in Seq(Nat) /\ <<m>> \in Seq(Nat) /\ Elements(<<m>>) = {m}
    BY <1>0, ElementsOfOne DEF MailInv
  <2>. QED  BY <1>3, <2>1, ElementsOfTwo
<1>6. \A j \in MailId : j # i => Elements(accepted'[j]) = Elements(accepted[j])
  BY <1>3
<1>7. Numbered(m)'
  <2>1. \A j \in MailId : Elements(accepted'[j]) \subseteq 1 .. m
    BY <1>0, <1>4, <1>5, <1>6
  <2>2. \A x \in 1 .. m : \E j \in MailId : x \in Elements(accepted'[j])
    BY <1>0, <1>1, <1>5, <1>6 DEF Numbered
  <2>3. discarded' \subseteq 1 .. m
    BY <1>0, <1>1, <1>2 DEF Numbered
  <2>. QED  BY <2>1, <2>2, <2>3 DEF Numbered
<1>8. ASSUME NEW j \in MailId
      PROVE  /\ Increasing(Through(j)')
             /\ Elements(Through(j)') = Elements(accepted'[j]) \ discarded'
  <2>1. CASE j = i
    <3>1. Mail!Pending(j)' = Mail!Pending(j) \o <<m>>
      BY <1>2, <1>3, <2>1 DEF Mail!Pending, Mail!Known
    <3>2. /\ received[j] \in Seq(Nat)
          /\ Mail!Pending(j) \in Seq(Nat)
          /\ <<m>> \in Seq(Nat)
          /\ Elements(<<m>>) = {m}
          /\ Increasing(<<m>>)
      BY <1>0, PendingType, ElementsOfOne DEF MailInv
    <3>3. Through(j) \in Seq(Nat) /\ Through(j)' = Through(j) \o <<m>>
      <4>1. Through(j)' = received[j] \o (Mail!Pending(j) \o <<m>>)
        BY <1>2, <3>1 DEF Through
      <4>. DEFINE r == received[j]
                  q == Mail!Pending(j)
      <4>2. r \in Seq(Nat) /\ q \in Seq(Nat) /\ <<m>> \in Seq(Nat)
        BY <3>2
      <4>. HIDE DEF r, q
      <4>3. r \o q \in Seq(Nat) /\ r \o (q \o <<m>>) = (r \o q) \o <<m>>
        BY <4>2
      <4>. QED  BY <4>1, <4>3 DEF Through, r, q
    <3>4. Increasing(Through(j)) /\ Elements(Through(j)) = Elements(accepted[j]) \ discarded
      BY DEF MailInv
    <3>5. \A x \in Elements(Through(j)) : x < m
      BY <1>0, <1>4, <3>4
    <3>6. Increasing(Through(j)') /\ Elements(Through(j)') = Elements(Through(j)) \cup {m}
      <4>. DEFINE q == Through(j)
      <4>1. q \in Seq(Nat) /\ Increasing(q) /\ \A x \in Elements(q) : x < m
        BY <3>3, <3>4, <3>5
      <4>. HIDE DEF q
      <4>3. \A x \in Elements(q), y \in Elements(<<m>>) : x < y
        BY <3>2, <4>1
      <4>2. Increasing(q \o <<m>>) /\ Elements(q \o <<m>>) = Elements(q) \cup Elements(<<m>>)
        BY <3>2, <4>1, <4>3, ElementsOfTwo, Zenon
      <4>. QED  BY <3>2, <3>3, <4>2 DEF q
    <3>7. m \notin discarded
      BY <1>0, <1>1 DEF Numbered
    <3>. QED  BY <1>2, <1>5, <2>1, <3>4, <3>6, <3>7
  <2>2. CASE j # i
    <3>1. Through(j)' = Through(j) /\ accepted'[j] = accepted[j]
      BY <1>2, <1>3, <2>2 DEF Through, Mail!Pending, Mail!Known
    <3>. QED  BY <1>2, <3>1 DEF MailInv
  <2>. QED  BY <2>1, <2>2
<1>9. \A j, k \in MailId : j # k => Elements(accepted'[j]) \cap Elements(accepted'[k]) = {}
  <2>1. \A j \in MailId : m \notin Elements(accepted[j])
    BY <1>0, <1>4
  <2>2. \A j, k \in MailId : j # k => Elements(accepted[j]) \cap Elements(accepted[k]) = {}
    BY DEF MailInv
  <2>. SUFFICES ASSUME NEW j \in MailId, NEW k \in MailId, j # k
                PROVE  Elements(accepted'[j]) \cap Elements(accepted'[k]) = {}
    OBVIOUS
  <2>3. Elements(accepted[j]) \cap Elements(accepted[k]) = {}
    BY <2>2
  <2>4. CASE j = i
    BY <1>5, <1>6, <2>1, <2>3, <2>4
  <2>5. CASE k = i
    BY <1>5, <1>6, <2>1, <2>3, <2>5
  <2>6. CASE j # i /\ k # i
    BY <1>6, <2>3, <2>6
  <2>. QED  BY <2>4, <2>5, <2>6
<1>. QED  BY <1>0, <1>2, <1>3, <1>7, <1>8, <1>9 DEF MailInv

\* A mailbox is emptied and its key is there; nothing else of the map changes.
LEMMA EmptiedMap ==
    ASSUME MailInv, NEW i \in MailId, mailbox' = Mail!Emptied(i)
    PROVE  /\ DOMAIN mailbox' \subseteq MailId
           /\ mailbox' \in [DOMAIN mailbox' -> Seq(Nat)]
           /\ Mail!Pending(i)' = <<>>
           /\ \A j \in MailId : j # i => Mail!Pending(j)' = Mail!Pending(j)
<1>1. /\ DOMAIN mailbox' = DOMAIN mailbox \cup {i}
      /\ mailbox'[i] = <<>>
      /\ \A j \in DOMAIN mailbox : j # i => mailbox'[j] = mailbox[j]
      /\ mailbox' = [j \in DOMAIN mailbox \cup {i} |-> mailbox'[j]]
  BY DEF Mail!Emptied, Mail!Known
<1>2. \A j \in DOMAIN mailbox \cup {i} : mailbox'[j] \in Seq(Nat)
  <2>1. <<>> \in Seq(Nat) /\ \A j \in DOMAIN mailbox : mailbox[j] \in Seq(Nat)
    BY DEF MailInv
  <2>. QED  BY <1>1, <2>1
<1>. QED  BY <1>1, <1>2 DEF MailInv, Mail!Pending, Mail!Known

\* Receive moves the mailbox of one peer to what it received.
LEMMA ReceiveKeepsInv ==
    ASSUME MailInv, NEW i \in MailId, Mail!Receive(i)
    PROVE  MailInv'
<1>1. /\ mailbox' = Mail!Emptied(i)
      /\ received' = [received EXCEPT ![i] = @ \o Mail!Pending(i)]
      /\ closed' = closed /\ accepted' = accepted /\ discarded' = discarded
  BY DEF Mail!Receive
<1>2. received[i] \in Seq(Nat) /\ Mail!Pending(i) \in Seq(Nat) /\ received \in [MailId -> Seq(Nat)]
  BY PendingType DEF MailInv
<1>3. /\ received' \in [MailId -> Seq(Nat)]
      /\ received'[i] = Through(i)
      /\ \A j \in MailId : j # i => received'[j] = received[j]
  BY <1>1, <1>2 DEF Through
<1>4. \A j \in MailId : Through(j)' = Through(j)
  <2>. SUFFICES ASSUME NEW j \in MailId PROVE Through(j)' = Through(j)
    OBVIOUS
  <2>1. CASE j = i
    <3>1. Through(j) \in Seq(Nat)
      BY <1>2, <2>1 DEF Through
    <3>2. Through(j)' = Through(j) \o <<>>
      BY <1>1, <1>3, <2>1, EmptiedMap DEF Through
    <3>. QED  BY <3>1, <3>2
  <2>2. CASE j # i
    BY <1>1, <1>3, <2>2, EmptiedMap DEF Through
  <2>. QED  BY <2>1, <2>2
<1>5. /\ DOMAIN mailbox' \subseteq MailId
      /\ mailbox' \in [DOMAIN mailbox' -> Seq(Nat)]
  BY <1>1, EmptiedMap
<1>6. \E n \in Nat : Numbered(n)'
  <2>1. PICK n \in Nat : Numbered(n)
    BY DEF MailInv
  <2>2. Numbered(n)'
    BY <1>1, <2>1 DEF Numbered
  <2>. QED  BY <2>2
<1>7. \A j \in MailId : /\ Increasing(Through(j)')
                        /\ Elements(Through(j)') = Elements(accepted[j]) \ discarded
  BY <1>4 DEF MailInv
<1>. QED  BY <1>1, <1>3, <1>5, <1>6, <1>7 DEF MailInv

\* When what peer i has pending is discarded, the rest stays in order.
LEMMA DiscardKeeps ==
    ASSUME MailInv, NEW i \in MailId
    PROVE  /\ Increasing(received[i])
           /\ Elements(received[i]) =
                Elements(accepted[i]) \ (discarded \cup Elements(Mail!Pending(i)))
           /\ Elements(Mail!Pending(i)) \subseteq Elements(accepted[i])
<1>. DEFINE r == received[i]
            q == Mail!Pending(i)
<1>1. r \in Seq(Nat) /\ q \in Seq(Nat)
  BY PendingType DEF MailInv
<1>2. Increasing(r \o q) /\ Elements(r \o q) = Elements(accepted[i]) \ discarded
  BY DEF MailInv, Through
<1>. HIDE DEF r, q
<1>3. /\ Elements(r \o q) = Elements(r) \cup Elements(q)
      /\ Increasing(r)
      /\ \A x \in Elements(r), y \in Elements(q) : x < y
  BY <1>1, <1>2, ElementsOfTwo
<1>4. Elements(r) \cap Elements(q) = {}
  <2>. SUFFICES ASSUME NEW x \in Elements(r) \cap Elements(q) PROVE FALSE
    OBVIOUS
  <2>1. x \in Nat /\ x < x
    BY <1>1, <1>3 DEF Elements
  <2>. QED  BY <2>1
<1>5. /\ Elements(r) = Elements(accepted[i]) \ (discarded \cup Elements(q))
      /\ Elements(q) \subseteq Elements(accepted[i])
  BY <1>2, <1>3, <1>4
<1>. QED  BY <1>3, <1>5 DEF r, q

\* Drop discards what one peer has pending, and no other peer's messages.
LEMMA DropKeepsInv ==
    ASSUME MailInv, NEW i \in MailId, Mail!Drop(i)
    PROVE  MailInv'
<1>. DEFINE D == Elements(Mail!Pending(i))
<1>1. /\ mailbox' = Mail!Emptied(i)
      /\ discarded' = discarded \cup D
      /\ closed' = closed /\ accepted' = accepted /\ received' = received
  BY DEF Mail!Drop, Mail!Messages, Elements
<1>2. D \subseteq Elements(accepted[i])
  BY DiscardKeeps
<1>3. PICK n \in Nat : Numbered(n)
  BY DEF MailInv
<1>4. Numbered(n)'
  BY <1>1, <1>2, <1>3 DEF Numbered
<1>5. ASSUME NEW j \in MailId
      PROVE  /\ Increasing(Through(j)')
             /\ Elements(Through(j)') = Elements(accepted[j]) \ (discarded \cup D)
  <2>1. CASE j = i
    <3>1. received[j] \in Seq(Nat)
      BY DEF MailInv
    <3>2. Through(j)' = received[j] \o <<>>
      BY <1>1, <2>1, EmptiedMap DEF Through
    <3>3. Through(j)' = received[j]
      BY <3>1, <3>2
    <3>. QED  BY <2>1, <3>3, DiscardKeeps
  <2>2. CASE j # i
    <3>1. Through(j)' = Through(j)
      BY <1>1, <2>2, EmptiedMap DEF Through
    <3>2. Elements(accepted[i]) \cap Elements(accepted[j]) = {}
      BY <2>2 DEF MailInv
    <3>3. Increasing(Through(j)) /\ Elements(Through(j)) = Elements(accepted[j]) \ discarded
      BY DEF MailInv
    <3>. HIDE DEF D
    <3>. QED  BY <1>2, <3>1, <3>2, <3>3
  <2>. QED  BY <2>1, <2>2
<1>. HIDE DEF D
<1>. QED  BY <1>1, <1>4, <1>5, EmptiedMap DEF MailInv

\* Reset discards what any peer has pending.
LEMMA ResetKeepsInv ==
    ASSUME MailInv, Mail!Reset
    PROVE  MailInv'
<1>. DEFINE D == UNION {Elements(mailbox[j]) : j \in DOMAIN mailbox}
<1>1. /\ mailbox' = [j \in DOMAIN mailbox |-> <<>>]
      /\ discarded' = discarded \cup D
      /\ closed' = closed /\ accepted' = accepted /\ received' = received
  BY DEF Mail!Reset, Mail!Messages, Mail!Known, Elements
<1>2. /\ DOMAIN mailbox' \subseteq MailId
      /\ mailbox' \in [DOMAIN mailbox' -> Seq(Nat)]
      /\ \A j \in MailId : Mail!Pending(j)' = <<>>
  BY <1>1 DEF MailInv, Mail!Pending, Mail!Known
<1>3. \A x \in D : \E j \in MailId : x \in Elements(Mail!Pending(j))
  BY DEF MailInv, Mail!Pending, Mail!Known
<1>4. \A j \in MailId : Elements(Mail!Pending(j)) \subseteq D
  BY ElementsOfOne DEF Mail!Pending, Mail!Known
<1>. HIDE DEF D
<1>5. PICK n \in Nat : Numbered(n)
  BY DEF MailInv
<1>6. Numbered(n)'
  BY <1>1, <1>3, <1>5, DiscardKeeps DEF Numbered
<1>7. ASSUME NEW j \in MailId
      PROVE  /\ Increasing(Through(j)')
             /\ Elements(Through(j)') = Elements(accepted[j]) \ (discarded \cup D)
  <2>1. received[j] \in Seq(Nat)
    BY DEF MailInv
  <2>2. Through(j)' = received[j]
    BY <1>1, <1>2, <2>1 DEF Through
  <2>3. Elements(accepted[j]) \cap D \subseteq Elements(Mail!Pending(j))
    <3>. SUFFICES ASSUME NEW x \in Elements(accepted[j]) \cap D
                  PROVE  x \in Elements(Mail!Pending(j))
      OBVIOUS
    <3>1. PICK k \in MailId : x \in Elements(Mail!Pending(k))
      BY <1>3
    <3>2. x \in Elements(accepted[k])
      BY <3>1, DiscardKeeps
    <3>3. k = j
      BY <3>2 DEF MailInv
    <3>. QED  BY <3>1, <3>3
  <2>4. /\ Increasing(received[j])
        /\ Elements(received[j]) = Elements(accepted[j]) \ (discarded \cup Elements(Mail!Pending(j)))
    BY DiscardKeeps
  <2>5. Elements(Mail!Pending(j)) \subseteq D
    BY <1>4
  <2>6. Elements(received[j]) = Elements(accepted[j]) \ (discarded \cup D)
    BY <2>3, <2>4, <2>5
  <2>. QED  BY <2>2, <2>4, <2>6
<1>. QED  BY <1>1, <1>2, <1>6, <1>7 DEF MailInv

\* Every call keeps the invariant.
LEMMA MailKeepsInv ==
    ASSUME MailInv, Mail!Next
    PROVE  MailInv'
<1>1. CASE Mail!Close
  <2>1. /\ UNCHANGED <<mailbox, accepted, received, discarded>>
        /\ closed' = TRUE
    BY <1>1 DEF Mail!Close, Mail!history
  <2>2. \A j \in MailId : Through(j)' = Through(j)
    BY <2>1 DEF Through, Mail!Pending, Mail!Known
  <2>3. \A n \in Nat : Numbered(n) => Numbered(n)'
    BY <2>1 DEF Numbered
  <2>. QED  BY <2>1, <2>2, <2>3 DEF MailInv
<1>. QED  BY <1>1, SendKeepsInv, ReceiveKeepsInv, DropKeepsInv, ResetKeepsInv DEF Mail!Next

\* The invariant says what InOrderOnce says.
LEMMA MailIsInOrder ==
    ASSUME MailInv
    PROVE  Mail!InOrderOnce
<1>. SUFFICES ASSUME NEW i \in MailId
              PROVE  LET s == received[i] \o Mail!Pending(i)
                     IN  /\ \A j, k \in 1 .. Len(s) : j < k => s[j] < s[k]
                         /\ Mail!Messages(s) = Mail!Messages(accepted[i]) \ discarded
  BY DEF Mail!InOrderOnce
<1>. QED  BY DEF MailInv, Through, Increasing, Elements, Mail!Messages

-----------------------------------------------------------------------------
(***************************************************************************)
(* The timers.  While both nodes are up, the follower's timer has never    *)
(* counted further than the leader's, which restarts before it reaches the *)
(* heartbeat interval.                                                     *)
(***************************************************************************)

TimerType == [deadline : Int, elapsed : Nat, active : BOOLEAN]

TimingInv ==
    /\ config \in Config
    /\ Validate(config)
    /\ heartbeat \in TimerType
    /\ heartbeat.active
    /\ heartbeat.deadline = config.heartbeatInterval
    /\ heartbeat.elapsed < heartbeat.deadline
    /\ election \in TimerType
    /\ election.deadline >= config.electionTimeoutMin
    /\ leaderUp \in BOOLEAN
    /\ followerUp \in BOOLEAN
    /\ ~followerUp => ~election.active
    /\ leaderUp /\ followerUp => election.elapsed <= heartbeat.elapsed

\* Reset gives a timer that runs from 0 to the new deadline (timer.go:24-29).
LEMMA ResetTimer ==
    ASSUME NEW t \in TimerType, NEW d \in Int
    PROVE  /\ Reset(t, d) \in TimerType
           /\ Reset(t, d).deadline = d
           /\ Reset(t, d).elapsed = 0
           /\ Reset(t, d).active
  BY DEF Reset, TimerType

\* Tick adds one to a timer that runs and leaves another alone (timer.go:15-22).
LEMMA TickTimer ==
    ASSUME NEW t \in TimerType
    PROVE  /\ Ticked(t) \in TimerType
           /\ Ticked(t).deadline = t.deadline
           /\ Ticked(t).active = t.active
           /\ Ticked(t).elapsed = IF t.active THEN t.elapsed + 1 ELSE t.elapsed
  BY DEF Ticked, TimerType

\* Election timeouts are integers and at least the configured minimum.
LEMMA TimeoutsAreLong ==
    ASSUME config \in Config, NEW d \in Timeouts
    PROVE  d \in Int /\ d >= config.electionTimeoutMin
  BY DEF Timeouts, Config

\* Load returns only configurations that pass Validate, the default included
\* (config.go:29-38, 72-90).
LEMMA LoadedIsValid ==
    ASSUME NEW c \in Loadable
    PROVE  c \in Config /\ Validate(c)
<1>1. Default \in Config /\ Validate(Default)
  BY DEF Default, Config, Validate
<1>. QED  BY <1>1, ConfigsAssumption DEF Loadable

\* The two timers start together.
LEMMA TimingStart == Init => TimingInv
<1>. SUFFICES ASSUME Init PROVE TimingInv
  OBVIOUS
<1>1. config \in Config /\ Validate(config)
  BY LoadedIsValid DEF Init
<1>2. PICK d \in Timeouts : election = NewTimer(d)
  BY DEF Init
<1>3. d \in Int /\ d >= config.electionTimeoutMin
  BY <1>1, TimeoutsAreLong
<1>. QED  BY <1>1, <1>2, <1>3 DEF Init, TimingInv, NewTimer, TimerType, Validate, Config

\* Every round of the clock, restart and election keeps the follower's timer from
\* overtaking the leader's.
LEMMA TimingKeepsInv == TimingInv /\ [Next]_vars => TimingInv'
<1>. SUFFICES ASSUME TimingInv, [Next]_vars PROVE TimingInv'
  OBVIOUS
<1>. DEFINE H == config.heartbeatInterval
<1>0. /\ H \in Int
      /\ H > 0
      /\ H < config.electionTimeoutMin
      /\ config.electionTimeoutMin \in Int
  BY DEF TimingInv, Config, Validate
<1>1. CASE Tick
  <2>. DEFINE h == IF leaderUp THEN Ticked(heartbeat) ELSE heartbeat
              e == Ticked(election)
  <2>1. /\ h \in TimerType
        /\ h.active
        /\ h.deadline = H
        /\ h.elapsed = IF leaderUp THEN heartbeat.elapsed + 1 ELSE heartbeat.elapsed
    BY TickTimer DEF TimingInv
  <2>2. /\ e \in TimerType
        /\ e.deadline = election.deadline
        /\ e.active = election.active
        /\ e.elapsed \in {election.elapsed, election.elapsed + 1}
    BY TickTimer DEF TimingInv
  <2>3. /\ config' = config
        /\ leaderUp' = leaderUp
        /\ followerUp' = followerUp
        /\ heartbeat' = IF Fired(h) THEN Reset(h, H) ELSE h
    BY <1>1 DEF Tick
  <2>4. CASE leaderUp /\ followerUp /\ Fired(h) /\ ~Fired(e)
    <3>1. PICK d \in Timeouts : election' = Reset(e, d)
      BY <1>1, <2>4 DEF Tick
    <3>2. d \in Int /\ d >= config.electionTimeoutMin
      BY TimeoutsAreLong DEF TimingInv
    <3>3. /\ heartbeat' \in TimerType
          /\ heartbeat'.active
          /\ heartbeat'.deadline = H
          /\ heartbeat'.elapsed = 0
      BY <2>1, <2>3, <2>4, <1>0, ResetTimer
    <3>4. /\ election' \in TimerType
          /\ election'.deadline = d
          /\ election'.elapsed = 0
      BY <2>2, <3>1, <3>2, ResetTimer
    <3>. QED  BY <1>0, <2>3, <2>4, <3>2, <3>3, <3>4 DEF TimingInv
  <2>5. CASE ~(leaderUp /\ followerUp /\ Fired(h) /\ ~Fired(e))
    <3>1. election' = e
      BY <1>1, <2>5 DEF Tick
    <3>2. /\ heartbeat' \in TimerType
          /\ heartbeat'.active
          /\ heartbeat'.deadline = H
          /\ heartbeat'.elapsed < H
      <4>1. CASE Fired(h)
        BY <4>1, <2>1, <2>3, <1>0, ResetTimer
      <4>2. CASE ~Fired(h)
        BY <4>2, <2>1, <2>3, <1>0 DEF Fired, TimerType
      <4>. QED  BY <4>1, <4>2
    <3>3. ASSUME leaderUp, followerUp
          PROVE  e.elapsed <= heartbeat'.elapsed
      <4>1. election.elapsed <= heartbeat.elapsed /\ heartbeat.elapsed < H
        BY <3>3 DEF TimingInv
      <4>2. e.elapsed <= h.elapsed /\ h.elapsed <= H
        BY <3>3, <4>1, <2>1, <2>2, <1>0 DEF TimingInv, TimerType
      <4>3. ~Fired(e)
        BY <4>2, <2>1, <2>2, <1>0 DEF Fired, TimingInv, TimerType
      <4>4. heartbeat' = h
        BY <3>3, <4>3, <2>5, <2>3
      <4>. QED  BY <4>2, <4>4
    <3>. QED  BY <2>2, <2>3, <3>1, <3>2, <3>3 DEF TimingInv
  <2>. QED  BY <2>4, <2>5
<1>2. CASE Campaign
  <2>1. PICK d \in Timeouts : election' = Reset(election, d)
    BY <1>2 DEF Campaign
  <2>2. d \in Int /\ d >= config.electionTimeoutMin
    BY TimeoutsAreLong DEF TimingInv
  <2>3. /\ election' \in TimerType
        /\ election'.deadline = d
        /\ election'.elapsed = 0
    BY <2>1, <2>2, ResetTimer DEF TimingInv
  <2>4. followerUp
    BY <1>2 DEF Campaign, Fired, TimingInv
  <2>. QED  BY <1>2, <2>2, <2>3, <2>4 DEF Campaign, TimingInv, TimerType
<1>3. CASE LeaderDown
  BY <1>3 DEF LeaderDown, TimingInv
<1>4. CASE LeaderUp
  <2>1. /\ heartbeat' \in TimerType
        /\ heartbeat'.active
        /\ heartbeat'.deadline = H
        /\ heartbeat'.elapsed = 0
    BY <1>4, <1>0, ResetTimer DEF LeaderUp, TimingInv
  <2>2. CASE followerUp
    <3>1. PICK d \in Timeouts : election' = Reset(election, d)
      BY <1>4, <2>2 DEF LeaderUp
    <3>2. d \in Int /\ d >= config.electionTimeoutMin
      BY TimeoutsAreLong DEF TimingInv
    <3>3. /\ election' \in TimerType
          /\ election'.deadline = d
          /\ election'.elapsed = 0
      BY <3>1, <3>2, ResetTimer DEF TimingInv
    <3>. QED  BY <1>0, <1>4, <2>1, <2>2, <3>2, <3>3 DEF LeaderUp, TimingInv
  <2>3. CASE ~followerUp
    BY <1>0, <1>4, <2>1, <2>3 DEF LeaderUp, TimingInv
  <2>. QED  BY <2>2, <2>3
<1>5. CASE FollowerDown
  <2>1. /\ election' \in TimerType
        /\ election'.deadline = election.deadline
        /\ ~election'.active
    BY <1>5 DEF FollowerDown, Stopped, TimingInv, TimerType
  <2>. QED  BY <1>5, <2>1 DEF FollowerDown, TimingInv
<1>6. CASE FollowerUp
  <2>1. PICK d \in Timeouts : election' = Reset(election, d)
    BY <1>6 DEF FollowerUp
  <2>2. d \in Int /\ d >= config.electionTimeoutMin
    BY TimeoutsAreLong DEF TimingInv
  <2>3. /\ election' \in TimerType
        /\ election'.deadline = d
        /\ election'.elapsed = 0
    BY <2>1, <2>2, ResetTimer DEF TimingInv
  <2>. QED  BY <1>6, <2>2, <2>3 DEF FollowerUp, TimingInv, TimerType
<1>7. CASE UNCHANGED vars
  BY <1>7 DEF vars, TimingInv
<1>. QED  BY <1>1, <1>2, <1>3, <1>4, <1>5, <1>6, <1>7 DEF Next

-----------------------------------------------------------------------------
(***************************************************************************)
(* All parts together.                                                     *)
(***************************************************************************)

PeersInv == TimingInv /\ MailInv /\ MembersInv /\ TrackerInv

\* A part that is not exercised keeps its state.
LEMMA StillParts ==
    /\ TimingInv /\ UNCHANGED vars => TimingInv'
    /\ MailInv /\ UNCHANGED mailVars => MailInv'
    /\ MembersInv /\ UNCHANGED listVars => MembersInv'
    /\ TrackerInv /\ UNCHANGED trackerVars => TrackerInv'
<1>1. ASSUME TimingInv, UNCHANGED vars PROVE TimingInv'
  BY <1>1, TimingKeepsInv
<1>2. ASSUME MailInv, UNCHANGED mailVars PROVE MailInv'
  <2>1. UNCHANGED <<mailbox, closed, accepted, received, discarded>>
    BY <1>2 DEF mailVars
  <2>2. \A j \in MailId : Through(j)' = Through(j)
    BY <2>1 DEF Through, Mail!Pending, Mail!Known
  <2>3. \A n \in Nat : Numbered(n) => Numbered(n)'
    BY <2>1 DEF Numbered
  <2>. QED  BY <1>2, <2>1, <2>2, <2>3 DEF MailInv
<1>3. ASSUME MembersInv, UNCHANGED listVars PROVE MembersInv'
  BY <1>3 DEF MembersInv, listVars
<1>4. ASSUME TrackerInv, UNCHANGED trackerVars PROVE TrackerInv'
  BY <1>4 DEF TrackerInv, trackerVars
<1>. QED  BY <1>1, <1>2, <1>3, <1>4

\* The invariants of all parts hold throughout.
LEMMA PeersInvariant == PeersSpec => []PeersInv
<1>1. PeersInit => PeersInv
  <2>1. Tracker!Init => TrackerInv
    <3>. SUFFICES ASSUME Tracker!Init PROVE TrackerInv
      OBVIOUS
    <3>1. PICK ids \in SUBSET Follower, last \in 0 .. LastIndex :
            tracked = [p \in ids |-> [nextIndex |-> last + 1, matchIndex |-> 0]]
      BY DEF Tracker!Init
    <3>2. LastIndex \in Nat /\ stored = [p \in Follower |-> 0]
      BY PeersAssumption DEF Tracker!Init
    <3>3. DOMAIN tracked = ids /\ \A p \in ids : tracked[p].matchIndex = 0
      BY <3>1
    <3>4. tracked \in [ids -> [nextIndex : Nat, matchIndex : Nat]]
      BY <3>1, <3>2
    <3>. QED  BY <3>2, <3>3, <3>4 DEF TrackerInv
  <2>. QED  BY <2>1, TimingStart, MailStart, MembersStart DEF PeersInit, PeersInv
<1>2. PeersInv /\ [PeersNext]_peersVars => PeersInv'
  <2>. SUFFICES ASSUME PeersInv, [PeersNext]_peersVars PROVE PeersInv'
    OBVIOUS
  <2>. USE DEF PeersInv
  <2>1. CASE TimingStep(Next)
    BY <2>1, TimingKeepsInv, StillParts DEF TimingStep
  <2>2. CASE MailStep(Mail!Next)
    BY <2>2, MailKeepsInv, StillParts DEF MailStep
  <2>3. CASE part = "membership" /\ Members!Next /\ UNCHANGED <<part, vars, mailVars, trackerVars>>
    BY <2>3, MembersKeepInv, StillParts
  <2>4. CASE part = "tracker" /\ Tracker!Next /\ UNCHANGED <<part, vars, mailVars, listVars>>
    BY <2>4, TrackerKeepsInv, StillParts
  <2>5. CASE UNCHANGED peersVars
    BY <2>5, StillParts DEF peersVars
  <2>. QED  BY <2>1, <2>2, <2>3, <2>4, <2>5 DEF PeersNext
<1>. QED  BY <1>1, <1>2, PTL DEF PeersSpec

\* Every configuration that Load returns keeps a follower from campaigning
\* against a leader that is up, whatever its durations (config.go:50-52).
THEOREM ValidConfigsAreQuiet == PeersSpec => []NoElectionUnderLeader
<1>1. PeersInv => NoElectionUnderLeader
  BY DEF PeersInv, TimingInv, NoElectionUnderLeader, Fired, TimerType, Validate, Config
<1>. QED  BY <1>1, PeersInvariant, PTL

\* For any peers and any number of messages, and however the calls of different
\* goroutines interleave, a message that Send accepted is received once and in
\* order, or it was discarded (transport.go:45-69, 97-111).
THEOREM MailArrivesInOrder == PeersSpec => []InOrderOnce
<1>1. PeersInv => InOrderOnce
  BY MailIsInOrder DEF PeersInv, InOrderOnce
<1>. QED  BY <1>1, PeersInvariant, PTL

\* After Close no call hands out or takes in a message, for any peers and
\* whatever is still pending (transport.go:45-79).
THEOREM CloseIsForGood == PeersSpec => ClosedIsFinal
<1>1. [PeersNext]_peersVars =>
        [closed => closed' /\ UNCHANGED <<accepted, received>>]_(Mail!vars)
  <2>. SUFFICES ASSUME [PeersNext]_peersVars, closed
                PROVE  (closed' /\ UNCHANGED <<accepted, received>>) \/ UNCHANGED Mail!vars
    OBVIOUS
  <2>1. CASE MailStep(Mail!Next)
    BY <2>1 DEF MailStep, Mail!Next, Mail!Send, Mail!Receive, Mail!Drop, Mail!Reset,
                Mail!Close, Mail!history
  <2>2. CASE UNCHANGED mailVars
    BY <2>2 DEF mailVars, Mail!vars, Mail!history
  <2>. QED  BY <2>1, <2>2 DEF PeersNext, TimingStep, MailStep, peersVars
<1>. QED  BY <1>1, PTL DEF PeersSpec, ClosedIsFinal, Mail!ClosedIsFinal

\* Sorted lists of any peers, changed by AddPeer and RemovePeer, implement the
\* abstract membership: every change is a change by one peer
\* (membership.go:13-19, 50-70).
THEOREM ListsImplementMembership == PeersSpec => ChangesOnePeer
<1>1. PeersInit => Members!M!Init
  BY MembersImplement DEF PeersInit
<1>2. PeersInv /\ [PeersNext]_peersVars => [Members!M!Next]_(Members!M!vars)
  <2>. SUFFICES ASSUME PeersInv, [PeersNext]_peersVars
                PROVE  Members!M!Next \/ UNCHANGED Members!M!vars
    OBVIOUS
  <2>1. CASE Members!Next
    BY <2>1, MembersImplement DEF PeersInv
  <2>2. CASE UNCHANGED listVars
    BY <2>2 DEF listVars, Members!M!vars
  <2>. QED  BY <2>1, <2>2 DEF PeersNext, TimingStep, MailStep, peersVars
<1>. QED  BY <1>1, <1>2, PeersInvariant, PTL
          DEF PeersSpec, ChangesOnePeer, Members!ChangesOnePeer, Members!M!Spec

\* For any peer ids and however long the list, two groups that pass IsMajority in
\* a configuration and in the one it replaced share a peer
\* (membership.go:34-37, 50-70, 85-88).
THEOREM MajoritiesAlwaysMeet == PeersSpec => []MajoritiesOverlap
<1>1. PeersInv => MajoritiesOverlap
  BY ListMajoritiesMeet DEF PeersInv, MajoritiesOverlap
<1>. QED  BY <1>1, PeersInvariant, PTL

\* For any peer ids Equal does not see in which order changes were made
\* (membership.go:13-19, 72-83).
THEOREM OrderNeverMatters == PeersSpec => []OrderIsIrrelevant
<1>1. PeersInv => OrderIsIrrelevant
  BY OrderIsLost DEF PeersInv, OrderIsIrrelevant
<1>. QED  BY <1>1, PeersInvariant, PTL

\* For any peer ids a node that is given OtherPeers counts votes against the
\* quorum of its configuration (membership.go:34-48, node.go:238-241).
THEOREM NodesAlwaysUseTheQuorum == PeersSpec => []NodesUseTheQuorum
<1>1. PeersInv => NodesUseTheQuorum
  BY OtherPeersCount DEF PeersInv, NodesUseTheQuorum
<1>. QED  BY <1>1, PeersInvariant, PTL

\* For any finite set of followers, odd or even, and any log, QuorumMatch is the
\* highest index that a majority has stored, if answers arrive in order
\* (peers.go:63-76, node.go:486-494).
THEOREM QuorumMatchIsRight == PeersSpec => []QuorumMatchIsMajority
<1>1. PeersInv => QuorumMatchIsMajority
  BY QuorumMatchCounts DEF PeersInv, QuorumMatchIsMajority
<1>. QED  BY <1>1, PeersInvariant, PTL

=============================================================================
