--------------------------- MODULE DiffLinesProofs ---------------------------
(***************************************************************************)
(* Facts about ranks of lines and about MapPostToPreLine, for any diff.    *)
(***************************************************************************)
EXTENDS DiffLines, FiniteSetTheorems, TLAPS

\* A set of natural numbers has a least element.
LEMMA LeastElement ==
  ASSUME NEW S \in SUBSET Nat, S # {}
  PROVE  \E m \in S : \A k \in S : m <= k
<1> DEFINE T == {1 .. n : n \in S}
<1>1. T # {}
  OBVIOUS
<1>2. T \subseteq FiniteSubsetsOf(Nat)
  BY FS_Interval DEF FiniteSubsetsOf
<1>3. IsWellFoundedOn(StrictSubsetOrdering(Nat), FiniteSubsetsOf(Nat))
  BY FS_StrictSubsetOrderingWellFounded
<1>4. PICK x \in T : \A y \in T : <<y, x>> \notin StrictSubsetOrdering(Nat)
  <2> HIDE DEF T
  <2> QED
    BY <1>1, <1>2, <1>3, WFMin
<1>5. PICK m \in S : x = 1 .. m
  OBVIOUS
<1>6. ASSUME NEW k \in S, k < m
      PROVE  FALSE
  <2>1. 1 .. k \subseteq 1 .. m /\ m \in 1 .. m /\ m \notin 1 .. k /\ 1 .. m \in SUBSET Nat
    BY <1>6
  <2>2. <<1 .. k, 1 .. m>> \in StrictSubsetOrdering(Nat)
    BY <2>1 DEF StrictSubsetOrdering
  <2> QED
    BY <1>4, <1>5, <2>2
<1> QED
  BY <1>6

-----------------------------------------------------------------------------
(* Ranks *)

LEMMA RankType ==
  ASSUME NEW S, NEW l \in Nat
  PROVE  IsFiniteSet((1 .. l) \ S) /\ Rank(S, l) \in Nat
<1>1. IsFiniteSet(1 .. l)
  BY FS_Interval
<1>2. IsFiniteSet((1 .. l) \ S)
  BY <1>1, FS_Subset
<1> QED
  BY <1>2, FS_CardinalityType DEF Rank

\* The next line has the next rank, or the same one if it is left out.
LEMMA RankStep ==
  ASSUME NEW S, NEW l \in Nat
  PROVE  Rank(S, l + 1) = Rank(S, l) + (IF l + 1 \in S THEN 0 ELSE 1)
<1>1. IsFiniteSet((1 .. l) \ S) /\ Rank(S, l) \in Nat
  BY RankType
<1>2. CASE l + 1 \in S
  <2>1. (1 .. (l + 1)) \ S = (1 .. l) \ S
    BY <1>2
  <2>2. Rank(S, l + 1) = Rank(S, l)
    BY <2>1 DEF Rank
  <2> QED
    BY <1>1, <1>2, <2>2
<1>3. CASE l + 1 \notin S
  <2>1. (1 .. (l + 1)) \ S = ((1 .. l) \ S) \cup {l + 1}
    BY <1>3
  <2>2. l + 1 \notin (1 .. l) \ S
    OBVIOUS
  <2>3. Cardinality(((1 .. l) \ S) \cup {l + 1}) = Cardinality((1 .. l) \ S) + 1
    BY <1>1, <2>2, FS_AddElement
  <2> QED
    BY <1>3, <2>1, <2>3 DEF Rank
<1> QED
  BY <1>2, <1>3

LEMMA RankMonotonic ==
  ASSUME NEW S, NEW k \in Nat, NEW l \in Nat, k <= l
  PROVE  Rank(S, k) <= Rank(S, l) /\ (k < l /\ l \notin S => Rank(S, k) < Rank(S, l))
<1>1. IsFiniteSet((1 .. l) \ S) /\ Rank(S, k) \in Nat /\ Rank(S, l) \in Nat
  BY RankType
<1>4. (1 .. k) \ S \in SUBSET ((1 .. l) \ S)
  OBVIOUS
<1>2. Rank(S, k) <= Rank(S, l)
  BY <1>1, <1>4, FS_Subset DEF Rank
<1>3. ASSUME k < l, l \notin S
      PROVE  Rank(S, k) # Rank(S, l)
  <2>1. l \in (1 .. l) \ S /\ l \notin (1 .. k) \ S
    BY <1>3
  <2>2. (1 .. k) \ S # (1 .. l) \ S
    BY <2>1
  <2> QED
    BY <1>1, <1>4, <2>2, FS_Subset DEF Rank
<1> QED
  BY <1>1, <1>2, <1>3

\* Two lines that are not left out have different ranks.
LEMMA RankInjective ==
  ASSUME NEW S, NEW k \in Nat, NEW l \in Nat, k \notin S, l \notin S, Rank(S, k) = Rank(S, l)
  PROVE  k = l
<1>1. Rank(S, k) \in Nat /\ Rank(S, l) \in Nat
  BY RankType
<1>2. ~ k < l /\ ~ l < k
  BY <1>1, RankMonotonic
<1> QED
  BY <1>2

LEMMA RankBounds ==
  ASSUME NEW S, IsFiniteSet(S), NEW l \in Nat
  PROVE  /\ Rank(S, l) <= l /\ l <= Rank(S, l) + Cardinality(S)
         /\ S \subseteq 1 .. l => Rank(S, l) = l - Cardinality(S)
         /\ l # 0 /\ l \notin S => Rank(S, l) # 0
<1>1. IsFiniteSet(1 .. l) /\ Cardinality(1 .. l) = l
  BY FS_Interval
<1>2. /\ IsFiniteSet((1 .. l) \cap S)
      /\ Cardinality((1 .. l) \cap S) \in Nat /\ Cardinality(S) \in Nat /\ Rank(S, l) \in Nat
      /\ Cardinality((1 .. l) \cap S) <= Cardinality(S)
  BY <1>1, FS_Subset, FS_CardinalityType, RankType
<1>3. Rank(S, l) = l - Cardinality((1 .. l) \cap S)
  BY <1>1, FS_Difference DEF Rank
<1>4. S \subseteq 1 .. l => (1 .. l) \cap S = S
  OBVIOUS
<1>5. ASSUME l # 0, l \notin S
      PROVE  Rank(S, l) # 0
  <2>1. l \in (1 .. l) \ S
    BY <1>5
  <2> QED
    BY <2>1, RankType, FS_EmptySet DEF Rank
<1>6. l = Cardinality((1 .. l) \cap S) + Rank(S, l)
  BY <1>2, <1>3
<1>7. Rank(S, l) <= l /\ l <= Rank(S, l) + Cardinality(S)
  BY <1>2, <1>6
<1>8. S \subseteq 1 .. l => Rank(S, l) = l - Cardinality(S)
  BY <1>3, <1>4
<1> QED
  BY <1>5, <1>7, <1>8

\* Every rank up to the last line's is that of a line.
LEMMA RankReached ==
  ASSUME NEW S, NEW n \in Nat, NEW r \in 1 .. Rank(S, n)
  PROVE  \E l \in 1 .. n : l \notin S /\ Rank(S, l) = r
<1> DEFINE L == {l \in 0 .. n : r <= Rank(S, l)}
<1>0. \A l \in Nat : Rank(S, l) \in Nat
  BY RankType
<1>1. L \in SUBSET Nat /\ n \in L /\ Rank(S, n) \in Nat
  BY <1>0
<1>2. PICK l \in L : \A k \in L : l <= k
  <2> HIDE DEF L
  <2> QED
    BY <1>1, LeastElement
<1>3. l \in 0 .. n /\ r <= Rank(S, l) /\ Rank(S, l) \in Nat /\ r \in Nat
  BY <1>0
<1>4. Rank(S, 0) = 0
  <2>1. (1 .. 0) \ S = {}
    OBVIOUS
  <2> QED
    BY <2>1, FS_EmptySet DEF Rank
<1>5. l # 0
  BY <1>3, <1>4
<1>6. l - 1 \in Nat /\ l - 1 \in 0 .. n /\ (l - 1) + 1 = l
  BY <1>3, <1>5
<1>7. Rank(S, l - 1) < r /\ Rank(S, l - 1) \in Nat
  BY <1>0, <1>2, <1>3, <1>6
<1>8. Rank(S, l) = Rank(S, l - 1) + (IF l \in S THEN 0 ELSE 1)
  BY <1>6, RankStep
<1>9. l \notin S /\ Rank(S, l) = r
  BY <1>3, <1>7, <1>8
<1> QED
  BY <1>3, <1>5, <1>9

-----------------------------------------------------------------------------
(* Lines before and after a commit *)

\* The line that MapPostToPreLine chooses is the only one of its rank.
LEMMA MapToRank ==
  ASSUME NEW add, NEW del, IsFiniteSet(del), NEW l \in Nat,
         NEW r \in Nat \ {0}, r \notin del, Rank(del, r) = Rank(add, l)
  PROVE  MapPostToPreLine(add, del, l) = r
<1> DEFINE n == Rank(add, l)
<1>1. n \in Nat /\ n # 0 /\ Cardinality(del) \in Nat /\ r <= n + Cardinality(del)
  BY RankType, RankBounds, FS_CardinalityType
<1>2. r \in 1 .. (n + Cardinality(del))
  BY <1>1
<1>3. ASSUME NEW s \in 1 .. (n + Cardinality(del)), s \notin del, Rank(del, s) = n
      PROVE  s = r
  BY <1>1, <1>3, RankInjective
<1>4. r = CHOOSE s \in 1 .. (n + Cardinality(del)) : s \notin del /\ Rank(del, s) = n
  <2>1. \E s \in 1 .. (n + Cardinality(del)) : s \notin del /\ Rank(del, s) = n
    BY <1>2
  <2> HIDE DEF n
  <2> QED
    BY <1>3, <2>1
<1> QED
  BY <1>1, <1>4 DEF MapPostToPreLine

\* A surviving line of the old version has its place in the new one, and is
\* found again from there.
LEMMA SurvivorFound ==
  ASSUME NEW m \in Nat, NEW n \in Nat, NEW del \in SUBSET (1 .. m), NEW add \in SUBSET (1 .. n),
         m - Cardinality(del) = n - Cardinality(add), NEW i \in (1 .. m) \ del
  PROVE  \E j \in (1 .. n) \ add : Rank(del, i) = Rank(add, j) /\ MapPostToPreLine(add, del, j) = i
<1>1. IsFiniteSet(del) /\ IsFiniteSet(add)
  <2>1. IsFiniteSet(1 .. m) /\ IsFiniteSet(1 .. n)
    BY FS_Interval
  <2> QED
    BY <2>1, FS_Subset
<1>2. Rank(del, m) = Rank(add, n)
  <2>1. Rank(del, m) = m - Cardinality(del)
    BY <1>1, RankBounds
  <2>2. Rank(add, n) = n - Cardinality(add)
    BY <1>1, RankBounds
  <2> QED
    BY <2>1, <2>2
<1>3. Rank(del, i) \in Nat /\ Rank(del, i) # 0 /\ Rank(del, i) <= Rank(del, m) /\ Rank(add, n) \in Nat
  <2>1. i \in Nat /\ i # 0 /\ i <= m /\ i \notin del
    OBVIOUS
  <2>2. Rank(del, i) \in Nat /\ Rank(add, n) \in Nat
    BY <2>1, RankType
  <2>3. Rank(del, i) # 0
    BY <1>1, <2>1, RankBounds
  <2>4. Rank(del, i) <= Rank(del, m)
    BY <2>1, RankMonotonic
  <2> QED
    BY <2>2, <2>3, <2>4
<1>4. Rank(del, i) \in 1 .. Rank(add, n)
  BY <1>2, <1>3
<1>5. PICK j \in 1 .. n : j \notin add /\ Rank(add, j) = Rank(del, i)
  BY <1>4, RankReached
<1>6. MapPostToPreLine(add, del, j) = i
  BY <1>1, <1>5, MapToRank
<1> QED
  BY <1>5, <1>6
=============================================================================
