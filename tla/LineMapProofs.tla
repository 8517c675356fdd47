---------------------------- MODULE LineMapProofs ----------------------------
(***************************************************************************)
(* Proof that the loops of _MapPostToPreLine return a line that was not    *)
(* deleted and has as many unchanged lines in front of it as the line they *)
(* were given, for ascending lists of any length; and that this is the     *)
(* line MapPostToPreLine of DiffLines chooses.                             *)
(***************************************************************************)
EXTENDS LineMap, DiffLinesProofs

\* The first loop: the lines passed are in front of post_line, and there
\* are no more of them than lines.
AddInv ==
  pc = "add" =>
    /\ i \in 1 .. Len(add_lines) + 1
    /\ \A j \in 1 .. Len(add_lines) : j < i => add_lines[j] <= post_line
    /\ i > 1 => add_lines[i - 1] >= i - 1
    /\ n_unchanged = post_line - (i - 1)
    /\ pre_line = 0

\* The second loop: with k added lines in front of post_line, pre_line is 0
\* or the last deleted line passed, and n_unchanged lines are still to go.
DelInv ==
  pc = "del" =>
    /\ i \in 1 .. Len(del_lines) + 1
    /\ pre_line = IF i = 1 THEN 0 ELSE del_lines[i - 1]
    /\ n_unchanged >= 0
    /\ i > 1 => n_unchanged >= 1
    /\ \E k \in 0 .. Len(add_lines) :
         /\ \A j \in 1 .. Len(add_lines) : add_lines[j] <= post_line <=> j <= k
         /\ n_unchanged + pre_line - (i - 1) = post_line - k

IInv == TypeOK /\ AddInv /\ DelInv /\ SameRank

\* The elements of a list of lines are line numbers.
LEMMA LinesAreNumbers ==
  ASSUME TypeOK
  PROVE  /\ Len(add_lines) \in Nat /\ Len(del_lines) \in Nat
         /\ \A j \in 1 .. Len(add_lines) : add_lines[j] \in Nat \ {0}
         /\ \A j \in 1 .. Len(del_lines) : del_lines[j] \in Nat \ {0}
         /\ post_line \in Nat \ {0}
<1>1. /\ \A j \in 1 .. Len(add_lines) : add_lines[j] \in 1 .. Lines
      /\ \A j \in 1 .. Len(del_lines) : del_lines[j] \in 1 .. Lines
  <2> DEFINE S == 1 .. Lines
  <2>1. add_lines \in Seq(S) /\ del_lines \in Seq(S)
    BY DEF TypeOK
  <2> HIDE DEF S
  <2>2. /\ \A j \in 1 .. Len(add_lines) : add_lines[j] \in S
        /\ \A j \in 1 .. Len(del_lines) : del_lines[j] \in S
    BY <2>1
  <2> QED
    BY <2>2 DEF S
<1>2. \A l \in 1 .. Lines : l \in Nat \ {0}
  BY LinesAssumption
<1>3. Len(add_lines) \in Nat /\ Len(del_lines) \in Nat
  BY DEF TypeOK
<1>4. post_line \in 1 .. Lines
  BY DEF TypeOK
<1> QED
  BY <1>1, <1>2, <1>3, <1>4

THEOREM InitInv ==
  Init => IInv
<1> SUFFICES ASSUME Init PROVE IInv
  OBVIOUS
<1>1. \A s \in LineLists : s \in Seq(1 .. Lines) /\ Ascending(s)
  BY LinesAssumption DEF LineLists
<1>2. TypeOK
  BY <1>1, LinesAssumption DEF Init, TypeOK
<1>3. AddInv
  BY <1>2, LinesAreNumbers DEF Init, AddInv
<1>4. DelInv /\ SameRank
  BY DEF Init, DelInv, SameRank
<1> QED
  BY <1>2, <1>3, <1>4 DEF IInv

THEOREM StepInv ==
  IInv /\ [Next]_vars => IInv'
<1> SUFFICES ASSUME IInv, [Next]_vars PROVE IInv'
  OBVIOUS
<1>0. /\ TypeOK /\ AddInv /\ DelInv /\ SameRank
      /\ Len(add_lines) \in Nat /\ Len(del_lines) \in Nat
      /\ \A j \in 1 .. Len(add_lines) : add_lines[j] \in Nat \ {0}
      /\ \A j \in 1 .. Len(del_lines) : del_lines[j] \in Nat \ {0}
      /\ post_line \in Nat \ {0}
      /\ Ascending(add_lines) /\ Ascending(del_lines)
  BY LinesAreNumbers DEF IInv, TypeOK
<1>1. CASE SkipAdded
  <2>1. TypeOK'
    BY <1>0, <1>1 DEF TypeOK, SkipAdded
  <2>2. AddInv'
    <3>1. /\ i \in 1 .. Len(add_lines) /\ add_lines[i] <= post_line
          /\ i > 1 => add_lines[i - 1] >= i - 1
      BY <1>0, <1>1 DEF SkipAdded, AddInFront, AddInv
    <3>2. add_lines[i] >= i
      <4>1. CASE i = 1
        BY <4>1, <3>1, <1>0
      <4>2. CASE i > 1
        <5>1. add_lines[i - 1] < add_lines[i]
          BY <4>2, <3>1, <1>0 DEF Ascending
        <5> QED
          BY <5>1, <4>2, <3>1, <1>0
      <4> QED
        BY <4>1, <4>2, <3>1
    <3> QED
      BY <3>1, <3>2, <1>0, <1>1 DEF AddInv, SkipAdded
  <2>3. DelInv' /\ SameRank'
    BY <1>1 DEF SkipAdded, DelInv, SameRank
  <2> QED
    BY <2>1, <2>2, <2>3 DEF IInv
<1>2. CASE AddedDone
  <2>1. TypeOK'
    BY <1>0, <1>2 DEF TypeOK, AddedDone
  <2>2. AddInv' /\ SameRank'
    BY <1>2 DEF AddedDone, AddInv, SameRank
  <2>3. DelInv'
    <3>1. /\ i \in 1 .. Len(add_lines) + 1
          /\ \A j \in 1 .. Len(add_lines) : j < i => add_lines[j] <= post_line
          /\ i > 1 => add_lines[i - 1] >= i - 1
          /\ n_unchanged = post_line - (i - 1) /\ pre_line = 0
          /\ ~AddInFront
      BY <1>0, <1>2 DEF AddedDone, AddInv
    <3>2. n_unchanged >= 0
      BY <3>1, <1>0
    <3>3. \A j \in 1 .. Len(add_lines) : add_lines[j] <= post_line <=> j <= i - 1
      <4> SUFFICES ASSUME NEW j \in 1 .. Len(add_lines), j >= i
                   PROVE  add_lines[j] > post_line
        BY <3>1, <1>0
      <4>1. i \in 1 .. Len(add_lines) /\ add_lines[i] > post_line
        BY <3>1, <1>0 DEF AddInFront
      <4>2. j = i \/ add_lines[i] < add_lines[j]
        BY <4>1, <1>0 DEF Ascending
      <4> QED
        BY <4>1, <4>2, <1>0
    <3>4. i - 1 \in 0 .. Len(add_lines)
      BY <3>1, <1>0
    <3> QED
      BY <3>1, <3>2, <3>3, <3>4, <1>0, <1>2 DEF DelInv, AddedDone
  <2> QED
    BY <2>1, <2>2, <2>3 DEF IInv
<1>3. CASE SkipDeleted
  <2>1. /\ i \in 1 .. Len(del_lines) /\ NewNN > 0
        /\ NewNN = n_unchanged - (del_lines[i] - pre_line - 1)
    BY <1>0, <1>3 DEF SkipDeleted, DelInFront, DelInv, NewNN
  <2>2. TypeOK'
    BY <1>0, <1>3, <2>1 DEF TypeOK, SkipDeleted
  <2>3. AddInv' /\ SameRank'
    BY <1>3 DEF SkipDeleted, AddInv, SameRank
  <2>4. DelInv'
    <3>1. PICK k \in 0 .. Len(add_lines) :
            /\ \A j \in 1 .. Len(add_lines) : add_lines[j] <= post_line <=> j <= k
            /\ n_unchanged + pre_line - (i - 1) = post_line - k
      BY <1>0, <1>3 DEF SkipDeleted, DelInv
    <3>2. /\ n_unchanged \in Int /\ pre_line \in Nat /\ k \in Int
          /\ i \in Nat \ {0} /\ del_lines[i] \in Nat /\ post_line \in Nat
      BY <1>0, <2>1 DEF TypeOK
    <3> DEFINE n == n_unchanged - (del_lines[i] - pre_line - 1)
    <3>3. NewNN = n /\ n \in Int /\ n > 0 /\ n + del_lines[i] - (i + 1 - 1) = post_line - k
      <4>1. NewNN = n /\ n \in Int
        BY <3>2, <2>1
      <4>2. n + del_lines[i] - i = n_unchanged + pre_line - (i - 1)
        BY <3>2
      <4>3. i + 1 - 1 = i /\ NewNN > 0
        BY <3>2, <2>1
      <4> QED
        BY <4>1, <4>2, <4>3, <3>1
    <3>4. /\ pc' = "del" /\ i' = i + 1 /\ pre_line' = del_lines[i] /\ n_unchanged' = n
          /\ add_lines' = add_lines /\ del_lines' = del_lines /\ post_line' = post_line
      BY <1>3, <3>3 DEF SkipDeleted
    <3> HIDE DEF n
    <3>5. i + 1 \in 1 .. Len(del_lines) + 1 /\ i + 1 # 1 /\ i + 1 - 1 = i
      BY <2>1, <1>0
    <3>6. n >= 0 /\ n >= 1
      BY <3>3
    <3>7. \E l \in 0 .. Len(add_lines') :
            /\ \A j \in 1 .. Len(add_lines') : add_lines'[j] <= post_line' <=> j <= l
            /\ n_unchanged' + pre_line' - (i' - 1) = post_line' - l
      <4>1. i' - 1 = i /\ i + 1 - 1 = i
        BY <3>2, <3>4
      <4>2. n_unchanged' + pre_line' - (i' - 1) = post_line' - k
        BY <4>1, <3>3, <3>4
      <4>3. \A j \in 1 .. Len(add_lines') : add_lines'[j] <= post_line' <=> j <= k
        BY <3>1, <3>4
      <4>4. k \in 0 .. Len(add_lines')
        BY <3>4
      <4> QED
        BY <4>2, <4>3, <4>4
    <3>8. i' # 1 /\ i' - 1 = i /\ i' \in 1 .. Len(del_lines') + 1
      BY <3>2, <3>4, <3>5
    <3>9. pre_line' = IF i' = 1 THEN 0 ELSE del_lines'[i' - 1]
      BY <3>4, <3>8
    <3>10. n_unchanged' >= 0 /\ (i' > 1 => n_unchanged' >= 1)
      BY <3>3, <3>4, <3>6
    <3> QED
      BY <3>7, <3>8, <3>9, <3>10 DEF DelInv
  <2> QED
    BY <2>2, <2>3, <2>4 DEF IInv
<1>4. CASE DeletedDone
  <2>1. /\ i \in 1 .. Len(del_lines) + 1
        /\ pre_line = IF i = 1 THEN 0 ELSE del_lines[i - 1]
        /\ n_unchanged >= 0
        /\ i > 1 => n_unchanged >= 1
        /\ n_unchanged \in Int /\ pre_line \in Nat
    BY <1>0, <1>4 DEF DeletedDone, DelInv, TypeOK
  <2>2. TypeOK'
    BY <1>0, <1>4, <2>1 DEF TypeOK, DeletedDone
  <2>3. AddInv' /\ DelInv'
    BY <1>4 DEF DeletedDone, AddInv, DelInv
  <2>4. SameRank'
    <3> DEFINE line == pre_line + n_unchanged
    <3>1. PICK k \in 0 .. Len(add_lines) :
            /\ \A j \in 1 .. Len(add_lines) : add_lines[j] <= post_line <=> j <= k
            /\ n_unchanged + pre_line - (i - 1) = post_line - k
      BY <1>0, <1>4 DEF DeletedDone, DelInv
    <3>2. \A j \in 1 .. Len(del_lines) : j <= i - 1 => del_lines[j] < line
      <4> SUFFICES ASSUME NEW j \in 1 .. Len(del_lines), j <= i - 1
                   PROVE  del_lines[j] < line
        OBVIOUS
      <4>1. i > 1 /\ i - 1 \in 1 .. Len(del_lines) /\ pre_line = del_lines[i - 1]
        BY <2>1, <1>0
      <4>2. j = i - 1 \/ del_lines[j] < del_lines[i - 1]
        BY <4>1, <1>0 DEF Ascending
      <4>3. del_lines[j] \in Nat /\ line \in Int /\ pre_line < line
        BY <4>1, <2>1, <1>0
      <4> QED
        BY <4>1, <4>2, <4>3, <2>1
    <3>3. \A j \in 1 .. Len(del_lines) : j > i - 1 => del_lines[j] > line
      <4> SUFFICES ASSUME NEW j \in 1 .. Len(del_lines), j > i - 1
                   PROVE  del_lines[j] > line
        OBVIOUS
      <4>1. i \in 1 .. Len(del_lines)
        BY <2>1, <1>0
      <4>2. n_unchanged - (del_lines[i] - pre_line - 1) <= 0
        <5>1. ~(n_unchanged - (del_lines[i] - pre_line - 1) > 0)
          BY <4>1, <1>4, <1>0 DEF DeletedDone, DelInFront, NewNN
        <5>2. n_unchanged - (del_lines[i] - pre_line - 1) \in Int
          BY <4>1, <1>0, <2>1
        <5> QED
          BY <5>1, <5>2
      <4>3. j = i \/ del_lines[i] < del_lines[j]
        BY <4>1, <1>0 DEF Ascending
      <4>4. /\ del_lines[j] \in Nat /\ del_lines[i] \in Nat
            /\ del_lines[i] > line
        <5>1. del_lines[j] \in Nat /\ del_lines[i] \in Nat
          BY <4>1, <1>0
        <5>2. \A d, n, l \in Int : n - (d - l - 1) <= 0 => d > l + n
          OBVIOUS
        <5> QED
          BY <4>2, <5>1, <5>2, <2>1
      <4>5. line \in Int
        BY <2>1
      <4> QED
        BY <4>3, <4>4, <4>5
    <3>4. /\ i - 1 \in 0 .. Len(del_lines)
          /\ line - (i - 1) = post_line - k
          /\ \A j \in 1 .. Len(del_lines) :
               /\ del_lines[j] < line <=> j <= i - 1
               /\ del_lines[j] # line
      BY <3>1, <3>2, <3>3, <2>1, <1>0
    <3>5. /\ pre_line' = line
          /\ add_lines' = add_lines /\ del_lines' = del_lines /\ post_line' = post_line
      BY <1>4 DEF DeletedDone
    <3> HIDE DEF line
    <3> QED
      BY <3>1, <3>4, <3>5 DEF SameRank
  <2> QED
    BY <2>2, <2>3, <2>4 DEF IInv
<1>5. CASE UNCHANGED vars
  BY <1>0, <1>5 DEF IInv, TypeOK, AddInv, DelInv, SameRank, vars
<1> QED
  BY <1>1, <1>2, <1>3, <1>4, <1>5 DEF Next

-----------------------------------------------------------------------------
THEOREM Inductive ==
  Spec => []IInv
BY InitInv, StepInv, PTL DEF Spec

\* Every variable keeps its type; pre_line in particular never turns
\* negative, whatever the lists are.
THEOREM TypeCorrect ==
  Spec => []TypeOK
<1>1. IInv => TypeOK
  BY DEF IInv
<1> QED
  BY <1>1, Inductive, PTL

\* The result of _MapPostToPreLine is a line that was not deleted, at the
\* rank of post_line.
THEOREM MapCorrect ==
  Spec => []SameRank
<1>1. IInv => SameRank
  BY DEF IInv
<1> QED
  BY <1>1, Inductive, PTL

-----------------------------------------------------------------------------
(* The loops count what Rank defines. *)

\* If the first k lines of an ascending list are those up to line l, l has
\* rank l - k among the lines not in the list.
LEMMA RankOfPrefix ==
  ASSUME NEW s, Len(s) \in Nat, \A j \in 1 .. Len(s) : s[j] \in Nat \ {0}, Ascending(s),
         NEW k \in 0 .. Len(s), NEW l \in Nat, \A j \in 1 .. Len(s) : s[j] <= l <=> j <= k
  PROVE  Rank(ElementsOf(s), l) = l - k
<1> DEFINE P == {s[j] : j \in 1 .. k}
<1>1. IsFiniteSet(P) /\ Cardinality(P) = k
  <2> DEFINE f == [j \in 1 .. k |-> s[j]]
  <2>1. f \in [1 .. k -> P] /\ \A x \in P : \E j \in 1 .. k : f[j] = x
    OBVIOUS
  <2>2. \A i_1, i_2 \in 1 .. k : i_1 # i_2 => s[i_1] # s[i_2]
    <3> SUFFICES ASSUME NEW a \in 1 .. k, NEW b \in 1 .. k, a < b
                 PROVE  s[a] < s[b]
      OBVIOUS
    <3> QED
      BY DEF Ascending
  <2>3. f \in Bijection(1 .. k, P)
    BY <2>1, <2>2 DEF Bijection, Injection, Surjection, IsInjective
  <2>4. IsFiniteSet(1 .. k) /\ Cardinality(1 .. k) = k
    BY FS_Interval
  <2> HIDE DEF f, P
  <2> QED
    BY <2>3, <2>4, FS_Bijection DEF ExistsBijection
<1>2. P \subseteq 1 .. l
  OBVIOUS
<1>3. (1 .. l) \ ElementsOf(s) = (1 .. l) \ P
  BY DEF ElementsOf
<1>4. Rank(P, l) = l - k
  <2> HIDE DEF P
  <2> QED
    BY <1>1, <1>2, RankBounds
<1> QED
  BY <1>3, <1>4 DEF Rank

\* A line of the rank of post_line that was not deleted is the one that
\* MapPostToPreLine chooses.
LEMMA SameRankIsSurvivor ==
  TypeOK /\ SameRank => MapsToSurvivor
<1> SUFFICES ASSUME TypeOK, SameRank, pc = "done"
             PROVE  pre_line = MapPostToPreLine(ElementsOf(add_lines), ElementsOf(del_lines), post_line)
  BY DEF MapsToSurvivor
<1> DEFINE add == ElementsOf(add_lines)
           del == ElementsOf(del_lines)
<1>0. /\ post_line \in Nat \ {0} /\ pre_line \in Nat
      /\ Len(add_lines) \in Nat /\ Len(del_lines) \in Nat
      /\ \A j \in 1 .. Len(add_lines) : add_lines[j] \in Nat \ {0}
      /\ \A j \in 1 .. Len(del_lines) : del_lines[j] \in Nat \ {0}
      /\ Ascending(add_lines) /\ Ascending(del_lines)
  BY LinesAreNumbers DEF TypeOK
<1>2. PICK k \in 0 .. Len(add_lines), m \in 0 .. Len(del_lines) :
        /\ \A j \in 1 .. Len(add_lines) : add_lines[j] <= post_line <=> j <= k
        /\ \A j \in 1 .. Len(del_lines) :
             /\ del_lines[j] < pre_line <=> j <= m
             /\ del_lines[j] # pre_line
        /\ pre_line - m = post_line - k
  BY DEF SameRank
<1>3. Rank(add, post_line) = post_line - k
  BY <1>0, <1>2, RankOfPrefix
<1>4. \A j \in 1 .. Len(del_lines) : del_lines[j] <= pre_line <=> j <= m
  BY <1>0, <1>2
<1>5. Rank(del, pre_line) = pre_line - m
  BY <1>0, <1>2, <1>4, RankOfPrefix
<1>6. Rank(del, pre_line) = Rank(add, post_line)
  BY <1>2, <1>3, <1>5
<1>7. pre_line \notin del
  BY <1>2 DEF ElementsOf
<1>8. IsFiniteSet(del)
  <2> DEFINE f == [j \in 1 .. Len(del_lines) |-> del_lines[j]]
  <2>1. IsFiniteSet(1 .. Len(del_lines))
    BY <1>0, FS_Interval
  <2>2. f \in Surjection(1 .. Len(del_lines), del)
    BY DEF Surjection, ElementsOf
  <2> HIDE DEF f, del
  <2> QED
    BY <2>1, <2>2, FS_Surjection
<1> HIDE DEF add, del
<1>9. CASE pre_line = 0
  <2>1. Rank(del, pre_line) \in Nat /\ Rank(del, pre_line) <= pre_line
    BY <1>0, <1>8, RankType, RankBounds
  <2>2. Rank(add, post_line) = 0
    BY <1>6, <1>9, <2>1
  <2> QED
    BY <1>9, <2>2 DEF MapPostToPreLine, add, del
<1>10. CASE pre_line # 0
  <2>1. MapPostToPreLine(add, del, post_line) = pre_line
    BY <1>0, <1>6, <1>7, <1>8, <1>10, MapToRank
  <2> QED
    BY <2>1 DEF add, del
<1> QED
  BY <1>9, <1>10

\* The loops of _MapPostToPreLine return what MapPostToPreLine defines: the
\* other modules may use it in their place.
THEOREM SurvivorCorrect ==
  Spec => []MapsToSurvivor
<1>1. IInv => MapsToSurvivor
  BY SameRankIsSurvivor DEF IInv
<1> QED
  BY <1>1, Inductive, PTL
=============================================================================
