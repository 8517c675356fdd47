--------------------------- MODULE FrontendProofs ---------------------------
(***************************************************************************)
(* Proofs about the front end, for any files, versions, edits and          *)
(* histories, in four parts:                                               *)
(*   - what GetChangeInfos reads from the output of "git show", whatever   *)
(*     the edits and the number of sections are;                           *)
(*   - what the list of changes says of the trees of a commit and of its   *)
(*     parent;                                                             *)
(*   - that the loaded modules are kept up to date, whatever was read;     *)
(*   - that the work tree, the directories and the line numbers are right  *)
(*     as long as the parser misses nothing of a linear history.           *)
(***************************************************************************)
EXTENDS Frontend, DiffLinesProofs, SequenceTheorems

-----------------------------------------------------------------------------
\* The lines of "git show".
Line ==
  [k : {"diff"}, pre : File \cup {NoPath}, post : File \cup {NoPath}]
    \cup [k : {"@@"}, pre : Int, post : Int]
    \cup [k : {"new", "deleted"} \cup Mark]

-----------------------------------------------------------------------------
(* Folds over lines. *)

Parse(p, lines) == FoldLeft(Read, p, lines)

\* The greatest element of a set is the one that no other exceeds.
LEMMA MaxOfPrefix ==
  ASSUME NEW S, NEW n \in Nat, n \in S, \A k \in S : k \in Nat /\ k <= n
  PROVE  Max(S) = n
<1>1. n \in S /\ \A k \in S : n >= k
  OBVIOUS
<1>2. \A x \in S : (\A k \in S : x >= k) => x = n
  OBVIOUS
<1> QED
  BY <1>1, <1>2 DEF Max

\* The recursive function in the definition of folds exists.
Iterates(g, p, lines, n) ==
  g = [s \in SUBSET (1 .. n) |->
         IF s = {} THEN p ELSE LET x == Max(s) IN Read(g[s \ {x}], lines[x])]

\* It exists for every number of lines: the least one without would have a predecessor.
LEMMA IterExists ==
  ASSUME NEW p, NEW lines, NEW n \in Nat
  PROVE  \E g : Iterates(g, p, lines, n)
<1> DEFINE Bad == {k \in Nat : ~ \E g : Iterates(g, p, lines, k)}
<1> SUFFICES ASSUME Bad # {} PROVE FALSE
  OBVIOUS
<1>1. PICK m \in Bad : \A k \in Bad : m <= k
  <2>1. Bad \in SUBSET Nat
    OBVIOUS
  <2> HIDE DEF Bad
  <2> QED
    BY <2>1, LeastElement
<1>2. m # 0
  <2> DEFINE g == [s \in SUBSET (1 .. 0) |-> p]
  <2>1. \A s \in SUBSET (1 .. 0) : s = {}
    OBVIOUS
  <2>2. Iterates(g, p, lines, 0)
    BY <2>1 DEF Iterates
  <2> QED
    BY <2>2
<1>3. m - 1 \in Nat /\ m - 1 \notin Bad
  BY <1>1, <1>2
<1>4. PICK g : Iterates(g, p, lines, m - 1)
  BY <1>3
<1> DEFINE h == [s \in SUBSET (1 .. m) |->
                   IF m \in s THEN Read(g[s \ {m}], lines[m]) ELSE g[s]]
<1>5. ASSUME NEW s \in SUBSET (1 .. m)
      PROVE  h[s] = IF s = {} THEN p ELSE LET x == Max(s) IN Read(h[s \ {x}], lines[x])
  <2>1. CASE m \in s
    <3>1. Max(s) = m
      <4>1. m \in Nat /\ m \in s /\ \A k \in s : k \in Nat /\ k <= m
        BY <2>1, <1>3
      <4> QED
        BY <4>1, MaxOfPrefix
    <3>2. s \ {m} \in SUBSET (1 .. m) /\ h[s \ {m}] = g[s \ {m}]
      OBVIOUS
    <3> QED
      BY <2>1, <3>1, <3>2
  <2>2. CASE m \notin s
    <3>1. s \in SUBSET (1 .. (m - 1))
      BY <2>2, <1>3
    <3>2. h[s] = IF s = {} THEN p ELSE LET x == Max(s) IN Read(g[s \ {x}], lines[x])
      BY <2>2, <3>1, <1>4 DEF Iterates
    <3>3. \A x : s \ {x} \in SUBSET (1 .. m) /\ h[s \ {x}] = g[s \ {x}]
      BY <2>2
    <3> QED
      BY <3>2, <3>3
  <2> QED
    BY <2>1, <2>2
<1>6. Iterates(h, p, lines, m)
  BY <1>5 DEF Iterates
<1> QED
  BY <1>1, <1>6

\* One line after the other: the states of the parser.
IsRun(st, p, lines, n) ==
  st[0] = p /\ \A i \in 1 .. n : st[i] = Read(st[i - 1], lines[i])

\* A fold is a run: one state of the parser for each prefix of the lines.
LEMMA ParseRuns ==
  ASSUME NEW p, NEW lines, NEW n \in Nat, DOMAIN lines = 1 .. n
  PROVE  \E st : IsRun(st, p, lines, n) /\ Parse(p, lines) = st[n]
<1> DEFINE iter == CHOOSE g : Iterates(g, p, lines, n)
           st   == [i \in 0 .. n |-> iter[1 .. i]]
<1>1. Iterates(iter, p, lines, n)
  BY IterExists
<1>2. Parse(p, lines) = iter[1 .. n]
  BY DEF Parse, FoldLeft, MapThenFoldSet, Iterates
<1>3. st[0] = p
  <2>1. 1 .. 0 = {}
    OBVIOUS
  <2> HIDE DEF iter
  <2> QED
    BY <1>1, <2>1 DEF Iterates
<1>4. ASSUME NEW i \in 1 .. n PROVE st[i] = Read(st[i - 1], lines[i])
  <2>1. Max(1 .. i) = i
    <3>1. i \in Nat /\ i \in 1 .. i /\ \A k \in 1 .. i : k \in Nat /\ k <= i
      OBVIOUS
    <3> QED
      BY <3>1, MaxOfPrefix
  <2>2. (1 .. i) \ {i} = 1 .. (i - 1) /\ 1 .. i \in SUBSET (1 .. n) /\ 1 .. i # {}
    OBVIOUS
  <2> HIDE DEF iter
  <2>3. iter[1 .. i] = Read(iter[(1 .. i) \ {i}], lines[i])
    BY <1>1, <2>1, <2>2 DEF Iterates
  <2>4. i \in 0 .. n /\ i - 1 \in 0 .. n
    OBVIOUS
  <2> QED
    BY <2>2, <2>3, <2>4
<1>5. n \in 0 .. n
  OBVIOUS
<1> HIDE DEF iter
<1> QED
  BY <1>2, <1>3, <1>4, <1>5 DEF IsRun

\* There is only one run over the same lines.
LEMMA SameRun ==
  ASSUME NEW p, NEW lines, NEW n \in Nat, NEW f, NEW g,
         IsRun(f, p, lines, n), IsRun(g, p, lines, n)
  PROVE  f[n] = g[n]
<1> DEFINE Bad == {k \in 0 .. n : f[k] # g[k]}
<1> SUFFICES ASSUME Bad # {} PROVE FALSE
  OBVIOUS
<1>1. PICK m \in Bad : \A k \in Bad : m <= k
  <2>1. Bad \in SUBSET Nat
    OBVIOUS
  <2> HIDE DEF Bad
  <2> QED
    BY <2>1, LeastElement
<1>2. m # 0
  BY DEF IsRun
<1>3. m \in 1 .. n /\ m - 1 \in 0 .. n /\ m - 1 \notin Bad
  BY <1>1, <1>2
<1>4. f[m - 1] = g[m - 1]
  BY <1>3
<1>5. f[m] = g[m]
  BY <1>3, <1>4 DEF IsRun
<1> QED
  BY <1>5

\* No line, no change of the state.
LEMMA ParseEmpty ==
  \A p : Parse(p, <<>>) = p
<1> SUFFICES ASSUME NEW p PROVE Parse(p, <<>>) = p
  OBVIOUS
<1>1. DOMAIN <<>> = 1 .. 0
  OBVIOUS
<1>2. PICK st : IsRun(st, p, <<>>, 0) /\ Parse(p, <<>>) = st[0]
  BY <1>1, ParseRuns
<1> QED
  BY <1>2 DEF IsRun

\* Lines are parsed part by part.
LEMMA ParseConcat ==
  ASSUME NEW S, NEW p, NEW s \in Seq(S), NEW t \in Seq(S)
  PROVE  Parse(p, s \o t) = Parse(Parse(p, s), t)
<1> DEFINE m == Len(s)
           n == Len(t)
<1>1. /\ m \in Nat /\ n \in Nat
      /\ DOMAIN s = 1 .. m /\ DOMAIN t = 1 .. n /\ DOMAIN (s \o t) = 1 .. (m + n)
      /\ \A i \in 1 .. m : (s \o t)[i] = s[i]
      /\ \A i \in 1 .. n : (s \o t)[m + i] = t[i]
  OBVIOUS
<1> HIDE DEF m, n
<1>2. PICK st : IsRun(st, p, s \o t, m + n) /\ Parse(p, s \o t) = st[m + n]
  <2>1. m + n \in Nat /\ DOMAIN (s \o t) = 1 .. (m + n)
    BY <1>1
  <2> QED
    BY <2>1, ParseRuns
<1>3. PICK f : IsRun(f, p, s, m) /\ Parse(p, s) = f[m]
  BY <1>1, ParseRuns
<1>4. PICK g : IsRun(g, Parse(p, s), t, n) /\ Parse(Parse(p, s), t) = g[n]
  <2>1. n \in Nat /\ DOMAIN t = 1 .. n
    BY <1>1
  <2> QED
    BY <2>1, ParseRuns
<1>5. IsRun(st, p, s, m)
  BY <1>1, <1>2 DEF IsRun
<1>6. st[m] = Parse(p, s)
  BY <1>1, <1>3, <1>5, SameRun
<1> DEFINE h == [i \in 0 .. n |-> st[m + i]]
<1>7. IsRun(h, Parse(p, s), t, n)
  <2>1. h[0] = Parse(p, s)
    BY <1>1, <1>6
  <2>2. ASSUME NEW i \in 1 .. n PROVE h[i] = Read(h[i - 1], t[i])
    <3>1. m + i \in 1 .. (m + n) /\ m + (i - 1) = (m + i) - 1 /\ i \in 0 .. n /\ i - 1 \in 0 .. n
      BY <1>1
    <3>2. st[m + i] = Read(st[(m + i) - 1], (s \o t)[m + i])
      BY <1>2, <3>1 DEF IsRun
    <3> QED
      BY <1>1, <3>1, <3>2
  <2> QED
    BY <2>1, <2>2 DEF IsRun
<1>8. h[n] = g[n]
  BY <1>1, <1>4, <1>7, SameRun
<1>9. h[n] = st[m + n]
  BY <1>1
<1> QED
  BY <1>2, <1>4, <1>8, <1>9

\* One line is read by Read.
LEMMA ParseOne ==
  \A p, line : Parse(p, <<line>>) = Read(p, line)
<1> SUFFICES ASSUME NEW p, NEW line PROVE Parse(p, <<line>>) = Read(p, line)
  OBVIOUS
<1>1. DOMAIN <<line>> = 1 .. 1 /\ <<line>>[1] = line
  OBVIOUS
<1>2. PICK st : IsRun(st, p, <<line>>, 1) /\ Parse(p, <<line>>) = st[1]
  BY <1>1, ParseRuns
<1> QED
  BY <1>1, <1>2 DEF IsRun

-----------------------------------------------------------------------------
(* Flattening. *)

IsFlattening(g, ss, n) ==
  g = [i \in 1 .. n |-> IF i = 1 THEN ss[i] ELSE g[i - 1] \o ss[i]]

\* The recursive function in the definition of FlattenSeq exists.
LEMMA FlatteningExists ==
  ASSUME NEW ss, NEW n \in Nat
  PROVE  \E g : IsFlattening(g, ss, n)
<1> DEFINE Bad == {k \in Nat : ~ \E g : IsFlattening(g, ss, k)}
<1> SUFFICES ASSUME Bad # {} PROVE FALSE
  OBVIOUS
<1>1. PICK m \in Bad : \A k \in Bad : m <= k
  <2>1. Bad \in SUBSET Nat
    OBVIOUS
  <2> HIDE DEF Bad
  <2> QED
    BY <2>1, LeastElement
<1>2. m # 0
  <2> DEFINE g == [i \in 1 .. 0 |-> ss[i]]
  <2>1. IsFlattening(g, ss, 0)
    BY DEF IsFlattening
  <2> QED
    BY <2>1
<1>3. m - 1 \in Nat /\ m - 1 \notin Bad
  BY <1>1, <1>2
<1>4. PICK g : IsFlattening(g, ss, m - 1)
  BY <1>3
<1> DEFINE h == [i \in 1 .. m |->
                   IF i < m THEN g[i] ELSE IF i = 1 THEN ss[i] ELSE g[i - 1] \o ss[i]]
<1>5. ASSUME NEW i \in 1 .. m
      PROVE  h[i] = IF i = 1 THEN ss[i] ELSE h[i - 1] \o ss[i]
  <2>1. i # 1 => i - 1 \in 1 .. m /\ h[i - 1] = g[i - 1]
    BY <1>3
  <2>2. i < m => i \in 1 .. (m - 1)
    BY <1>3
  <2>3. i < m => g[i] = IF i = 1 THEN ss[i] ELSE g[i - 1] \o ss[i]
    BY <1>4, <2>2 DEF IsFlattening
  <2> QED
    BY <2>1, <2>3
<1>6. IsFlattening(h, ss, m)
  BY <1>5 DEF IsFlattening
<1> QED
  BY <1>1, <1>6

AreParts(ss, n, S) ==
  /\ Len(ss) = n /\ DOMAIN ss = 1 .. n /\ (n = 0 => ss = <<>>)
  /\ \A i \in 1 .. n : ss[i] \in Seq(S)

ArePrefixes(F, ss, n, S) ==
  /\ F[0] = <<>> /\ F[n] = FlattenSeq(ss)
  /\ \A i \in 1 .. n : F[i] = F[i - 1] \o ss[i]
  /\ \A i \in 0 .. n : F[i] \in Seq(S)

\* The prefixes of a flattened sequence.
LEMMA FlattenSteps ==
  ASSUME NEW S, NEW ss, NEW n \in Nat, AreParts(ss, n, S)
  PROVE  \E F : ArePrefixes(F, ss, n, S)
<1> DEFINE flatten == CHOOSE g : IsFlattening(g, ss, n)
           F == [i \in 0 .. n |-> IF i = 0 THEN <<>> ELSE flatten[i]]
<1>0. /\ Len(ss) = n /\ (n = 0 => ss = <<>>)
      /\ \A i \in 1 .. n : ss[i] \in Seq(S)
  BY DEF AreParts
<1>1. IsFlattening(flatten, ss, n)
  BY FlatteningExists
<1>2. n # 0 => FlattenSeq(ss) = flatten[n]
  BY <1>0 DEF FlattenSeq, IsFlattening
<1>3. n = 0 => FlattenSeq(ss) = <<>>
  BY <1>0 DEF FlattenSeq
<1> HIDE DEF flatten
<1>4. F[n] = FlattenSeq(ss) /\ F[0] = <<>>
  BY <1>2, <1>3
<1>5. ASSUME NEW i \in 1 .. n
      PROVE  F[i] = IF i = 1 THEN ss[i] ELSE F[i - 1] \o ss[i]
  <2>1. flatten[i] = IF i = 1 THEN ss[i] ELSE flatten[i - 1] \o ss[i]
    BY <1>1 DEF IsFlattening
  <2>2. F[i] = flatten[i] /\ (i # 1 => F[i - 1] = flatten[i - 1])
    OBVIOUS
  <2> QED
    BY <2>1, <2>2
<1> HIDE DEF F
<1>6. ASSUME NEW i \in 1 .. n
      PROVE  F[i] = F[i - 1] \o ss[i]
  <2>1. CASE i = 1
    <3>1. F[i] = ss[i] /\ F[i - 1] = <<>>
      BY <1>4, <1>5, <2>1
    <3>2. <<>> \o ss[i] = ss[i]
      BY <1>0, ConcatEmptySeq
    <3> QED
      BY <3>1, <3>2
  <2>2. CASE i # 1
    BY <1>5, <2>2
  <2> QED
    BY <2>1, <2>2
<1> DEFINE Bad == {k \in 0 .. n : F[k] \notin Seq(S)}
<1>7. Bad = {}
  <2> SUFFICES ASSUME Bad # {} PROVE FALSE
    OBVIOUS
  <2>1. PICK m \in Bad : \A k \in Bad : m <= k
    <3>1. Bad \in SUBSET Nat
      OBVIOUS
    <3> HIDE DEF Bad
    <3> QED
      BY <3>1, LeastElement
  <2>2. m # 0
    BY <1>4, EmptySeq
  <2>3. m \in 1 .. n /\ m - 1 \in 0 .. n /\ m - 1 \notin Bad
    BY <2>1, <2>2
  <2>4. F[m - 1] \in Seq(S) /\ ss[m] \in Seq(S) /\ F[m] = F[m - 1] \o ss[m]
    BY <1>0, <1>6, <2>3
  <2>5. F[m] \in Seq(S)
    BY <2>4, ConcatProperties
  <2> QED
    BY <2>5
<1> QED
  BY <1>4, <1>6, <1>7 DEF ArePrefixes

PartsRead(q, p, ss, n) ==
  /\ q[0] = p /\ q[n] = Parse(p, FlattenSeq(ss))
  /\ \A i \in 1 .. n : q[i] = Parse(q[i - 1], ss[i])

\* One part after the other.
LEMMA ParseFlatten ==
  ASSUME NEW S, NEW p, NEW ss, NEW n \in Nat, AreParts(ss, n, S)
  PROVE  \E q : PartsRead(q, p, ss, n)
<1>0. PICK F : ArePrefixes(F, ss, n, S)
  BY FlattenSteps
<1>1. /\ F[0] = <<>> /\ F[n] = FlattenSeq(ss)
      /\ \A i \in 1 .. n : F[i] = F[i - 1] \o ss[i]
      /\ \A i \in 0 .. n : F[i] \in Seq(S)
      /\ \A i \in 1 .. n : ss[i] \in Seq(S)
  BY <1>0 DEF ArePrefixes, AreParts
<1> DEFINE q == [i \in 0 .. n |-> Parse(p, F[i])]
<1>2. q[0] = p /\ q[n] = Parse(p, FlattenSeq(ss))
  BY <1>1, ParseEmpty
<1>3. ASSUME NEW i \in 1 .. n PROVE q[i] = Parse(q[i - 1], ss[i])
  <2>1. F[i] = F[i - 1] \o ss[i] /\ F[i - 1] \in Seq(S) /\ ss[i] \in Seq(S)
    <3>1. i - 1 \in 0 .. n
      OBVIOUS
    <3> HIDE DEF q
    <3> QED
      BY <1>1, <3>1
  <2>2. Parse(p, F[i]) = Parse(Parse(p, F[i - 1]), ss[i])
    BY <2>1, ParseConcat
  <2> QED
    BY <2>2
<1> QED
  BY <1>2, <1>3 DEF PartsRead

\* The elements of a flattened sequence.
LEMMA FlattenRange ==
  ASSUME NEW S, NEW ss, NEW n \in Nat, AreParts(ss, n, S)
  PROVE  /\ FlattenSeq(ss) \in Seq(S)
         /\ Range(FlattenSeq(ss)) = UNION {Range(ss[i]) : i \in 1 .. n}
<1>0. PICK F : ArePrefixes(F, ss, n, S)
  BY FlattenSteps
<1>1. /\ F[0] = <<>> /\ F[n] = FlattenSeq(ss)
      /\ \A i \in 1 .. n : F[i] = F[i - 1] \o ss[i]
      /\ \A i \in 0 .. n : F[i] \in Seq(S)
      /\ \A i \in 1 .. n : ss[i] \in Seq(S)
  BY <1>0 DEF ArePrefixes, AreParts
<1> DEFINE Bad == {k \in 0 .. n : Range(F[k]) # UNION {Range(ss[i]) : i \in 1 .. k}}
<1>2. Bad = {}
  <2> SUFFICES ASSUME Bad # {} PROVE FALSE
    OBVIOUS
  <2>1. PICK m \in Bad : \A k \in Bad : m <= k
    <3>1. Bad \in SUBSET Nat
      OBVIOUS
    <3> HIDE DEF Bad
    <3> QED
      BY <3>1, LeastElement
  <2>2. m # 0
    <3>1. Range(<<>>) = {}
      BY DEF Range
    <3>2. UNION {Range(ss[i]) : i \in 1 .. 0} = {}
      OBVIOUS
    <3> QED
      BY <1>1, <3>1, <3>2
  <2>3. m \in 1 .. n /\ m - 1 \in 0 .. n /\ m - 1 \notin Bad
    BY <2>1, <2>2
  <2>4. F[m - 1] \in Seq(S) /\ ss[m] \in Seq(S) /\ F[m] = F[m - 1] \o ss[m]
    BY <1>1, <2>3
  <2>5. Range(F[m]) = Range(F[m - 1]) \cup Range(ss[m])
    BY <2>4, RangeConcatenation
  <2>6. 1 .. m = (1 .. (m - 1)) \cup {m}
    BY <2>3
  <2>7. Range(F[m - 1]) = UNION {Range(ss[i]) : i \in 1 .. (m - 1)}
    BY <2>3
  <2>8. UNION {Range(ss[i]) : i \in 1 .. m} = (UNION {Range(ss[i]) : i \in 1 .. (m - 1)}) \cup Range(ss[m])
    BY <2>6
  <2> QED
    BY <2>5, <2>7, <2>8
<1>3. n \in 0 .. n
  OBVIOUS
<1> QED
  BY <1>1, <1>2, <1>3

-----------------------------------------------------------------------------
(* One line. *)

\* A state of the parser.
St(loop, pre, post, cur, del, add, ret) ==
  [loop |-> loop, pre |-> pre, post |-> post, cur |-> cur, del |-> del, add |-> add, ret |-> ret]

\* The header of a hunk sets the line numbers.
LEMMA ReadHunk ==
  ASSUME NEW loop, NEW pre, NEW post, NEW cur, NEW del, NEW add, NEW ret, NEW a, NEW b,
         (loop = "paths" /\ (pre # NoPath \/ post # NoPath)) \/ loop = "lines"
  PROVE  Read(St(loop, pre, post, cur, del, add, ret), [k |-> "@@", pre |-> a, post |-> b])
           = St("lines", pre, post, <<a, b>>, del, add, ret)
BY DEF Read, ReadPath, ReadLine, St

\* A deleted line is listed under its old number.
LEMMA ReadDeleted ==
  ASSUME NEW pre, NEW post, NEW a, NEW b, NEW del, NEW add, NEW ret
  PROVE  Read(St("lines", pre, post, <<a, b>>, del, add, ret), [k |-> "-"])
           = St("lines", pre, post, <<a + 1, b>>, Append(del, a), add, ret)
<1>1. [<<a, b>> EXCEPT ![1] = a + 1] = <<a + 1, b>>
  OBVIOUS
<1> QED
  BY <1>1 DEF Read, ReadLine, St

\* An added line is listed under its new number.
LEMMA ReadAdded ==
  ASSUME NEW pre, NEW post, NEW a, NEW b, NEW del, NEW add, NEW ret
  PROVE  Read(St("lines", pre, post, <<a, b>>, del, add, ret), [k |-> "+"])
           = St("lines", pre, post, <<a, b + 1>>, del, Append(add, b), ret)
<1>1. [<<a, b>> EXCEPT ![2] = b + 1] = <<a, b + 1>>
  OBVIOUS
<1> QED
  BY <1>1 DEF Read, ReadLine, St

\* A line of context counts in both files.
LEMMA ReadContext ==
  ASSUME NEW pre, NEW post, NEW a, NEW b, NEW del, NEW add, NEW ret
  PROVE  Read(St("lines", pre, post, <<a, b>>, del, add, ret), [k |-> " "])
           = St("lines", pre, post, <<a + 1, b + 1>>, del, add, ret)
BY DEF Read, ReadLine, St

\* The first line of a section sets both paths.
LEMMA ReadPaths ==
  ASSUME NEW pre, NEW post, NEW cur, NEW del, NEW add, NEW ret, NEW x, NEW y
  PROVE  Read(St("paths", pre, post, cur, del, add, ret), [k |-> "diff", pre |-> x, post |-> y])
           = St("paths", x, y, cur, del, add, ret)
BY DEF Read, ReadPath, St

\* A new file, or a new mode, clears the old path.
LEMMA ReadCreated ==
  ASSUME NEW pre, NEW post, NEW cur, NEW del, NEW add, NEW ret
  PROVE  Read(St("paths", pre, post, cur, del, add, ret), [k |-> "new"])
           = St("paths", NoPath, post, cur, del, add, ret)
BY DEF Read, ReadPath, St

\* A deleted file clears the new path.
LEMMA ReadRemoved ==
  ASSUME NEW pre, NEW post, NEW cur, NEW del, NEW add, NEW ret
  PROVE  Read(St("paths", pre, post, cur, del, add, ret), [k |-> "deleted"])
           = St("paths", pre, NoPath, cur, del, add, ret)
BY DEF Read, ReadPath, St

\* The first line of the next section reports the one before it.
LEMMA ReadNext ==
  ASSUME NEW pre, NEW post, NEW cur, NEW del, NEW add, NEW ret, NEW x, NEW y
  PROVE  LET p == St("lines", pre, post, cur, del, add, ret) IN
         Read(p, [k |-> "diff", pre |-> x, post |-> y])
           = St("paths", x, y, <<0, 0>>, <<>>, <<>>, ret \o Emit(p))
<1> DEFINE p == St("lines", pre, post, cur, del, add, ret)
           line == [k |-> "diff", pre |-> x, post |-> y]
<1>1. Read(p, line) = ReadPath(NoPaths(ret \o Emit(p)), line)
  BY DEF Read, ReadLine, St
<1>2. NoPaths(ret \o Emit(p)) = St("paths", NoPath, NoPath, <<0, 0>>, <<>>, <<>>, ret \o Emit(p))
  BY DEF NoPaths, St
<1>3. ReadPath(St("paths", NoPath, NoPath, <<0, 0>>, <<>>, <<>>, ret \o Emit(p)), line)
        = St("paths", x, y, <<0, 0>>, <<>>, <<>>, ret \o Emit(p))
  BY DEF ReadPath, St
<1> QED
  BY <1>1, <1>2, <1>3

-----------------------------------------------------------------------------
(* Lines of an edit. *)

\* How the line numbers of an edit grow with its marks.
LEMMA OldLines ==
  ASSUME NEW edits
  PROVE  /\ OldLine(edits, 0) = 0 /\ NewLine(edits, 0) = 0
         /\ \A i \in Nat : OldLine(edits, i) \in Nat /\ NewLine(edits, i) \in Nat
         /\ \A i \in Nat : OldLine(edits, i + 1) = OldLine(edits, i) + (IF edits[i + 1] = "+" THEN 0 ELSE 1)
         /\ \A i \in Nat : NewLine(edits, i + 1) = NewLine(edits, i) + (IF edits[i + 1] = "-" THEN 0 ELSE 1)
<1> DEFINE A == {j \in Nat : edits[j] = "+"}
           D == {j \in Nat : edits[j] = "-"}
<1>1. ASSUME NEW i \in Nat
      PROVE  /\ {j \in 1 .. i : edits[j] # "+"} = (1 .. i) \ A
             /\ {j \in 1 .. i : edits[j] # "-"} = (1 .. i) \ D
             /\ i + 1 \in A <=> edits[i + 1] = "+"
             /\ i + 1 \in D <=> edits[i + 1] = "-"
  OBVIOUS
<1>2. ASSUME NEW i \in Nat
      PROVE  OldLine(edits, i) = Rank(A, i) /\ NewLine(edits, i) = Rank(D, i)
  BY <1>1 DEF OldLine, NewLine, Rank
<1> HIDE DEF A, D
<1>3. \A i \in Nat : /\ Rank(A, i) \in Nat /\ Rank(D, i) \in Nat
                     /\ Rank(A, i + 1) = Rank(A, i) + (IF i + 1 \in A THEN 0 ELSE 1)
                     /\ Rank(D, i + 1) = Rank(D, i) + (IF i + 1 \in D THEN 0 ELSE 1)
  BY RankType, RankStep
<1>4. Rank(A, 0) = 0 /\ Rank(D, 0) = 0
  <2>1. \A S : (1 .. 0) \ S = {}
    OBVIOUS
  <2> QED
    BY <2>1, FS_EmptySet DEF Rank
<1>5. \A i \in Nat : i + 1 \in Nat
  OBVIOUS
<1>6. \A i \in Nat : /\ OldLine(edits, i) = Rank(A, i) /\ OldLine(edits, i + 1) = Rank(A, i + 1)
                     /\ NewLine(edits, i) = Rank(D, i) /\ NewLine(edits, i + 1) = Rank(D, i + 1)
  BY <1>2, <1>5
<1>7. OldLine(edits, 0) = 0 /\ NewLine(edits, 0) = 0
  BY <1>4, <1>6
<1>8. ASSUME NEW i \in Nat
      PROVE  /\ OldLine(edits, i) \in Nat /\ NewLine(edits, i) \in Nat
             /\ OldLine(edits, i + 1) = OldLine(edits, i) + (IF edits[i + 1] = "+" THEN 0 ELSE 1)
             /\ NewLine(edits, i + 1) = NewLine(edits, i) + (IF edits[i + 1] = "-" THEN 0 ELSE 1)
  <2>1. /\ OldLine(edits, i) = Rank(A, i) /\ OldLine(edits, i + 1) = Rank(A, i + 1)
        /\ NewLine(edits, i) = Rank(D, i) /\ NewLine(edits, i + 1) = Rank(D, i + 1)
    BY <1>6
  <2>2. /\ Rank(A, i) \in Nat /\ Rank(D, i) \in Nat
        /\ Rank(A, i + 1) = Rank(A, i) + (IF edits[i + 1] = "+" THEN 0 ELSE 1)
        /\ Rank(D, i + 1) = Rank(D, i) + (IF edits[i + 1] = "-" THEN 0 ELSE 1)
    BY <1>1, <1>3
  <2> QED
    BY <2>1, <2>2
<1> QED
  BY <1>7, <1>8

\* A list of lines grows at its end.
LEMMA AscendingAppend ==
  ASSUME NEW S, NEW s \in Seq(Nat), IsLinesOf(S, s), NEW m \in Nat, \A x \in S : x < m
  PROVE  Append(s, m) \in Seq(Nat) /\ IsLinesOf(S \cup {m}, Append(s, m))
<1> DEFINE t == Append(s, m)
           n == Len(s)
<1>1. /\ n \in Nat /\ t \in Seq(Nat) /\ Len(t) = n + 1 /\ t[n + 1] = m
      /\ DOMAIN s = 1 .. n /\ DOMAIN t = 1 .. (n + 1)
      /\ \A i \in 1 .. n : t[i] = s[i] /\ s[i] \in Nat
  OBVIOUS
<1> HIDE DEF t, n
<1>2. S = {s[i] : i \in 1 .. n} /\ \A i \in 1 .. (n - 1) : s[i] < s[i + 1]
  BY <1>1 DEF IsLinesOf, Ascending, n
<1>3. {t[i] : i \in 1 .. (n + 1)} = S \cup {m}
  <2>1. 1 .. (n + 1) = (1 .. n) \cup {n + 1}
    BY <1>1
  <2> QED
    BY <1>1, <1>2, <2>1
<1>4. ASSUME NEW i \in 1 .. n PROVE t[i] < t[i + 1]
  <2>1. CASE i = n
    BY <1>1, <1>2, <2>1
  <2>2. CASE i # n
    <3>1. i \in 1 .. (n - 1) /\ i + 1 \in 1 .. n
      BY <1>1, <2>2
    <3> QED
      BY <1>1, <1>2, <3>1
  <2> QED
    BY <2>1, <2>2
<1>5. (n + 1) - 1 = n
  BY <1>1
<1> QED
  BY <1>1, <1>3, <1>4, <1>5 DEF IsLinesOf, Ascending, t

DelUpTo(edits, i) == {OldLine(edits, j) : j \in {j \in 1 .. i : edits[j] = "-"}}
AddUpTo(edits, i) == {NewLine(edits, j) : j \in {j \in 1 .. i : edits[j] = "+"}}

\* The deleted and added lines up to the next mark.
LEMMA UpToStep ==
  ASSUME NEW edits, NEW i \in Nat
  PROVE  /\ edits[i + 1] = "-" => DelUpTo(edits, i + 1) = DelUpTo(edits, i) \cup {OldLine(edits, i + 1)}
         /\ edits[i + 1] # "-" => DelUpTo(edits, i + 1) = DelUpTo(edits, i)
         /\ edits[i + 1] = "+" => AddUpTo(edits, i + 1) = AddUpTo(edits, i) \cup {NewLine(edits, i + 1)}
         /\ edits[i + 1] # "+" => AddUpTo(edits, i + 1) = AddUpTo(edits, i)
<1>1. 1 .. (i + 1) = (1 .. i) \cup {i + 1}
  OBVIOUS
<1> QED
  BY <1>1 DEF DelUpTo, AddUpTo

\* Lines are numbered in their order.
LEMMA UpToBound ==
  ASSUME NEW edits, NEW n \in Nat
  PROVE  /\ \A x \in DelUpTo(edits, n) : x \in Nat /\ x < OldLine(edits, n) + 1
         /\ \A x \in AddUpTo(edits, n) : x \in Nat /\ x < NewLine(edits, n) + 1
<1> DEFINE Bad == {k \in Nat : ~ /\ \A x \in DelUpTo(edits, k) : x \in Nat /\ x < OldLine(edits, k) + 1
                                 /\ \A x \in AddUpTo(edits, k) : x \in Nat /\ x < NewLine(edits, k) + 1}
<1>1. Bad = {}
  <2> SUFFICES ASSUME Bad # {} PROVE FALSE
    OBVIOUS
  <2>1. PICK m \in Bad : \A k \in Bad : m <= k
    <3>1. Bad \in SUBSET Nat
      OBVIOUS
    <3> HIDE DEF Bad
    <3> QED
      BY <3>1, LeastElement
  <2>2. m # 0
    <3>1. DelUpTo(edits, 0) = {} /\ AddUpTo(edits, 0) = {}
      BY DEF DelUpTo, AddUpTo
    <3> QED
      BY <3>1
  <2>3. m - 1 \in Nat /\ m - 1 \notin Bad /\ (m - 1) + 1 = m
    BY <2>1, <2>2
  <2> DEFINE k == m - 1
  <2>4. /\ \A x \in DelUpTo(edits, k) : x \in Nat /\ x < OldLine(edits, k) + 1
        /\ \A x \in AddUpTo(edits, k) : x \in Nat /\ x < NewLine(edits, k) + 1
    BY <2>3
  <2>5. k \in Nat /\ m = k + 1 /\ m \in Bad
    BY <2>3
  <2> HIDE DEF k
  <2>6. /\ OldLine(edits, k) \in Nat /\ OldLine(edits, m) \in Nat /\ OldLine(edits, k) <= OldLine(edits, m)
        /\ NewLine(edits, k) \in Nat /\ NewLine(edits, m) \in Nat /\ NewLine(edits, k) <= NewLine(edits, m)
    <3>1. /\ OldLine(edits, k) \in Nat /\ NewLine(edits, k) \in Nat
          /\ OldLine(edits, k + 1) = OldLine(edits, k) + (IF edits[k + 1] = "+" THEN 0 ELSE 1)
          /\ NewLine(edits, k + 1) = NewLine(edits, k) + (IF edits[k + 1] = "-" THEN 0 ELSE 1)
      BY <2>5, OldLines
    <3> QED
      BY <2>5, <3>1
  <2>7. /\ DelUpTo(edits, m) \subseteq DelUpTo(edits, k) \cup {OldLine(edits, m)}
        /\ AddUpTo(edits, m) \subseteq AddUpTo(edits, k) \cup {NewLine(edits, m)}
    BY <2>5, UpToStep
  <2>8. \A x \in DelUpTo(edits, m) : x \in Nat /\ x < OldLine(edits, m) + 1
    BY <2>4, <2>6, <2>7
  <2>9. \A x \in AddUpTo(edits, m) : x \in Nat /\ x < NewLine(edits, m) + 1
    BY <2>4, <2>6, <2>7
  <2> QED
    BY <2>5, <2>8, <2>9
<1> QED
  BY <1>1

\* What is printed for one mark.
LEMMA PrintedLine ==
  ASSUME NEW edits, NEW i \in Nat
  PROVE  LET header == [k |-> "@@", pre |-> OldLine(edits, i) + 1, post |-> NewLine(edits, i) + 1] IN
         /\ edits[i + 1] = "." => Printed(edits, i + 1) = <<>>
         /\ edits[i + 1] # "." =>
              Printed(edits, i + 1) =
                (IF i = 0 \/ edits[i] = "." THEN <<header>> ELSE <<>>) \o <<[k |-> edits[i + 1]]>>
<1>1. (i + 1) - 1 = i /\ (i + 1 = 1 <=> i = 0)
  OBVIOUS
<1> QED
  BY <1>1 DEF Printed

\* Sequences of no and of one element.
LEMMA EmptyAndOne ==
  \A S : <<>> \in Seq(S) /\ \A x \in S : <<x>> \in Seq(S)
OBVIOUS

\* The empty list of lines.
LEMMA NoLines ==
  IsLinesOf({}, <<>>) /\ <<>> \in Seq(Nat)
BY DEF IsLinesOf, Ascending

\* What the parser knows after the first i marks of an edit.
EditRead(p, pre, post, ret, edits, i) ==
  IF \A j \in 1 .. i : edits[j] = "."
  THEN p = St("paths", pre, post, <<0, 0>>, <<>>, <<>>, ret)
  ELSE \E cur : \E del \in Seq(Nat) : \E add \in Seq(Nat) :
         /\ p = St("lines", pre, post, cur, del, add, ret)
         /\ IsLinesOf(DelUpTo(edits, i), del) /\ IsLinesOf(AddUpTo(edits, i), add)
         /\ edits[i] # "." => cur = <<OldLine(edits, i) + 1, NewLine(edits, i) + 1>>

\* Whether a hunk begins or goes on, the parser has the number of the next
\* line: what was left out between two hunks is made good by the header.
LEMMA HunkBegun ==
  ASSUME NEW p, NEW pre, NEW post, pre # NoPath \/ post # NoPath, NEW ret, NEW edits, NEW i \in Nat,
         EditRead(p, pre, post, ret, edits, i)
  PROVE  LET header == [k |-> "@@", pre |-> OldLine(edits, i) + 1, post |-> NewLine(edits, i) + 1] IN
         \E del \in Seq(Nat) : \E add \in Seq(Nat) :
           /\ Parse(p, IF i = 0 \/ edits[i] = "." THEN <<header>> ELSE <<>>)
                = St("lines", pre, post, <<OldLine(edits, i) + 1, NewLine(edits, i) + 1>>, del, add, ret)
           /\ IsLinesOf(DelUpTo(edits, i), del) /\ IsLinesOf(AddUpTo(edits, i), add)
<1> DEFINE header == [k |-> "@@", pre |-> OldLine(edits, i) + 1, post |-> NewLine(edits, i) + 1]
           cur1 == <<OldLine(edits, i) + 1, NewLine(edits, i) + 1>>
<1>1. CASE \A j \in 1 .. i : edits[j] = "."
  <2>1. p = St("paths", pre, post, <<0, 0>>, <<>>, <<>>, ret)
    BY <1>1 DEF EditRead
  <2>2. i = 0 \/ edits[i] = "."
    BY <1>1
  <2>3. Parse(p, <<header>>) = St("lines", pre, post, cur1, <<>>, <<>>, ret)
    BY <2>1, ParseOne, ReadHunk
  <2>4. DelUpTo(edits, i) = {} /\ AddUpTo(edits, i) = {}
    BY <1>1 DEF DelUpTo, AddUpTo
  <2> QED
    BY <2>2, <2>3, <2>4, NoLines
<1>2. CASE ~ \A j \in 1 .. i : edits[j] = "."
  <2>1. PICK cur : \E del \in Seq(Nat) : \E add \in Seq(Nat) :
         /\ p = St("lines", pre, post, cur, del, add, ret)
         /\ IsLinesOf(DelUpTo(edits, i), del) /\ IsLinesOf(AddUpTo(edits, i), add)
         /\ edits[i] # "." => cur = cur1
    BY <1>2 DEF EditRead
  <2>2. PICK del \in Seq(Nat) : \E add \in Seq(Nat) :
         /\ p = St("lines", pre, post, cur, del, add, ret)
         /\ IsLinesOf(DelUpTo(edits, i), del) /\ IsLinesOf(AddUpTo(edits, i), add)
         /\ edits[i] # "." => cur = cur1
    BY <2>1
  <2>3. PICK add \in Seq(Nat) :
         /\ p = St("lines", pre, post, cur, del, add, ret)
         /\ IsLinesOf(DelUpTo(edits, i), del) /\ IsLinesOf(AddUpTo(edits, i), add)
         /\ edits[i] # "." => cur = cur1
    BY <2>2
  <2>4. i # 0
    BY <1>2
  <2>5. Parse(p, <<header>>) = St("lines", pre, post, cur1, del, add, ret)
    BY <2>3, ParseOne, ReadHunk
  <2>6. edits[i] # "." => Parse(p, <<>>) = St("lines", pre, post, cur1, del, add, ret)
    BY <2>3, ParseEmpty
  <2> QED
    BY <2>3, <2>4, <2>5, <2>6
<1> QED
  BY <1>1, <1>2

\* One mark more.
LEMMA EditStep ==
  ASSUME NEW p, NEW pre, NEW post, pre # NoPath \/ post # NoPath, NEW ret, NEW edits, NEW i \in Nat,
         edits[i + 1] \in Mark, EditRead(p, pre, post, ret, edits, i)
  PROVE  EditRead(Parse(p, Printed(edits, i + 1)), pre, post, ret, edits, i + 1)
<1> DEFINE header == [k |-> "@@", pre |-> OldLine(edits, i) + 1, post |-> NewLine(edits, i) + 1]
           begins == i = 0 \/ edits[i] = "."
           hd == IF begins THEN <<header>> ELSE <<>>
           m == edits[i + 1]
           a == OldLine(edits, i) + 1
           b == NewLine(edits, i) + 1
<1>0. 1 .. (i + 1) = (1 .. i) \cup {i + 1}
  OBVIOUS
<1>1. CASE m = "."
  <2>1. Parse(p, Printed(edits, i + 1)) = p
    BY <1>1, PrintedLine, ParseEmpty
  <2>2. (\A j \in 1 .. i : edits[j] = ".") <=> \A j \in 1 .. (i + 1) : edits[j] = "."
    BY <1>0, <1>1
  <2>3. DelUpTo(edits, i + 1) = DelUpTo(edits, i) /\ AddUpTo(edits, i + 1) = AddUpTo(edits, i)
    <3>1. edits[i + 1] # "-" /\ edits[i + 1] # "+"
      BY <1>1
    <3> QED
      BY <3>1, UpToStep
  <2> QED
    BY <1>1, <2>1, <2>2, <2>3 DEF EditRead
<1>2. CASE m # "."
  <2>1. PICK del \in Seq(Nat) : \E add \in Seq(Nat) :
          /\ Parse(p, hd) = St("lines", pre, post, <<a, b>>, del, add, ret)
          /\ IsLinesOf(DelUpTo(edits, i), del) /\ IsLinesOf(AddUpTo(edits, i), add)
    BY HunkBegun
  <2>2. PICK add \in Seq(Nat) :
          /\ Parse(p, hd) = St("lines", pre, post, <<a, b>>, del, add, ret)
          /\ IsLinesOf(DelUpTo(edits, i), del) /\ IsLinesOf(AddUpTo(edits, i), add)
    BY <2>1
  <2>3. Parse(p, Printed(edits, i + 1)) = Read(Parse(p, hd), [k |-> m])
    <3>1. Printed(edits, i + 1) = hd \o <<[k |-> m]>>
      BY <1>2, PrintedLine
    <3> DEFINE mark == [k |-> m]
    <3>2. Parse(p, hd \o <<mark>>) = Parse(Parse(p, hd), <<mark>>)
      <4> HIDE DEF header, mark, begins
      <4> DEFINE S == {header, mark}
                 last == <<mark>>
      <4>1. hd \in Seq(S) /\ last \in Seq(S)
        BY EmptyAndOne
      <4> HIDE DEF hd, S, last
      <4>2. Parse(p, hd \o last) = Parse(Parse(p, hd), last)
        BY <4>1, ParseConcat
      <4> QED
        BY <4>2 DEF last
    <3> QED
      BY <3>1, <3>2, ParseOne
  <2>4. /\ a \in Nat /\ b \in Nat
        /\ OldLine(edits, i + 1) = (IF m = "+" THEN OldLine(edits, i) ELSE a)
        /\ NewLine(edits, i + 1) = (IF m = "-" THEN NewLine(edits, i) ELSE b)
        /\ OldLine(edits, i) \in Nat /\ NewLine(edits, i) \in Nat
    <3>1. /\ OldLine(edits, i) \in Nat /\ NewLine(edits, i) \in Nat
          /\ OldLine(edits, i + 1) = OldLine(edits, i) + (IF edits[i + 1] = "+" THEN 0 ELSE 1)
          /\ NewLine(edits, i + 1) = NewLine(edits, i) + (IF edits[i + 1] = "-" THEN 0 ELSE 1)
      BY OldLines
    <3> QED
      BY <3>1
  <2>5. ~ \A j \in 1 .. (i + 1) : edits[j] = "."
    BY <1>0, <1>2
  <2>6. /\ \A x \in DelUpTo(edits, i) : x < a
        /\ \A x \in AddUpTo(edits, i) : x < b
    BY UpToBound
  <2> DEFINE q == Read(St("lines", pre, post, <<a, b>>, del, add, ret), [k |-> m])
  <2>7. \E cur : \E del1 \in Seq(Nat) : \E add1 \in Seq(Nat) :
         /\ q = St("lines", pre, post, cur, del1, add1, ret)
         /\ IsLinesOf(DelUpTo(edits, i + 1), del1) /\ IsLinesOf(AddUpTo(edits, i + 1), add1)
         /\ cur = <<OldLine(edits, i + 1) + 1, NewLine(edits, i + 1) + 1>>
    <3> HIDE DEF a, b
    <3>1. CASE m = "-"
      <4>1. q = St("lines", pre, post, <<a + 1, b>>, Append(del, a), add, ret)
        BY <3>1, ReadDeleted
      <4>2. DelUpTo(edits, i + 1) = DelUpTo(edits, i) \cup {a} /\ AddUpTo(edits, i + 1) = AddUpTo(edits, i)
        <5>1. edits[i + 1] = "-" /\ edits[i + 1] # "+"
          BY <3>1
        <5> QED
          BY <2>4, <5>1, UpToStep
      <4>3. Append(del, a) \in Seq(Nat) /\ IsLinesOf(DelUpTo(edits, i) \cup {a}, Append(del, a))
        BY <2>2, <2>4, <2>6, AscendingAppend
      <4>4. <<a + 1, b>> = <<OldLine(edits, i + 1) + 1, NewLine(edits, i + 1) + 1>>
        BY <2>4, <3>1 DEF b
      <4> QED
        BY <2>2, <4>1, <4>2, <4>3, <4>4
    <3>2. CASE m = "+"
      <4>1. q = St("lines", pre, post, <<a, b + 1>>, del, Append(add, b), ret)
        BY <3>2, ReadAdded
      <4>2. DelUpTo(edits, i + 1) = DelUpTo(edits, i) /\ AddUpTo(edits, i + 1) = AddUpTo(edits, i) \cup {b}
        <5>1. edits[i + 1] = "+" /\ edits[i + 1] # "-"
          BY <3>2
        <5> QED
          BY <2>4, <5>1, UpToStep
      <4>3. Append(add, b) \in Seq(Nat) /\ IsLinesOf(AddUpTo(edits, i) \cup {b}, Append(add, b))
        BY <2>2, <2>4, <2>6, AscendingAppend
      <4>4. <<a, b + 1>> = <<OldLine(edits, i + 1) + 1, NewLine(edits, i + 1) + 1>>
        BY <2>4, <3>2 DEF a
      <4> QED
        BY <2>2, <4>1, <4>2, <4>3, <4>4
    <3>3. CASE m = " "
      <4>1. q = St("lines", pre, post, <<a + 1, b + 1>>, del, add, ret)
        BY <3>3 DEF Read, ReadLine, St
      <4>2. DelUpTo(edits, i + 1) = DelUpTo(edits, i) /\ AddUpTo(edits, i + 1) = AddUpTo(edits, i)
        <5>1. edits[i + 1] # "-" /\ edits[i + 1] # "+"
          BY <3>3
        <5> QED
          BY <5>1, UpToStep
      <4>4. <<a + 1, b + 1>> = <<OldLine(edits, i + 1) + 1, NewLine(edits, i + 1) + 1>>
        BY <2>4, <3>3
      <4> QED
        BY <2>2, <4>1, <4>2, <4>4
    <3> QED
      BY <1>2, <3>1, <3>2, <3>3 DEF Mark
  <2>8. Parse(p, Printed(edits, i + 1)) = q
    BY <2>2, <2>3
  <2> HIDE DEF q
  <2> QED
    BY <2>5, <2>7, <2>8 DEF EditRead
<1> QED
  BY <1>1, <1>2

\* What is printed of an edit are lines.
LEMMA PrintedType ==
  ASSUME NEW edits \in Seq(Mark)
  PROVE  AreParts([i \in 1 .. Len(edits) |-> Printed(edits, i)], Len(edits), Line)
<1> DEFINE n == Len(edits)
           ss == [i \in 1 .. n |-> Printed(edits, i)]
<1>1. n \in Nat /\ \A i \in 1 .. n : edits[i] \in Mark
  OBVIOUS
<1>2. Len(ss) = n /\ DOMAIN ss = 1 .. n /\ (n = 0 => ss = <<>>)
  BY <1>1
<1>3. ASSUME NEW i \in 1 .. n PROVE ss[i] \in Seq(Line)
  <2> DEFINE header == [k |-> "@@", pre  |-> OldLine(edits, i - 1) + 1,
                                    post |-> NewLine(edits, i - 1) + 1]
             mark == [k |-> edits[i]]
  <2>1. ss[i] = IF edits[i] = "." THEN <<>>
                ELSE (IF i = 1 \/ edits[i - 1] = "." THEN <<header>> ELSE <<>>) \o <<mark>>
    BY DEF Printed
  <2>2. header \in Line
    <3>1. i - 1 \in Nat
      BY <1>1
    <3>2. OldLine(edits, i - 1) + 1 \in Int /\ NewLine(edits, i - 1) + 1 \in Int
      <4>1. OldLine(edits, i - 1) \in Nat /\ NewLine(edits, i - 1) \in Nat
        BY <3>1, OldLines
      <4> QED
        BY <4>1
    <3> QED
      BY <3>2 DEF Line
  <2>3. mark \in Line
    BY <1>1 DEF Line
  <2> HIDE DEF header, mark, ss
  <2>4. <<>> \in Seq(Line) /\ <<header>> \in Seq(Line) /\ <<mark>> \in Seq(Line)
    BY <2>2, <2>3, EmptyAndOne
  <2> QED
    BY <2>1, <2>4, ConcatProperties
<1> QED
  BY <1>2, <1>3 DEF AreParts

\* The lines of the hunks of a file, whatever is left out between them.
LEMMA EditsRead ==
  ASSUME NEW pre, NEW post, pre # NoPath \/ post # NoPath, NEW ret, NEW edits \in Seq(Mark)
  PROVE  EditRead(Parse(St("paths", pre, post, <<0, 0>>, <<>>, <<>>, ret),
                        FlattenSeq([i \in 1 .. Len(edits) |-> Printed(edits, i)])),
                  pre, post, ret, edits, Len(edits))
<1> DEFINE n == Len(edits)
           ss == [i \in 1 .. n |-> Printed(edits, i)]
           p0 == St("paths", pre, post, <<0, 0>>, <<>>, <<>>, ret)
<1>1. n \in Nat /\ \A i \in 1 .. n : edits[i] \in Mark
  OBVIOUS
<1>2. AreParts(ss, n, Line)
  BY PrintedType
<1>0. PICK q : PartsRead(q, p0, ss, n)
  <2> HIDE DEF ss, n, p0
  <2> QED
    BY <1>1, <1>2, ParseFlatten
<1>3. /\ q[0] = p0 /\ q[n] = Parse(p0, FlattenSeq(ss))
      /\ \A i \in 1 .. n : q[i] = Parse(q[i - 1], ss[i])
  BY <1>0 DEF PartsRead
<1> DEFINE Bad == {k \in 0 .. n : ~ EditRead(q[k], pre, post, ret, edits, k)}
<1>4. Bad = {}
  <2> SUFFICES ASSUME Bad # {} PROVE FALSE
    OBVIOUS
  <2>1. PICK m \in Bad : \A k \in Bad : m <= k
    <3>1. Bad \in SUBSET Nat
      OBVIOUS
    <3> HIDE DEF Bad
    <3> QED
      BY <3>1, LeastElement
  <2>2. m # 0
    <3>1. EditRead(q[0], pre, post, ret, edits, 0)
      BY <1>3 DEF EditRead
    <3> QED
      BY <3>1
  <2> DEFINE i == m - 1
  <2>3. i \in Nat /\ i + 1 = m /\ m \in 1 .. n /\ i \in 0 .. n /\ i \notin Bad /\ m \in Bad
    BY <1>1, <2>1, <2>2
  <2>4. EditRead(q[i], pre, post, ret, edits, i)
    BY <2>3
  <2>5. q[m] = Parse(q[i], Printed(edits, m))
    BY <1>3, <2>3
  <2> HIDE DEF i
  <2>6. EditRead(Parse(q[i], Printed(edits, i + 1)), pre, post, ret, edits, i + 1)
    <3>1. edits[i + 1] \in Mark
      BY <1>1, <2>3
    <3> QED
      BY <2>3, <2>4, <3>1, EditStep
  <2> QED
    BY <2>3, <2>5, <2>6
<1> QED
  BY <1>1, <1>3, <1>4

-----------------------------------------------------------------------------
(* Sections. *)

IsSection(s) ==
  /\ s.pre \in File \cup {NoPath} /\ s.post \in File \cup {NoPath}
  /\ s.pre # NoPath \/ s.post # NoPath
  /\ s.edits \in Seq(Mark)

\* The paths that are left when the lines before the hunks are read: a new
\* mode looks like a new file.
PreRead(s)  == IF s.pre = NoPath \/ s.mode THEN NoPath ELSE s.pre
PostRead(s) == IF s.pre # NoPath /\ ~s.mode THEN s.post
               ELSE IF s.post = NoPath THEN s.pre ELSE s.post

SectionRead(p, s, ret) == EditRead(p, PreRead(s), PostRead(s), ret, s.edits, Len(s.edits))

\* The parser always keeps at least one of the two paths.
LEMMA PathsRead ==
  ASSUME NEW s, IsSection(s)
  PROVE  /\ PreRead(s) \in File \cup {NoPath} /\ PostRead(s) \in File \cup {NoPath}
         /\ PreRead(s) # NoPath \/ PostRead(s) # NoPath
BY DEF IsSection, PreRead, PostRead

FirstPath(s) == IF s.pre = NoPath THEN s.post ELSE s.pre
LastPath(s)  == IF s.post = NoPath THEN s.pre ELSE s.post
Extended(s)  == IF s.pre = NoPath \/ s.mode THEN <<[k |-> "new"]>>
                ELSE IF s.post = NoPath THEN <<[k |-> "deleted"]>> ELSE <<>>
DiffLine(s)  == [k |-> "diff", pre |-> FirstPath(s), post |-> LastPath(s)]
Hunks(s)     == FlattenSeq([i \in 1 .. Len(s.edits) |-> Printed(s.edits, i)])

\* The parts of a section: its first line, the extended header, the hunks.
LEMMA SectionType ==
  ASSUME NEW s, IsSection(s)
  PROVE  /\ PrintSection(s) = (<<DiffLine(s)>> \o Extended(s)) \o Hunks(s)
         /\ <<DiffLine(s)>> \in Seq(Line) /\ Extended(s) \in Seq(Line) /\ Hunks(s) \in Seq(Line)
         /\ PrintSection(s) \in Seq(Line)
<1>1. PrintSection(s) = (<<DiffLine(s)>> \o Extended(s)) \o Hunks(s)
  BY DEF PrintSection, DiffLine, Extended, Hunks, FirstPath, LastPath
<1>2. DiffLine(s) \in Line /\ [k |-> "new"] \in Line /\ [k |-> "deleted"] \in Line
  BY DEF Line, DiffLine, FirstPath, LastPath, IsSection
<1>3. <<DiffLine(s)>> \in Seq(Line) /\ Extended(s) \in Seq(Line)
  <2>1. <<DiffLine(s)>> \in Seq(Line) /\ <<[k |-> "new"]>> \in Seq(Line)
        /\ <<[k |-> "deleted"]>> \in Seq(Line) /\ <<>> \in Seq(Line)
    BY <1>2, EmptyAndOne
  <2> QED
    BY <2>1 DEF Extended
<1>4. Hunks(s) \in Seq(Line)
  <2>1. s.edits \in Seq(Mark) /\ Len(s.edits) \in Nat
    BY DEF IsSection
  <2>2. AreParts([i \in 1 .. Len(s.edits) |-> Printed(s.edits, i)], Len(s.edits), Line)
    BY <2>1, PrintedType
  <2> QED
    BY <2>1, <2>2, FlattenRange DEF Hunks
<1> QED
  BY <1>1, <1>3, <1>4, ConcatProperties

\* The state of the parser in front of a section, with what it returned.
Between(p, ret) ==
  \/ \E pre, post : p = St("paths", pre, post, <<0, 0>>, <<>>, <<>>, ret)
  \/ \E pre, post, cur, del, add, ret0 :
       /\ p = St("lines", pre, post, cur, del, add, ret0)
       /\ ret = ret0 \o Emit(p)

\* A section is read to its end.
LEMMA SectionParsed ==
  ASSUME NEW s, IsSection(s), NEW p, NEW ret, Between(p, ret)
  PROVE  SectionRead(Parse(p, PrintSection(s)), s, ret)
<1> DEFINE p1 == St("paths", FirstPath(s), LastPath(s), <<0, 0>>, <<>>, <<>>, ret)
           p2 == St("paths", PreRead(s), PostRead(s), <<0, 0>>, <<>>, <<>>, ret)
<1>1. Parse(p, <<DiffLine(s)>>) = p1
  <2>1. CASE \E pre, post : p = St("paths", pre, post, <<0, 0>>, <<>>, <<>>, ret)
    BY <2>1, ParseOne, ReadPaths DEF DiffLine
  <2>2. CASE \E pre, post, cur, del, add, ret0 :
               /\ p = St("lines", pre, post, cur, del, add, ret0)
               /\ ret = ret0 \o Emit(p)
    BY <2>2, ParseOne, ReadNext DEF DiffLine
  <2> QED
    BY <2>1, <2>2 DEF Between
<1>2. Parse(p1, Extended(s)) = p2
  <2>1. CASE s.pre = NoPath \/ s.mode
    <3>1. Parse(p1, Extended(s)) = St("paths", NoPath, LastPath(s), <<0, 0>>, <<>>, <<>>, ret)
      <4>1. Extended(s) = <<[k |-> "new"]>>
        BY <2>1 DEF Extended
      <4> QED
        BY <4>1, ParseOne, ReadCreated
    <3>2. PreRead(s) = NoPath /\ PostRead(s) = LastPath(s)
      BY <2>1 DEF PreRead, PostRead, LastPath
    <3> QED
      BY <3>1, <3>2
  <2>2. CASE ~(s.pre = NoPath \/ s.mode) /\ s.post = NoPath
    <3>1. Parse(p1, Extended(s)) = St("paths", FirstPath(s), NoPath, <<0, 0>>, <<>>, <<>>, ret)
      <4>1. Extended(s) = <<[k |-> "deleted"]>>
        BY <2>2 DEF Extended
      <4> QED
        BY <4>1, ParseOne, ReadRemoved
    <3>2. PreRead(s) = FirstPath(s) /\ PostRead(s) = NoPath
      BY <2>2 DEF PreRead, PostRead, FirstPath
    <3> QED
      BY <3>1, <3>2
  <2>3. CASE ~(s.pre = NoPath \/ s.mode) /\ s.post # NoPath
    <3>1. Parse(p1, Extended(s)) = p1
      BY <2>3, ParseEmpty DEF Extended
    <3>2. PreRead(s) = FirstPath(s) /\ PostRead(s) = LastPath(s)
      BY <2>3 DEF PreRead, PostRead, FirstPath, LastPath
    <3> QED
      BY <3>1, <3>2
  <2> QED
    BY <2>1, <2>2, <2>3
<1>3. SectionRead(Parse(p2, Hunks(s)), s, ret)
  <2>1. s.edits \in Seq(Mark) /\ (PreRead(s) # NoPath \/ PostRead(s) # NoPath)
    BY PathsRead DEF IsSection
  <2> QED
    BY <2>1, EditsRead DEF SectionRead, Hunks
<1>4. Parse(p, PrintSection(s)) = Parse(p2, Hunks(s))
  <2> DEFINE d == <<DiffLine(s)>>
  <2>1. d \in Seq(Line) /\ Extended(s) \in Seq(Line) /\ Hunks(s) \in Seq(Line)
        /\ PrintSection(s) = (d \o Extended(s)) \o Hunks(s) /\ Parse(p, d) = p1
    BY <1>1, SectionType
  <2> HIDE DEF d, p1, p2
  <2> DEFINE head == d \o Extended(s)
  <2>2. head \in Seq(Line)
    BY <2>1, ConcatProperties
  <2>3. Parse(p, head) = Parse(Parse(p, d), Extended(s))
    BY <2>1, ParseConcat
  <2>5. PrintSection(s) = head \o Hunks(s)
    BY <2>1
  <2> HIDE DEF head
  <2>4. Parse(p, head \o Hunks(s)) = Parse(Parse(p, head), Hunks(s))
    BY <2>1, <2>2, ParseConcat
  <2> QED
    BY <1>2, <2>1, <2>3, <2>4, <2>5
<1> QED
  BY <1>3, <1>4

-----------------------------------------------------------------------------
(* What is reported of a section. *)

Info ==
  [state : {"added", "modified", "deleted"}, src_path : File,
   del_lines : Seq(Nat), add_lines : Seq(Nat)]

StatesOf(s) ==
  IF PreRead(s) = PostRead(s) THEN {"modified"}
  ELSE (IF PreRead(s) # NoPath THEN {"deleted"} ELSE {})
         \cup (IF PostRead(s) # NoPath THEN {"added"} ELSE {})

Reports(info, s) ==
  /\ info \in Info
  /\ info.state \in StatesOf(s)
  /\ info.src_path = IF info.state = "deleted" THEN PreRead(s) ELSE PostRead(s)
  /\ info.state # "deleted" => IsLinesOf(AddedIn(s.edits), info.add_lines)
  /\ info.state # "deleted" =>
       IF PreRead(s) = NoPath THEN info.del_lines = <<>>
       ELSE IsLinesOf(DeletedIn(s.edits), info.del_lines)

\* The sequence reports the whole section and nothing else.
ReportsAll(infos, s) ==
  /\ infos \in Seq(Info)
  /\ \A info \in Range(infos) : Reports(info, s)
  /\ \A st \in StatesOf(s) : \E info \in Range(infos) : info.state = st

\* The element of a sequence of length one.
LEMMA RangeOfOne ==
  \A x : Range(<<x>>) = {x}
<1> SUFFICES ASSUME NEW x PROVE Range(<<x>>) = {x}
  OBVIOUS
<1>1. DOMAIN <<x>> = {1} /\ <<x>>[1] = x
  OBVIOUS
<1> QED
  BY <1>1 DEF Range

\* The elements of a sequence of length two.
LEMMA RangeOfTwo ==
  \A x, y : Range(<<x, y>>) = {x, y}
<1> SUFFICES ASSUME NEW x, NEW y PROVE Range(<<x, y>>) = {x, y}
  OBVIOUS
<1>1. DOMAIN <<x, y>> = {1, 2} /\ <<x, y>>[1] = x /\ <<x, y>>[2] = y
  OBVIOUS
<1> QED
  BY <1>1 DEF Range

\* What is emitted for a section that was read says all of it.
LEMMA EmitOfState ==
  ASSUME NEW s, IsSection(s), NEW loop, NEW cur, NEW ret,
         NEW del \in Seq(Nat), NEW add \in Seq(Nat),
         IsLinesOf(DeletedIn(s.edits), del), IsLinesOf(AddedIn(s.edits), add)
  PROVE  ReportsAll(Emit(St(loop, PreRead(s), PostRead(s), cur, del, add, ret)), s)
<1> DEFINE pre == PreRead(s)
           post == PostRead(s)
           p == St(loop, pre, post, cur, del, add, ret)
           modified == ChangeInfo("modified", post, del, add)
           created == ChangeInfo("added", post, <<>>, add)
           removed == ChangeInfo("deleted", pre, <<>>, <<>>)
           added == ChangeInfo("added", post, del, add)
<1>1. /\ pre \in File \cup {NoPath} /\ post \in File \cup {NoPath} /\ (pre # NoPath \/ post # NoPath)
      /\ NoPath \notin File /\ <<>> \in Seq(Nat)
  BY PathsRead, NoLines, FrontendAssumption
<1>2. Emit(p) = IF pre = post THEN <<modified>>
                ELSE IF pre = NoPath THEN <<created>>
                ELSE IF post = NoPath THEN <<removed>> ELSE <<removed, added>>
  BY DEF Emit, St
<1>3. CASE pre = post
  <2>1. StatesOf(s) = {"modified"}
    BY <1>3 DEF StatesOf
  <2>2. modified.state = "modified" /\ Reports(modified, s)
    BY <1>1, <1>3, <2>1 DEF Reports, Info, ChangeInfo
  <2>3. Emit(p) = <<modified>> /\ Emit(p) \in Seq(Info)
    BY <1>2, <1>3, <2>2, EmptyAndOne DEF Reports
  <2> HIDE DEF modified, p
  <2>4. Range(Emit(p)) = {modified}
    BY <2>3, RangeOfOne
  <2>5. ReportsAll(Emit(p), s)
    BY <2>1, <2>2, <2>3, <2>4 DEF ReportsAll
  <2> QED
    BY <2>5 DEF p
<1>4. CASE pre # post /\ pre = NoPath
  <2>1. StatesOf(s) = {"added"}
    BY <1>4 DEF StatesOf
  <2>2. created.state = "added" /\ Reports(created, s)
    BY <1>1, <1>4, <2>1 DEF Reports, Info, ChangeInfo
  <2>3. Emit(p) = <<created>> /\ Emit(p) \in Seq(Info)
    BY <1>2, <1>4, <2>2, EmptyAndOne DEF Reports
  <2> HIDE DEF created, p
  <2>4. Range(Emit(p)) = {created}
    BY <2>3, RangeOfOne
  <2>5. ReportsAll(Emit(p), s)
    BY <2>1, <2>2, <2>3, <2>4 DEF ReportsAll
  <2> QED
    BY <2>5 DEF p
<1>5. CASE pre # post /\ pre # NoPath /\ post = NoPath
  <2>1. StatesOf(s) = {"deleted"}
    BY <1>5 DEF StatesOf
  <2>2. removed.state = "deleted" /\ Reports(removed, s)
    BY <1>1, <1>5, <2>1 DEF Reports, Info, ChangeInfo
  <2>3. Emit(p) = <<removed>> /\ Emit(p) \in Seq(Info)
    BY <1>2, <1>5, <2>2, EmptyAndOne DEF Reports
  <2> HIDE DEF removed, p
  <2>4. Range(Emit(p)) = {removed}
    BY <2>3, RangeOfOne
  <2>5. ReportsAll(Emit(p), s)
    BY <2>1, <2>2, <2>3, <2>4 DEF ReportsAll
  <2> QED
    BY <2>5 DEF p
<1>6. CASE pre # post /\ pre # NoPath /\ post # NoPath
  <2>1. StatesOf(s) = {"deleted", "added"}
    BY <1>6 DEF StatesOf
  <2>2. removed.state = "deleted" /\ Reports(removed, s)
    BY <1>1, <1>6, <2>1 DEF Reports, Info, ChangeInfo
  <2>6. added.state = "added" /\ Reports(added, s)
    BY <1>1, <1>6, <2>1 DEF Reports, Info, ChangeInfo
  <2>7. removed \in Info /\ added \in Info
    BY <2>2, <2>6 DEF Reports
  <2>3. Emit(p) = <<removed, added>>
    BY <1>2, <1>6
  <2> HIDE DEF removed, added, p
  <2>8. Emit(p) \in Seq(Info)
    BY <2>3, <2>7
  <2>4. Range(Emit(p)) = {removed, added}
    BY <2>3, RangeOfTwo
  <2>5. ReportsAll(Emit(p), s)
    BY <2>1, <2>2, <2>6, <2>8, <2>4 DEF ReportsAll
  <2> QED
    BY <2>5 DEF p
<1> QED
  BY <1>3, <1>4, <1>5, <1>6

\* All marks of an edit.
LEMMA UpToEnd ==
  ASSUME NEW edits \in Seq(Mark)
  PROVE  /\ DelUpTo(edits, Len(edits)) = DeletedIn(edits)
         /\ AddUpTo(edits, Len(edits)) = AddedIn(edits)
         /\ DOMAIN edits = 1 .. Len(edits) /\ Len(edits) \in Nat
<1>1. DOMAIN edits = 1 .. Len(edits) /\ Len(edits) \in Nat
  OBVIOUS
<1>2. DelUpTo(edits, Len(edits)) = DeletedIn(edits)
  BY <1>1 DEF DelUpTo, DeletedIn, OldLine
<1>3. AddUpTo(edits, Len(edits)) = AddedIn(edits)
  BY <1>1 DEF AddUpTo, AddedIn, NewLine
<1> QED
  BY <1>1, <1>2, <1>3

\* When a section ends: what was returned before it, and its own report.
LEMMA SectionReported ==
  ASSUME NEW s, IsSection(s), NEW p, NEW ret, SectionRead(p, s, ret)
  PROVE  /\ ReportsAll(Emit(p), s)
         /\ p.pre = PreRead(s) /\ p.post = PostRead(s) /\ p.ret = ret
         /\ Between(p, IF HasHunk(s) THEN ret \o Emit(p) ELSE ret)
<1>1. s.edits \in Seq(Mark)
  BY DEF IsSection
<1> DEFINE n == Len(s.edits)
<1>2. HasHunk(s) <=> ~ \A j \in 1 .. n : s.edits[j] = "."
  BY <1>1, UpToEnd DEF HasHunk
<1>3. CASE ~HasHunk(s)
  <2>1. p = St("paths", PreRead(s), PostRead(s), <<0, 0>>, <<>>, <<>>, ret)
    BY <1>2, <1>3 DEF SectionRead, EditRead
  <2>2. DeletedIn(s.edits) = {} /\ AddedIn(s.edits) = {}
    <3>1. \A j \in DOMAIN s.edits : s.edits[j] = "."
      BY <1>3 DEF HasHunk
    <3> QED
      BY <3>1 DEF DeletedIn, AddedIn
  <2>3. ReportsAll(Emit(p), s)
    BY <2>1, <2>2, NoLines, EmitOfState
  <2>4. Between(p, ret)
    BY <2>1 DEF Between
  <2> QED
    BY <1>3, <2>1, <2>3, <2>4 DEF St
<1>4. CASE HasHunk(s)
  <2>1. PICK cur : \E del \in Seq(Nat) : \E add \in Seq(Nat) :
          /\ p = St("lines", PreRead(s), PostRead(s), cur, del, add, ret)
          /\ IsLinesOf(DelUpTo(s.edits, n), del) /\ IsLinesOf(AddUpTo(s.edits, n), add)
    BY <1>2, <1>4 DEF SectionRead, EditRead
  <2>2. PICK del \in Seq(Nat) : \E add \in Seq(Nat) :
          /\ p = St("lines", PreRead(s), PostRead(s), cur, del, add, ret)
          /\ IsLinesOf(DelUpTo(s.edits, n), del) /\ IsLinesOf(AddUpTo(s.edits, n), add)
    BY <2>1
  <2>3. PICK add \in Seq(Nat) :
          /\ p = St("lines", PreRead(s), PostRead(s), cur, del, add, ret)
          /\ IsLinesOf(DelUpTo(s.edits, n), del) /\ IsLinesOf(AddUpTo(s.edits, n), add)
    BY <2>2
  <2>4. IsLinesOf(DeletedIn(s.edits), del) /\ IsLinesOf(AddedIn(s.edits), add)
    BY <1>1, <2>3, UpToEnd
  <2>5. ReportsAll(Emit(p), s)
    BY <2>3, <2>4, EmitOfState
  <2>6. Between(p, ret \o Emit(p))
    BY <2>3 DEF Between
  <2> QED
    BY <1>4, <2>3, <2>5, <2>6 DEF St
<1> QED
  BY <1>3, <1>4

-----------------------------------------------------------------------------
(* The whole output. *)

Covered(infos, s) ==
  \A st \in StatesOf(s) : \E info \in Range(infos) : info.state = st /\ Reports(info, s)

\* The list reports the first n sections that have hunks, and no other.
Collected(infos, ss, n) ==
  /\ infos \in Seq(Info)
  /\ \A info \in Range(infos) : \E i \in 1 .. n : Reports(info, ss[i])
  /\ \A i \in 1 .. n : HasHunk(ss[i]) => Covered(infos, ss[i])

\* One more section that is reported.
LEMMA CollectSection ==
  ASSUME NEW ret, NEW infos, NEW ss, NEW n \in Nat,
         Collected(ret, ss, n), ReportsAll(infos, ss[n + 1])
  PROVE  Collected(ret \o infos, ss, n + 1) /\ Covered(ret \o infos, ss[n + 1])
<1> DEFINE all == ret \o infos
<1>1. /\ all \in Seq(Info) /\ Range(all) = Range(ret) \cup Range(infos)
      /\ 1 .. (n + 1) = (1 .. n) \cup {n + 1}
  <2>1. ret \in Seq(Info) /\ infos \in Seq(Info)
    BY DEF Collected, ReportsAll
  <2> QED
    BY <2>1, ConcatProperties, RangeConcatenation
<1> HIDE DEF all
<1>2. \A info \in Range(all) : \E i \in 1 .. (n + 1) : Reports(info, ss[i])
  BY <1>1 DEF Collected, ReportsAll
<1>3. Covered(all, ss[n + 1])
  BY <1>1 DEF Covered, ReportsAll
<1>4. \A i \in 1 .. n : HasHunk(ss[i]) => Covered(all, ss[i])
  BY <1>1 DEF Covered, Collected
<1>5. Collected(all, ss, n + 1)
  BY <1>1, <1>2, <1>3, <1>4 DEF Collected
<1> QED
  BY <1>3, <1>5 DEF all

\* One more section, without hunks, that is not.
LEMMA CollectNone ==
  ASSUME NEW ret, NEW ss, NEW n \in Nat, Collected(ret, ss, n), ~HasHunk(ss[n + 1])
  PROVE  Collected(ret, ss, n + 1)
<1>1. 1 .. (n + 1) = (1 .. n) \cup {n + 1}
  OBVIOUS
<1> QED
  BY <1>1 DEF Collected

\* The parser after some sections.
SectionsRead(p, ss, n) == \E ret : Between(p, ret) /\ Collected(ret, ss, n)

\* The parser in the next section: the one before it is reported if it has
\* hunks, and the last one in any case.
LEMMA SectionsStep ==
  ASSUME NEW ss, NEW n \in Nat, IsSection(ss[n + 1]), NEW p, SectionsRead(p, ss, n)
  PROVE  /\ SectionsRead(Parse(p, PrintSection(ss[n + 1])), ss, n + 1)
         /\ LET q == Parse(p, PrintSection(ss[n + 1])) IN
              /\ ~(q.pre = NoPath /\ q.post = NoPath)
              /\ Collected(q.ret \o Emit(q), ss, n + 1) /\ Covered(q.ret \o Emit(q), ss[n + 1])
<1> DEFINE s == ss[n + 1]
           q == Parse(p, PrintSection(s))
<1>1. PICK ret : Between(p, ret) /\ Collected(ret, ss, n)
  BY DEF SectionsRead
<1>2. SectionRead(q, s, ret)
  BY <1>1, SectionParsed
<1> HIDE DEF q
<1>3. /\ ReportsAll(Emit(q), s)
      /\ q.pre = PreRead(s) /\ q.post = PostRead(s) /\ q.ret = ret
      /\ Between(q, IF HasHunk(s) THEN ret \o Emit(q) ELSE ret)
  BY <1>2, SectionReported
<1>4. Collected(ret \o Emit(q), ss, n + 1) /\ Covered(ret \o Emit(q), s)
  BY <1>1, <1>3, CollectSection
<1>5. ~HasHunk(s) => Collected(ret, ss, n + 1)
  BY <1>1, CollectNone
<1>6. SectionsRead(q, ss, n + 1)
  BY <1>3, <1>4, <1>5 DEF SectionsRead
<1>7. ~(q.pre = NoPath /\ q.post = NoPath)
  BY <1>3, PathsRead
<1> QED
  BY <1>3, <1>4, <1>6, <1>7 DEF q

\* What is printed of the sections are lines.
LEMMA SectionsAreParts ==
  ASSUME NEW ss, NEW n \in Nat, \A i \in 1 .. n : IsSection(ss[i])
  PROVE  AreParts([i \in 1 .. n |-> PrintSection(ss[i])], n, Line)
<1> DEFINE parts == [i \in 1 .. n |-> PrintSection(ss[i])]
<1>1. Len(parts) = n /\ DOMAIN parts = 1 .. n /\ (n = 0 => parts = <<>>)
  OBVIOUS
<1>2. ASSUME NEW i \in 1 .. n PROVE parts[i] \in Seq(Line)
  <2>1. PrintSection(ss[i]) \in Seq(Line)
    BY SectionType
  <2> QED
    BY <2>1
<1> HIDE DEF parts
<1>3. AreParts(parts, n, Line)
  BY <1>1, <1>2 DEF AreParts
<1> QED
  BY <1>3 DEF parts

\* What GetChangeInfos returns of a commit whose message does not stop it:
\* of every section with hunks and of the last one what its lines say.
THEOREM ChangesReported ==
  ASSUME NEW ss, NEW n \in Nat, Len(ss) = n, \A i \in 1 .. n : IsSection(ss[i])
  PROVE  LET ch == GetChangeInfos(GitShow(ss, FALSE)) IN
         Collected(ch, ss, n) /\ (n # 0 => Covered(ch, ss[n]))
<1> DEFINE p0 == St("paths", NoPath, NoPath, <<0, 0>>, <<>>, <<>>, <<>>)
           parts == [i \in 1 .. n |-> PrintSection(ss[i])]
           ch == GetChangeInfos(GitShow(ss, FALSE))
<1>1. AreParts(parts, n, Line)
  BY SectionsAreParts
<1>2. GitShow(ss, FALSE) = FlattenSeq(parts)
  <2>1. FlattenSeq(parts) \in Seq(Line)
    <3> HIDE DEF parts
    <3> QED
      BY <1>1, FlattenRange
  <2>2. GitShow(ss, FALSE) = <<>> \o FlattenSeq(parts)
    BY DEF GitShow
  <2> HIDE DEF parts
  <2> QED
    BY <2>1, <2>2, ConcatEmptySeq
<1>0. PICK q : PartsRead(q, p0, parts, n)
  <2> HIDE DEF parts, p0, ch
  <2> QED
    BY <1>1, ParseFlatten
<1>3. /\ q[0] = p0 /\ q[n] = Parse(p0, FlattenSeq(parts))
      /\ \A i \in 1 .. n : q[i] = Parse(q[i - 1], parts[i])
  BY <1>0 DEF PartsRead
<1>4. NoPaths(<<>>) = p0
  BY DEF NoPaths, St
<1>5. ch = IF q[n].pre = NoPath /\ q[n].post = NoPath THEN q[n].ret ELSE q[n].ret \o Emit(q[n])
  <2>1. q[n] = FoldLeft(Read, NoPaths(<<>>), GitShow(ss, FALSE))
    BY <1>2, <1>3, <1>4 DEF Parse
  <2> QED
    BY <2>1 DEF GetChangeInfos
<1> HIDE DEF ch
<1>6. Collected(<<>>, ss, 0)
  BY EmptySeq DEF Collected, Range
<1>7. SectionsRead(q[0], ss, 0)
  BY <1>3, <1>6 DEF SectionsRead, Between
<1> DEFINE Bad == {k \in 0 .. n : ~ SectionsRead(q[k], ss, k)}
<1>8. Bad = {}
  <2> SUFFICES ASSUME Bad # {} PROVE FALSE
    OBVIOUS
  <2>1. PICK m \in Bad : \A k \in Bad : m <= k
    <3>1. Bad \in SUBSET Nat
      OBVIOUS
    <3> HIDE DEF Bad
    <3> QED
      BY <3>1, LeastElement
  <2>2. m # 0
    BY <1>7
  <2> DEFINE i == m - 1
  <2>3. i \in Nat /\ i + 1 = m /\ m \in 1 .. n /\ i \in 0 .. n /\ i \notin Bad /\ m \in Bad
    BY <2>1, <2>2
  <2>4. SectionsRead(q[i], ss, i) /\ q[m] = Parse(q[i], PrintSection(ss[m]))
    BY <1>3, <2>3
  <2> HIDE DEF i
  <2>5. SectionsRead(Parse(q[i], PrintSection(ss[i + 1])), ss, i + 1)
    <3>1. IsSection(ss[i + 1])
      BY <2>3
    <3> QED
      BY <2>3, <2>4, <3>1, SectionsStep
  <2> QED
    BY <2>3, <2>4, <2>5
<1>9. CASE n = 0
  <2>1. ch = <<>>
    BY <1>3, <1>5, <1>9 DEF St
  <2> QED
    BY <1>6, <1>9, <2>1 DEF ch
<1>10. CASE n # 0
  <2> DEFINE i == n - 1
  <2>1. i \in Nat /\ i + 1 = n /\ i \in 0 .. n /\ n \in 1 .. n
    BY <1>10
  <2>2. SectionsRead(q[i], ss, i) /\ q[n] = Parse(q[i], PrintSection(ss[n])) /\ IsSection(ss[n])
    BY <1>3, <1>8, <2>1
  <2> HIDE DEF i
  <2>3. /\ ~(q[n].pre = NoPath /\ q[n].post = NoPath)
        /\ Collected(q[n].ret \o Emit(q[n]), ss, n) /\ Covered(q[n].ret \o Emit(q[n]), ss[n])
    <3>1. IsSection(ss[i + 1]) /\ q[n] = Parse(q[i], PrintSection(ss[i + 1]))
      BY <2>1, <2>2
    <3>2. /\ ~(q[n].pre = NoPath /\ q[n].post = NoPath)
          /\ Collected(q[n].ret \o Emit(q[n]), ss, i + 1) /\ Covered(q[n].ret \o Emit(q[n]), ss[i + 1])
      BY <2>1, <2>2, <3>1, SectionsStep
    <3> QED
      BY <2>1, <3>2
  <2> QED
    BY <1>5, <2>3 DEF ch
<1> QED
  BY <1>9, <1>10

\* A line of the message that begins with @@ ends the parser before it has
\* read a section.
LEMMA NothingRead ==
  ASSUME NEW ss, NEW n \in Nat, Len(ss) = n, \A i \in 1 .. n : IsSection(ss[i])
  PROVE  GetChangeInfos(GitShow(ss, TRUE)) = <<>>
<1> DEFINE parts == [i \in 1 .. n |-> PrintSection(ss[i])]
           lines == FlattenSeq(parts)
           first == <<[k |-> "@@", pre |-> 0, post |-> 0]>>
           ended == St("ended", NoPath, NoPath, <<0, 0>>, <<>>, <<>>, <<>>)
<1>1. lines \in Seq(Line)
  <2>1. AreParts(parts, n, Line)
    BY SectionsAreParts
  <2> HIDE DEF parts
  <2> QED
    BY <2>1, FlattenRange
<1>2. first \in Seq(Line)
  <2>1. [k |-> "@@", pre |-> 0, post |-> 0] \in Line
    BY DEF Line
  <2> QED
    BY <2>1, EmptyAndOne
<1>3. GitShow(ss, TRUE) = first \o lines
  BY DEF GitShow
<1>4. Parse(NoPaths(<<>>), first) = ended
  <2>1. Read(NoPaths(<<>>), [k |-> "@@", pre |-> 0, post |-> 0]) = ended
    BY DEF Read, ReadPath, NoPaths, St
  <2> HIDE DEF ended
  <2> QED
    BY <2>1, ParseOne
<1>5. \A line : Read(ended, line) = ended
  BY DEF Read, St
<1> HIDE DEF lines, ended
<1>6. Parse(ended, lines) = ended
  <2>1. Len(lines) \in Nat /\ DOMAIN lines = 1 .. Len(lines)
    BY <1>1
  <2>2. PICK st : IsRun(st, ended, lines, Len(lines)) /\ Parse(ended, lines) = st[Len(lines)]
    BY <2>1, ParseRuns
  <2> DEFINE f == [i \in 0 .. Len(lines) |-> ended]
  <2>3. IsRun(f, ended, lines, Len(lines))
    <3>1. \A i \in 1 .. Len(lines) : i \in 0 .. Len(lines) /\ i - 1 \in 0 .. Len(lines)
      BY <2>1
    <3>2. 0 \in 0 .. Len(lines)
      BY <2>1
    <3> QED
      BY <1>5, <3>1, <3>2 DEF IsRun
  <2>4. st[Len(lines)] = f[Len(lines)]
    BY <2>1, <2>2, <2>3, SameRun
  <2> QED
    BY <2>1, <2>2, <2>4
<1>7. Parse(NoPaths(<<>>), GitShow(ss, TRUE)) = ended
  <2> HIDE DEF first
  <2>1. Parse(NoPaths(<<>>), first \o lines) = Parse(Parse(NoPaths(<<>>), first), lines)
    BY <1>1, <1>2, ParseConcat
  <2> QED
    BY <1>3, <1>4, <1>6, <2>1
<1>8. FoldLeft(Read, NoPaths(<<>>), GitShow(ss, TRUE)) = ended
  BY <1>7 DEF Parse
<1>9. ended.pre = NoPath /\ ended.post = NoPath /\ ended.ret = <<>>
  BY DEF ended, St
<1> QED
  BY <1>8, <1>9 DEF GetChangeInfos

-----------------------------------------------------------------------------
(* Commits and their sections. *)

\* A commit on top of the tree "old".
IsCommit(c, old) ==
  /\ c.tree \in Trees /\ c.at_in_message \in BOOLEAN
  /\ c.renames \in Renames(old, c.tree)
  /\ c.modes \in Remoded(old, c.tree, c.renames)

ChangesOf(c, old) == GetChangeInfos(GitShow(Sections(c, old), c.at_in_message))

\* The files of a tree.
LEMMA TreesTyped ==
  ASSUME NEW t \in Trees, NEW f \in File
  PROVE  t[f] \in Version \cup {NoFile}
<1> DEFINE V == Version \cup {NoFile}
<1>1. Trees \subseteq [File -> V]
  BY FrontendAssumption
<1> HIDE DEF V
<1>2. t[f] \in V
  BY <1>1
<1> QED
  BY <1>2 DEF V

\* An edit from one version, or no file, to another.
LEMMA EditTyped ==
  ASSUME NEW v \in Version \cup {NoFile}, NEW w \in Version \cup {NoFile}
  PROVE  Edits[v, w] \in Seq(Mark)
<1>1. \A x, y \in Version \cup {NoFile} : Edits[x, y] \in Seq(Mark)
  BY FrontendAssumption
<1> QED
  BY <1>1, Zenon

\* What a section consists of.
LEMMA SectionFields ==
  ASSUME NEW pre, NEW post, NEW mode, NEW edits
  PROVE  /\ Section(pre, post, mode, edits).pre = pre
         /\ Section(pre, post, mode, edits).post = post
         /\ Section(pre, post, mode, edits).mode = mode
         /\ Section(pre, post, mode, edits).edits = edits
BY DEF Section

\* At most one file is renamed, from a name that the commit removes to one
\* that it adds; only a file that is there after the commit has a new mode.
LEMMA RenameFacts ==
  ASSUME NEW old \in Trees, NEW c, IsCommit(c, old)
  PROVE  /\ \A r \in c.renames : /\ r[1] \in File /\ r[2] \in File
                                 /\ old[r[1]] # NoFile /\ c.tree[r[1]] = NoFile
                                 /\ old[r[2]] = NoFile /\ c.tree[r[2]] # NoFile
         /\ \A r, q \in c.renames : r = q
         /\ \A f \in c.modes : f \in File /\ c.tree[f] # NoFile
         /\ \A f \in c.modes : old[f] = NoFile => \E r \in c.renames : r[2] = f
<1>1. c.renames = {} \/ \E r \in File \X File :
        /\ c.renames = {r}
        /\ old[r[1]] # NoFile /\ c.tree[r[1]] = NoFile
        /\ old[r[2]] = NoFile /\ c.tree[r[2]] # NoFile
  BY DEF IsCommit, Renames
<1>2. /\ c.modes \in Modes
      /\ \A f \in c.modes : c.tree[f] # NoFile /\ (old[f] # NoFile \/ \E r \in c.renames : r[2] = f)
  BY DEF IsCommit, Remoded
<1>3. c.modes \subseteq File
  BY <1>2, FrontendAssumption
<1> QED
  BY <1>1, <1>2, <1>3

\* The section of a file under its own name, and that of a renamed file.
IsPlain(s, c, old, f) ==
  /\ s.mode = (f \in c.modes)
  /\ s.pre = IF old[f] = NoFile THEN NoPath ELSE f
  /\ s.post = IF c.tree[f] = NoFile THEN NoPath ELSE f
  /\ old[f] # c.tree[f] => s.edits = Edits[old[f], c.tree[f]]

IsRenamed(s, c, r) == s.mode = (r[2] \in c.modes) /\ s.pre = r[1] /\ s.post = r[2]

\* A file that is not renamed has a section under its own name.
LEMMA PlainSection ==
  ASSUME NEW old \in Trees, NEW c, IsCommit(c, old), NEW f \in File, Differ(c, old, f),
         \A r \in c.renames : r[2] # f
  PROVE  /\ IsSection(SectionOf(c, old, f))
         /\ IsPlain(SectionOf(c, old, f), c, old, f)
<1>1. {r[1] : r \in {r \in c.renames : r[2] = f}} = {}
  OBVIOUS
<1>2. SectionOf(c, old, f) =
        Section(IF old[f] = NoFile THEN NoPath ELSE f, IF c.tree[f] = NoFile THEN NoPath ELSE f,
                f \in c.modes, IF old[f] = c.tree[f] THEN <<>> ELSE Edits[old[f], c.tree[f]])
  BY <1>1 DEF SectionOf
<1>3. <<>> \in Seq(Mark) /\ f # NoPath
  BY EmptyAndOne, FrontendAssumption
<1>4. Edits[old[f], c.tree[f]] \in Seq(Mark)
  <2>1. old[f] \in Version \cup {NoFile} /\ c.tree[f] \in Version \cup {NoFile}
    BY TreesTyped DEF IsCommit
  <2> QED
    BY <2>1, EditTyped
<1>5. old[f] # NoFile \/ c.tree[f] # NoFile
  BY RenameFacts DEF Differ
<1> DEFINE s == SectionOf(c, old, f)
<1>6. /\ s.pre = IF old[f] = NoFile THEN NoPath ELSE f
      /\ s.post = IF c.tree[f] = NoFile THEN NoPath ELSE f
      /\ s.mode = (f \in c.modes)
      /\ s.edits = IF old[f] = c.tree[f] THEN <<>> ELSE Edits[old[f], c.tree[f]]
  <2> DEFINE a == IF old[f] = NoFile THEN NoPath ELSE f
             b == IF c.tree[f] = NoFile THEN NoPath ELSE f
             m == f \in c.modes
             e == IF old[f] = c.tree[f] THEN <<>> ELSE Edits[old[f], c.tree[f]]
  <2>1. s = Section(a, b, m, e)
    BY <1>2
  <2> HIDE DEF a, b, m, e, s
  <2>2. s.pre = a /\ s.post = b /\ s.mode = m /\ s.edits = e
    BY <2>1, SectionFields
  <2> QED
    BY <2>2 DEF a, b, m, e
<1> HIDE DEF s
<1>7. IsSection(s)
  BY <1>3, <1>4, <1>5, <1>6 DEF IsSection
<1>8. IsPlain(s, c, old, f)
  BY <1>6 DEF IsPlain
<1> QED
  BY <1>7, <1>8 DEF s

\* A renamed file has a section with both names.
LEMMA RenamedSection ==
  ASSUME NEW old \in Trees, NEW c, IsCommit(c, old), NEW r \in c.renames
  PROVE  /\ IsSection(SectionOf(c, old, r[2]))
         /\ IsRenamed(SectionOf(c, old, r[2]), c, r)
<1> DEFINE f == r[2]
           from == {q[1] : q \in {q \in c.renames : q[2] = f}}
           g == CHOOSE h \in from : TRUE
<1>1. /\ r[1] \in File /\ f \in File /\ \A q \in c.renames : q = r
      /\ old[r[1]] # NoFile /\ c.tree[f] # NoFile
  BY RenameFacts
<1>2. from = {r[1]}
  BY <1>1
<1>3. g = r[1]
  <2> HIDE DEF from
  <2> QED
    BY <1>2
<1>4. SectionOf(c, old, f) =
        Section(IF old[g] = NoFile THEN NoPath ELSE g, IF c.tree[f] = NoFile THEN NoPath ELSE f,
                f \in c.modes, IF old[g] = c.tree[f] THEN <<>> ELSE Edits[old[g], c.tree[f]])
  BY <1>2 DEF SectionOf
<1> HIDE DEF g
<1>5. SectionOf(c, old, f) =
        Section(r[1], f, f \in c.modes, IF old[g] = c.tree[f] THEN <<>> ELSE Edits[old[g], c.tree[f]])
  BY <1>1, <1>3, <1>4
<1>6. <<>> \in Seq(Mark) /\ f # NoPath /\ r[1] # NoPath
  BY <1>1, EmptyAndOne, FrontendAssumption
<1>7. Edits[old[g], c.tree[f]] \in Seq(Mark)
  <2>1. old[g] \in Version \cup {NoFile} /\ c.tree[f] \in Version \cup {NoFile}
    BY <1>1, <1>3, TreesTyped DEF IsCommit
  <2> QED
    BY <2>1, EditTyped
<1> DEFINE s == SectionOf(c, old, f)
<1>8. /\ s.pre = r[1] /\ s.post = f /\ s.mode = (f \in c.modes)
      /\ s.edits = IF old[g] = c.tree[f] THEN <<>> ELSE Edits[old[g], c.tree[f]]
  <2> DEFINE m == f \in c.modes
             e == IF old[g] = c.tree[f] THEN <<>> ELSE Edits[old[g], c.tree[f]]
  <2>1. s = Section(r[1], f, m, e)
    BY <1>5
  <2> HIDE DEF f, m, e, s
  <2>2. s.pre = r[1] /\ s.post = f /\ s.mode = m /\ s.edits = e
    BY <2>1, SectionFields
  <2> QED
    BY <2>2 DEF m, e
<1> HIDE DEF s
<1>9. IsSection(s)
  <2>1. s.edits \in Seq(Mark)
    BY <1>6, <1>7, <1>8
  <2>2. s.pre \in File /\ s.post \in File /\ s.pre # NoPath
    BY <1>1, <1>6, <1>8
  <2> HIDE DEF f, g
  <2> QED
    BY <2>1, <2>2 DEF IsSection
<1>10. IsRenamed(s, c, r)
  <2> HIDE DEF g
  <2> QED
    BY <1>8 DEF IsRenamed
<1> QED
  BY <1>9, <1>10 DEF s

\* Each file that differs has a section.
LEMMA SectionsTyped ==
  ASSUME NEW old \in Trees, NEW c, IsCommit(c, old), NEW f \in File, Differ(c, old, f)
  PROVE  IsSection(SectionOf(c, old, f))
<1>1. CASE \A r \in c.renames : r[2] # f
  BY <1>1, PlainSection
<1>2. ASSUME NEW r \in c.renames, r[2] = f PROVE IsSection(SectionOf(c, old, f))
  BY <1>2, RenamedSection
<1> QED
  BY <1>1, <1>2

\* The sections of a commit are those of the files that differ.
LEMMA SectionsListed ==
  ASSUME NEW old, NEW c
  PROVE  LET ss == Sections(c, old) IN
         /\ Len(ss) \in Nat /\ DOMAIN ss = 1 .. Len(ss)
         /\ \A i \in 1 .. Len(ss) : \E f \in File : Differ(c, old, f) /\ ss[i] = SectionOf(c, old, f)
         /\ \A f \in File : Differ(c, old, f) =>
              \E i \in 1 .. Len(ss) : ss[i] = SectionOf(c, old, f)
<1> DEFINE n == Len(Paths)
           S == {SectionOf(c, old, f) : f \in {f \in File : Differ(c, old, f)}}
           parts == [i \in 1 .. n |->
                       IF Differ(c, old, Paths[i]) THEN <<SectionOf(c, old, Paths[i])>> ELSE <<>>]
           ss == Sections(c, old)
<1>1. n \in Nat /\ File = {Paths[i] : i \in 1 .. n}
  <2>1. Paths \in Seq(File)
    BY FrontendAssumption
  <2>2. n \in Nat /\ DOMAIN Paths = 1 .. n
    BY <2>1
  <2> QED
    BY <2>2 DEF File
<1>2. ASSUME NEW i \in 1 .. n PROVE parts[i] \in Seq(S)
  <2>1. CASE Differ(c, old, Paths[i])
    <3>1. SectionOf(c, old, Paths[i]) \in S
      BY <1>1, <2>1
    <3>2. parts[i] = <<SectionOf(c, old, Paths[i])>>
      BY <2>1
    <3> HIDE DEF S, parts
    <3> QED
      BY <3>1, <3>2, EmptyAndOne
  <2>2. CASE ~Differ(c, old, Paths[i])
    <3>2. parts[i] = <<>>
      BY <2>2
    <3> HIDE DEF S, parts
    <3> QED
      BY <3>2, EmptyAndOne
  <2> QED
    BY <2>1, <2>2
<1>3. AreParts(parts, n, S)
  <2>1. Len(parts) = n /\ DOMAIN parts = 1 .. n /\ (n = 0 => parts = <<>>)
    BY <1>1
  <2> HIDE DEF parts, S, n
  <2> QED
    BY <1>2, <2>1 DEF AreParts
<1>4. ss = FlattenSeq(parts)
  BY DEF Sections
<1>5. ss \in Seq(S) /\ Range(ss) = UNION {Range(parts[i]) : i \in 1 .. n}
  <2> HIDE DEF parts, S, n, ss
  <2> QED
    BY <1>1, <1>3, <1>4, FlattenRange
<1>6. ASSUME NEW i \in 1 .. n, Differ(c, old, Paths[i])
      PROVE  SectionOf(c, old, Paths[i]) \in Range(ss)
  <2>1. parts[i] = <<SectionOf(c, old, Paths[i])>>
    BY <1>6
  <2>2. Range(parts[i]) = {SectionOf(c, old, Paths[i])}
    <3> HIDE DEF parts
    <3> QED
      BY <2>1, RangeOfOne
  <2> HIDE DEF parts, S, n, ss
  <2> QED
    BY <1>5, <2>2
<1> HIDE DEF ss, parts
<1>7. Len(ss) \in Nat /\ DOMAIN ss = 1 .. Len(ss) /\ \A i \in 1 .. Len(ss) : ss[i] \in S
  <2> HIDE DEF S
  <2> QED
    BY <1>5
<1>8. \A f \in File : Differ(c, old, f) => \E i \in 1 .. Len(ss) : ss[i] = SectionOf(c, old, f)
  BY <1>1, <1>6, <1>7 DEF Range
<1> QED
  BY <1>7, <1>8 DEF ss

\* What is reported of a commit.
LEMMA CommitReported ==
  ASSUME NEW old \in Trees, NEW c, IsCommit(c, old)
  PROVE  LET ch == ChangesOf(c, old) IN
         /\ ch \in Seq(Info)
         /\ \A info \in Range(ch) : \E f \in File :
              Differ(c, old, f) /\ Reports(info, SectionOf(c, old, f))
         /\ ~c.at_in_message => \A f \in File :
              Differ(c, old, f) /\ HasHunk(SectionOf(c, old, f)) => Covered(ch, SectionOf(c, old, f))
         /\ Readable(c, old) => \A f \in File :
              Differ(c, old, f) => Covered(ch, SectionOf(c, old, f))
<1> DEFINE ss == Sections(c, old)
           n == Len(ss)
           ch == ChangesOf(c, old)
<1>1. /\ n \in Nat
      /\ \A i \in 1 .. n : \E f \in File : Differ(c, old, f) /\ ss[i] = SectionOf(c, old, f)
      /\ \A f \in File : Differ(c, old, f) => \E i \in 1 .. n : ss[i] = SectionOf(c, old, f)
  BY SectionsListed
<1>2. \A i \in 1 .. n : IsSection(ss[i])
  BY <1>1, SectionsTyped
<1>3. CASE c.at_in_message
  <2>1. ch = <<>>
    <3>1. GetChangeInfos(GitShow(ss, TRUE)) = <<>>
      <4> HIDE DEF ss
      <4> QED
        BY <1>1, <1>2, NothingRead
    <3>2. c.at_in_message = TRUE
      BY <1>3 DEF IsCommit
    <3> QED
      BY <3>1, <3>2 DEF ChangesOf
  <2>2. ch \in Seq(Info) /\ Range(ch) = {}
    BY <2>1, EmptySeq DEF Range
  <2> QED
    BY <1>3, <2>2 DEF Readable
<1>4. CASE ~c.at_in_message
  <2>1. Collected(ch, ss, n) /\ (n # 0 => Covered(ch, ss[n]))
    <3>1. c.at_in_message = FALSE
      BY <1>4 DEF IsCommit
    <3>2. ch = GetChangeInfos(GitShow(ss, FALSE))
      BY <3>1 DEF ChangesOf
    <3> HIDE DEF ss
    <3> QED
      BY <1>1, <1>2, <3>2, ChangesReported
  <2>2. Readable(c, old) => \A i \in 1 .. (n - 1) : HasHunk(ss[i])
    BY DEF Readable
  <2> HIDE DEF ss, n, ch
  <2>3. ch \in Seq(Info) /\ \A info \in Range(ch) : \E f \in File :
          Differ(c, old, f) /\ Reports(info, SectionOf(c, old, f))
    BY <1>1, <2>1 DEF Collected
  <2>4. ASSUME NEW f \in File, Differ(c, old, f), HasHunk(SectionOf(c, old, f))
        PROVE  Covered(ch, SectionOf(c, old, f))
    BY <1>1, <2>1, <2>4 DEF Collected
  <2>5. ASSUME NEW f \in File, Differ(c, old, f), Readable(c, old)
        PROVE  Covered(ch, SectionOf(c, old, f))
    <3>1. PICK i \in 1 .. n : ss[i] = SectionOf(c, old, f)
      BY <1>1, <2>5
    <3>2. CASE i = n
      BY <1>1, <2>1, <3>1, <3>2
    <3>3. CASE i # n
      <4>1. i \in 1 .. (n - 1)
        BY <1>1, <3>3
      <4>2. HasHunk(ss[i])
        BY <2>2, <2>5, <4>1
      <4> QED
        BY <2>4, <2>5, <3>1, <4>2
    <3> QED
      BY <3>2, <3>3
  <2> QED
    BY <2>3, <2>4, <2>5 DEF ch
<1> QED
  BY <1>3, <1>4

-----------------------------------------------------------------------------
(* The list of changes and the trees. *)

\* No file has the empty path.
LEMMA FileNamed ==
  ASSUME NEW f \in File
  PROVE  f # NoPath
BY FrontendAssumption

\* The paths that the parser has read when it comes to the hunks of a file.
LEMMA PlainRead ==
  ASSUME NEW old \in Trees, NEW c, IsCommit(c, old), NEW f \in File, Differ(c, old, f),
         \A r \in c.renames : r[2] # f
  PROVE  LET s == SectionOf(c, old, f) IN
         /\ PreRead(s) = IF old[f] = NoFile \/ f \in c.modes THEN NoPath ELSE f
         /\ PostRead(s) = IF c.tree[f] = NoFile THEN NoPath ELSE f
<1> DEFINE s == SectionOf(c, old, f)
<1>1. IsPlain(s, c, old, f)
  BY PlainSection
<1>2. f # NoPath /\ (old[f] # NoFile \/ c.tree[f] # NoFile) /\ (f \in c.modes => c.tree[f] # NoFile)
  BY RenameFacts, FileNamed DEF Differ
<1> HIDE DEF s
<1>3. PreRead(s) = IF old[f] = NoFile \/ f \in c.modes THEN NoPath ELSE f
  BY <1>1, <1>2 DEF IsPlain, PreRead
<1>4. PostRead(s) = IF c.tree[f] = NoFile THEN NoPath ELSE f
  BY <1>1, <1>2 DEF IsPlain, PostRead
<1> QED
  BY <1>3, <1>4 DEF s

\* A new mode hides the old name of a renamed file.
LEMMA RenamedRead ==
  ASSUME NEW old \in Trees, NEW c, IsCommit(c, old), NEW r \in c.renames
  PROVE  LET s == SectionOf(c, old, r[2]) IN
         /\ PreRead(s) = IF r[2] \in c.modes THEN NoPath ELSE r[1]
         /\ PostRead(s) = r[2]
<1> DEFINE s == SectionOf(c, old, r[2])
<1>1. IsRenamed(s, c, r)
  BY RenamedSection
<1>2. r[1] # NoPath /\ r[2] # NoPath
  BY RenameFacts, FileNamed
<1> HIDE DEF s
<1>3. PreRead(s) = IF r[2] \in c.modes THEN NoPath ELSE r[1]
  BY <1>1, <1>2 DEF IsRenamed, PreRead
<1>4. PostRead(s) = r[2]
  BY <1>1, <1>2 DEF IsRenamed, PostRead
<1> QED
  BY <1>3, <1>4 DEF s

\* What a change that is reported says of the two trees.
Truthful(info, c, old) ==
  LET f == info.src_path IN
  /\ info \in Info
  /\ old[f] # c.tree[f] \/ f \in c.modes
  /\ info.state = "deleted" <=> c.tree[f] = NoFile
  /\ info.state # "added" => old[f] # NoFile
  /\ info.state = "modified" =>
       /\ old[f] # c.tree[f]
       /\ IsLinesOf(DeletedIn(Edits[old[f], c.tree[f]]), info.del_lines)
       /\ IsLinesOf(AddedIn(Edits[old[f], c.tree[f]]), info.add_lines)

\* What is reported of a file under its own name is true.
LEMMA PlainTruthful ==
  ASSUME NEW old \in Trees, NEW c, IsCommit(c, old), NEW f \in File, Differ(c, old, f),
         \A r \in c.renames : r[2] # f,
         NEW info, Reports(info, SectionOf(c, old, f))
  PROVE  Truthful(info, c, old) /\ info.src_path = f
<1> DEFINE s == SectionOf(c, old, f)
<1>1. /\ PreRead(s) = IF old[f] = NoFile \/ f \in c.modes THEN NoPath ELSE f
      /\ PostRead(s) = IF c.tree[f] = NoFile THEN NoPath ELSE f
  BY PlainRead
<1>2. IsPlain(s, c, old, f)
  BY PlainSection
<1>3. f # NoPath /\ (old[f] # NoFile \/ c.tree[f] # NoFile) /\ (f \in c.modes => c.tree[f] # NoFile)
  BY RenameFacts, FileNamed DEF Differ
<1>4. Reports(info, s) /\ (old[f] # c.tree[f] \/ f \in c.modes)
  BY DEF Differ
<1> HIDE DEF s
<1>5. CASE c.tree[f] = NoFile
  <2>1. PreRead(s) = f /\ PostRead(s) = NoPath /\ old[f] # NoFile
    BY <1>1, <1>3, <1>5
  <2>2. StatesOf(s) = {"deleted"}
    BY <1>3, <2>1 DEF StatesOf
  <2>3. info \in Info /\ info.state = "deleted" /\ info.src_path = f
    BY <1>4, <2>1, <2>2 DEF Reports
  <2> QED
    BY <1>4, <1>5, <2>1, <2>3 DEF Truthful
<1>6. CASE c.tree[f] # NoFile /\ (old[f] = NoFile \/ f \in c.modes)
  <2>1. PreRead(s) = NoPath /\ PostRead(s) = f
    BY <1>1, <1>6
  <2>2. StatesOf(s) = {"added"}
    BY <1>3, <2>1 DEF StatesOf
  <2>3. info \in Info /\ info.state = "added" /\ info.src_path = f
    BY <1>4, <2>1, <2>2 DEF Reports
  <2> QED
    BY <1>4, <1>6, <2>3 DEF Truthful
<1>7. CASE c.tree[f] # NoFile /\ old[f] # NoFile /\ f \notin c.modes
  <2>1. PreRead(s) = f /\ PostRead(s) = f
    BY <1>1, <1>7
  <2>2. StatesOf(s) = {"modified"}
    BY <2>1 DEF StatesOf
  <2>3. info \in Info /\ info.state = "modified" /\ info.src_path = f
    BY <1>4, <2>1, <2>2 DEF Reports
  <2>4. s.edits = Edits[old[f], c.tree[f]]
    BY <1>2, <1>4, <1>7 DEF IsPlain
  <2>5. /\ IsLinesOf(DeletedIn(s.edits), info.del_lines)
        /\ IsLinesOf(AddedIn(s.edits), info.add_lines)
    BY <1>3, <1>4, <2>1, <2>3 DEF Reports
  <2> QED
    BY <1>4, <1>7, <2>3, <2>4, <2>5 DEF Truthful
<1> QED
  BY <1>5, <1>6, <1>7

\* What is reported of a renamed file is true of both names.
LEMMA RenamedTruthful ==
  ASSUME NEW old \in Trees, NEW c, IsCommit(c, old), NEW r \in c.renames,
         NEW info, Reports(info, SectionOf(c, old, r[2]))
  PROVE  /\ Truthful(info, c, old)
         /\ info.src_path = IF info.state = "deleted" THEN r[1] ELSE r[2]
<1> DEFINE s == SectionOf(c, old, r[2])
<1>1. /\ PreRead(s) = IF r[2] \in c.modes THEN NoPath ELSE r[1]
      /\ PostRead(s) = r[2]
  BY RenamedRead
<1>2. /\ r[1] # NoPath /\ r[2] # NoPath
      /\ old[r[1]] # NoFile /\ c.tree[r[1]] = NoFile
      /\ old[r[2]] = NoFile /\ c.tree[r[2]] # NoFile
  BY RenameFacts, FileNamed
<1>3. Reports(info, s)
  OBVIOUS
<1> HIDE DEF s
<1>4. StatesOf(s) \subseteq {"deleted", "added"}
  BY <1>1, <1>2 DEF StatesOf
<1>5. StatesOf(s) = {"added"} \/ PreRead(s) = r[1]
  BY <1>1, <1>2 DEF StatesOf
<1>6. /\ info \in Info /\ info.state \in {"deleted", "added"}
      /\ info.src_path = IF info.state = "deleted" THEN r[1] ELSE r[2]
  BY <1>1, <1>3, <1>4, <1>5 DEF Reports
<1>7. CASE info.state = "deleted"
  <2>1. info.src_path = r[1]
    BY <1>6, <1>7
  <2> QED
    BY <1>2, <1>6, <1>7, <2>1 DEF Truthful
<1>8. CASE info.state = "added"
  <2>1. info.src_path = r[2]
    BY <1>6, <1>8
  <2> QED
    BY <1>2, <1>6, <1>8, <2>1 DEF Truthful
<1> QED
  BY <1>6, <1>7, <1>8

\* Everything that is reported is true.
THEOREM ChangesTruthful ==
  ASSUME NEW old \in Trees, NEW c, IsCommit(c, old), NEW info \in Range(ChangesOf(c, old))
  PROVE  Truthful(info, c, old)
<1>1. PICK f \in File : Differ(c, old, f) /\ Reports(info, SectionOf(c, old, f))
  BY CommitReported
<1>2. CASE \A r \in c.renames : r[2] # f
  BY <1>1, <1>2, PlainTruthful
<1>3. ASSUME NEW r \in c.renames, r[2] = f PROVE Truthful(info, c, old)
  BY <1>1, <1>3, RenamedTruthful
<1> QED
  BY <1>2, <1>3

\* A file that the commit adds has no deleted lines.
LEMMA AddedOnly ==
  ASSUME NEW v \in Version
  PROVE  IsLinesOf(DeletedIn(Edits[NoFile, v]), <<>>)
<1>1. \A i \in DOMAIN Edits[NoFile, v] : Edits[NoFile, v][i] = "+"
  BY FrontendAssumption
<1>2. DeletedIn(Edits[NoFile, v]) = {}
  BY <1>1 DEF DeletedIn
<1>3. Ascending(<<>>) /\ {<<>>[i] : i \in DOMAIN <<>>} = {}
  BY DEF Ascending
<1> QED
  BY <1>2, <1>3 DEF IsLinesOf

\* A file with a hunk, under its own name and with its mode, is reported.
LEMMA HunkReported ==
  ASSUME NEW old \in Trees, NEW c, IsCommit(c, old), ~c.at_in_message, NEW f \in File,
         old[f] # c.tree[f], f \notin c.modes,
         \A r \in c.renames : f # r[1] /\ f # r[2],
         HasHunk(SectionOf(c, old, f))
  PROVE  \E info \in Range(ChangesOf(c, old)) :
           /\ info.src_path = f
           /\ info.state = IF old[f] = NoFile THEN "added"
                           ELSE IF c.tree[f] = NoFile THEN "deleted" ELSE "modified"
           /\ info.state # "deleted" =>
                /\ IsLinesOf(DeletedIn(Edits[old[f], c.tree[f]]), info.del_lines)
                /\ IsLinesOf(AddedIn(Edits[old[f], c.tree[f]]), info.add_lines)
<1> DEFINE s == SectionOf(c, old, f)
           st == IF old[f] = NoFile THEN "added"
                 ELSE IF c.tree[f] = NoFile THEN "deleted" ELSE "modified"
<1>1. Differ(c, old, f) /\ \A r \in c.renames : r[2] # f
  BY DEF Differ
<1>2. Covered(ChangesOf(c, old), s)
  BY <1>1, CommitReported
<1>3. /\ PreRead(s) = IF old[f] = NoFile THEN NoPath ELSE f
      /\ PostRead(s) = IF c.tree[f] = NoFile THEN NoPath ELSE f
  BY <1>1, PlainRead
<1>31. s.edits = Edits[old[f], c.tree[f]]
  <2>1. IsPlain(s, c, old, f)
    BY <1>1, PlainSection
  <2> HIDE DEF s
  <2> QED
    BY <2>1 DEF IsPlain
<1>4. f # NoPath
  BY FileNamed
<1>5. \A info : Reports(info, s) => info.src_path = f
  BY <1>1, PlainTruthful
<1> HIDE DEF s
<1>6. st \in StatesOf(s)
  BY <1>3, <1>4 DEF StatesOf
<1>7. PICK info \in Range(ChangesOf(c, old)) : info.state = st /\ Reports(info, s)
  BY <1>2, <1>6 DEF Covered
<1>8. ASSUME st # "deleted"
      PROVE  /\ IsLinesOf(DeletedIn(Edits[old[f], c.tree[f]]), info.del_lines)
             /\ IsLinesOf(AddedIn(Edits[old[f], c.tree[f]]), info.add_lines)
  <2>1. IsLinesOf(AddedIn(Edits[old[f], c.tree[f]]), info.add_lines)
    BY <1>31, <1>7, <1>8 DEF Reports
  <2>2. CASE old[f] = NoFile
    <3>1. info.del_lines = <<>>
      BY <1>3, <1>7, <1>8, <2>2 DEF Reports
    <3>2. c.tree[f] \in Version
      BY <2>2, TreesTyped DEF IsCommit
    <3>3. IsLinesOf(DeletedIn(Edits[NoFile, c.tree[f]]), <<>>)
      BY <3>2, AddedOnly
    <3> QED
      BY <2>1, <2>2, <3>1, <3>3
  <2>3. CASE old[f] # NoFile
    BY <1>3, <1>31, <1>4, <1>7, <1>8, <2>1, <2>3 DEF Reports
  <2> QED
    BY <2>2, <2>3
<1> QED
  BY <1>5, <1>7, <1>8

\* If the parser can read all of it, every file that is no longer there is
\* reported as deleted, under its old name.
LEMMA AllDeletedReported ==
  ASSUME NEW old \in Trees, NEW c, IsCommit(c, old), Readable(c, old), NEW f \in File,
         old[f] # NoFile, c.tree[f] = NoFile
  PROVE  \E info \in Range(ChangesOf(c, old)) : info.state = "deleted" /\ info.src_path = f
<1>0. f # NoPath /\ \A r \in c.renames : r[2] # f
  BY RenameFacts, FileNamed
<1>1. CASE \A r \in c.renames : r[1] # f
  <2> DEFINE s == SectionOf(c, old, f)
  <2>1. Differ(c, old, f)
    BY <1>1 DEF Differ
  <2>2. Covered(ChangesOf(c, old), s)
    BY <2>1, CommitReported
  <2>3. PostRead(s) = NoPath /\ PreRead(s) = f
    BY <1>0, <2>1, PlainRead, RenameFacts
  <2>4. \A info : Reports(info, s) => info.src_path = f
    BY <1>0, <2>1, PlainTruthful
  <2> HIDE DEF s
  <2>5. "deleted" \in StatesOf(s)
    BY <1>0, <2>3 DEF StatesOf
  <2> QED
    BY <2>2, <2>4, <2>5 DEF Covered
<1>2. ASSUME NEW r \in c.renames, r[1] = f
      PROVE  \E info \in Range(ChangesOf(c, old)) : info.state = "deleted" /\ info.src_path = f
  <2> DEFINE s == SectionOf(c, old, r[2])
  <2>1. /\ Differ(c, old, r[2]) /\ r[2] \in File
        /\ r[2] # f /\ r[2] # NoPath /\ r[2] \notin c.modes
    <3>1. /\ r[2] \in File /\ old[r[2]] = NoFile /\ c.tree[r[2]] # NoFile
          /\ \A q \in c.renames : q = r
      BY RenameFacts
    <3>2. r[2] # r[1]
      BY <1>2, <3>1
    <3> QED
      BY <1>2, <3>1, <3>2, FileNamed DEF Differ, Readable
  <2>2. Covered(ChangesOf(c, old), s)
    BY <2>1, CommitReported
  <2>3. PostRead(s) = r[2] /\ PreRead(s) = f
    BY <1>2, <2>1, RenamedRead
  <2>4. \A info : Reports(info, s) /\ info.state = "deleted" => info.src_path = f
    BY <1>2, RenamedTruthful
  <2> HIDE DEF s
  <2>5. "deleted" \in StatesOf(s)
    BY <1>0, <2>1, <2>3 DEF StatesOf
  <2> QED
    BY <2>2, <2>4, <2>5 DEF Covered
<1> QED
  BY <1>1, <1>2

\* Every file with new contents is reported under its new name.
LEMMA AllWrittenReported ==
  ASSUME NEW old \in Trees, NEW c, IsCommit(c, old), Readable(c, old), NEW f \in File,
         old[f] # c.tree[f], c.tree[f] # NoFile
  PROVE  \E info \in Range(ChangesOf(c, old)) : info.state # "deleted" /\ info.src_path = f
<1> DEFINE s == SectionOf(c, old, f)
<1>1. f # NoPath /\ Differ(c, old, f)
  BY RenameFacts, FileNamed DEF Differ
<1>2. Covered(ChangesOf(c, old), s)
  BY <1>1, CommitReported
<1>3. PostRead(s) = f
  <2>1. CASE \A r \in c.renames : r[2] # f
    BY <1>1, <2>1, PlainRead
  <2>2. ASSUME NEW r \in c.renames, r[2] = f PROVE PostRead(s) = f
    BY <2>2, RenamedRead
  <2> QED
    BY <2>1, <2>2
<1> HIDE DEF s
<1>4. PICK st \in StatesOf(s) : st # "deleted"
  BY <1>1, <1>3 DEF StatesOf
<1>5. PICK info \in Range(ChangesOf(c, old)) : info.state = st /\ Reports(info, s)
  BY <1>2 DEF Covered
<1>6. info.src_path = f
  BY <1>3, <1>4, <1>5 DEF Reports
<1> QED
  BY <1>4, <1>5, <1>6

-----------------------------------------------------------------------------
(* The loaded modules. *)

\* Only configured sources have bitcode, and a loaded module has a file.
OnlyConfigured ==
  \A f \in Src : /\ bc[f] # NoFile => f \in Configured
                 /\ loaded[f] # NoFile => bc[f] # NoFile

\* What is loaded is the bitcode file.
SameAsFile(f) == loaded[f] # NoFile => loaded[f] = bc[f]

\* The bitcode file is made from the source as it is, if that compiles.
UpToDate(f) == Compiles(tree[f]) /\ bc[f] # NoFile => bc[f] = tree[f]

\* Before the build, bitcode may be behind for the files that were written;
\* before they are loaded, modules may be behind for the changed ones.
FreshInv ==
  \A f \in Src :
    /\ phase \in {"next", "remove", "write", "load"} => UpToDate(f)
    /\ phase = "build" => UpToDate(f) \/ f \in NotDeleted
    /\ phase \in {"next", "remove", "write", "build"} => SameAsFile(f)
    /\ phase = "load" => SameAsFile(f) \/ f \in NotDeleted

PhaseOK == phase \in {"next", "remove", "write", "build", "load", "crashed"}

\* The inductive invariant for what is loaded.
IInv == PhaseOK /\ OnlyConfigured /\ FreshInv

\* Sources are files.
LEMMA SrcFiles == Src \subseteq File /\ Configured \subseteq Src /\ NoFile \notin Version
BY FrontendAssumption

\* A file of the list of changes that is not deleted is the path of a change.
LEMMA NotDeletedChanged ==
  ASSUME NEW f \in NotDeleted
  PROVE  \E i \in DOMAIN changes : changes[i].src_path = f
BY DEF NotDeleted, InState

\* What make leaves behind.
LEMMA MakeResult ==
  ASSUME NEW targets, NEW files, NEW old, NEW f \in Src
  PROVE  /\ f \in targets /\ Compiles(files[f]) => Make(targets, files, old)[f] = files[f]
         /\ f \notin targets \/ ~Compiles(files[f]) => Make(targets, files, old)[f] = old[f]
BY DEF Make

-----------------------------------------------------------------------------
\* After the first build all bitcode is made from the sources as they are.
THEOREM InitInv ==
  Init => IInv
<1> SUFFICES ASSUME Init PROVE IInv
  OBVIOUS
<1>1. bc = Make(Configured, tree, [g \in Src |-> NoFile]) /\ loaded = bc /\ phase = "next"
  BY DEF Init
<1>2. ASSUME NEW f \in Src
      PROVE  (bc[f] # NoFile => f \in Configured) /\ UpToDate(f) /\ SameAsFile(f)
  <2>1. f \in Configured /\ Compiles(tree[f]) => bc[f] = tree[f]
    BY <1>1, MakeResult
  <2>2. f \notin Configured \/ ~Compiles(tree[f]) => bc[f] = NoFile
    BY <1>1, MakeResult
  <2> QED
    BY <1>1, <2>1, <2>2 DEF UpToDate, SameAsFile
<1> QED
  BY <1>1, <1>2 DEF IInv, PhaseOK, OnlyConfigured, FreshInv

\* The step case, one action at a time.
THEOREM StepInv ==
  IInv /\ [Next]_vars => IInv'
<1> SUFFICES ASSUME IInv, [Next]_vars PROVE IInv'
  OBVIOUS
<1>0. PhaseOK /\ OnlyConfigured /\ FreshInv
  BY DEF IInv
<1>1. ASSUME NEW c, GetChanges(c) PROVE IInv'
  <2>1. phase = "next" /\ phase' = "remove" /\ UNCHANGED <<tree, bc, loaded>>
    BY <1>1 DEF GetChanges
  <2> QED
    BY <1>0, <2>1 DEF IInv, PhaseOK, OnlyConfigured, FreshInv, UpToDate, SameAsFile, Compiles
<1>2. CASE RemoveFiles
  <2>1. /\ phase = "remove" /\ phase' = "write" /\ UNCHANGED <<bc, loaded>>
        /\ tree' = [f \in File |-> IF f \in InState("deleted") THEN NoFile ELSE tree[f]]
    BY <1>2 DEF RemoveFiles
  <2>2. \A f \in Src : tree'[f] = NoFile \/ tree'[f] = tree[f]
    BY <2>1, SrcFiles
  <2>3. \A f \in Src : UpToDate(f) => UpToDate(f)'
    BY <2>1, <2>2 DEF UpToDate, Compiles
  <2> QED
    BY <1>0, <2>1, <2>3 DEF IInv, PhaseOK, OnlyConfigured, FreshInv, SameAsFile
<1>3. CASE RemoveFails \/ WriteFails
  <2>1. phase' = "crashed" /\ UNCHANGED <<bc, loaded>>
    BY <1>3 DEF RemoveFails, WriteFails
  <2> QED
    BY <1>0, <2>1 DEF IInv, PhaseOK, OnlyConfigured, FreshInv
<1>4. CASE WriteFiles
  <2>1. /\ phase = "write" /\ phase' = "build" /\ UNCHANGED <<bc, loaded, changes>>
        /\ tree' = [f \in File |-> IF f \in NotDeleted THEN Commit.tree[f] ELSE tree[f]]
    BY <1>4 DEF WriteFiles
  <2>2. NotDeleted' = NotDeleted
    BY <2>1 DEF NotDeleted, InState
  <2>3. \A f \in Src : f \in NotDeleted \/ tree'[f] = tree[f]
    BY <2>1, SrcFiles
  <2>4. \A f \in Src : UpToDate(f) => UpToDate(f)' \/ f \in NotDeleted'
    BY <2>1, <2>2, <2>3 DEF UpToDate, Compiles
  <2> QED
    BY <1>0, <2>1, <2>4 DEF IInv, PhaseOK, OnlyConfigured, FreshInv, SameAsFile
<1>5. CASE Build
  <2> DEFINE targets == ToBuild \cup {f \in Configured : DirOf[f] \in ToBuildDirs}
  <2>1. /\ phase = "build" /\ phase' = "load" /\ UNCHANGED <<tree, loaded, changes>>
        /\ bc' = Make(targets, tree, bc)
    BY <1>5 DEF Build
  <2> SUFFICES ASSUME NEW f \in Src
               PROVE  /\ bc'[f] # NoFile => f \in Configured
                      /\ loaded'[f] # NoFile => bc'[f] # NoFile
                      /\ UpToDate(f)'
                      /\ SameAsFile(f)' \/ f \in NotDeleted'
    BY <2>1 DEF IInv, PhaseOK, OnlyConfigured, FreshInv
  <2>2. f \in targets /\ Compiles(tree[f]) => bc'[f] = tree[f]
    BY <2>1, MakeResult
  <2>3. f \notin targets \/ ~Compiles(tree[f]) => bc'[f] = bc[f]
    BY <2>1, MakeResult
  <2>4. NotDeleted' = NotDeleted
    BY <2>1 DEF NotDeleted, InState
  <2>5. targets \subseteq Configured
    BY <1>0, SrcFiles DEF ToBuild, OnlyConfigured
  <2>6. f \in NotDeleted /\ bc[f] # NoFile => f \in targets
    BY <1>0 DEF ToBuild, ToBuildDirs, NotDeleted, OnlyConfigured
  <2>7. UpToDate(f)'
    <3>1. CASE f \in targets
      BY <3>1, <2>1, <2>2 DEF UpToDate, Compiles
    <3>2. CASE f \notin targets
      <4>1. bc'[f] = bc[f] /\ (bc[f] = NoFile \/ UpToDate(f))
        BY <3>2, <1>0, <2>1, <2>3, <2>6 DEF FreshInv
      <4> QED
        BY <4>1, <2>1 DEF UpToDate, Compiles
    <3> QED
      BY <3>1, <3>2
  <2>8. SameAsFile(f)' \/ f \in NotDeleted'
    <3> SUFFICES ASSUME f \notin NotDeleted, loaded[f] # NoFile PROVE loaded[f] = bc'[f]
      BY <2>1, <2>4 DEF SameAsFile
    <3>1. UpToDate(f) /\ bc[f] # NoFile /\ loaded[f] = bc[f]
      BY <1>0, <2>1 DEF FreshInv, OnlyConfigured, SameAsFile
    <3>2. bc'[f] = bc[f]
      BY <3>1, <2>2, <2>3 DEF UpToDate
    <3> QED
      BY <3>1, <3>2
  <2>9. bc'[f] # NoFile => f \in Configured
    BY <1>0, <2>3, <2>5 DEF OnlyConfigured
  <2>10. loaded'[f] # NoFile => bc'[f] # NoFile
    BY <1>0, <2>1, <2>2, <2>3 DEF OnlyConfigured, Compiles
  <2> QED
    BY <2>7, <2>8, <2>9, <2>10
<1>6. CASE UpdateModules
  <2>1. /\ phase = "load" /\ phase' = "next" /\ UNCHANGED <<tree, bc>>
        /\ updates' = {UpdateOf(changes[i]) : i \in {i \in DOMAIN changes : WithBitcode(changes[i])}}
        /\ loaded' = [f \in Src |-> IF f \in {u.file : u \in updates'} THEN bc[f] ELSE loaded[f]]
    BY <1>6 DEF UpdateModules
  <2> SUFFICES ASSUME NEW f \in Src
               PROVE  /\ loaded'[f] # NoFile => bc[f] # NoFile
                      /\ UpToDate(f)' /\ SameAsFile(f)'
    BY <1>0, <2>1 DEF IInv, PhaseOK, OnlyConfigured, FreshInv
  <2>2. loaded'[f] = bc[f] \/ loaded'[f] = loaded[f]
    BY <2>1
  <2>3. UpToDate(f)'
    BY <1>0, <2>1 DEF FreshInv, UpToDate, Compiles
  <2>4. f \in NotDeleted /\ bc[f] # NoFile => loaded'[f] = bc[f]
    <3> SUFFICES ASSUME f \in NotDeleted, bc[f] # NoFile PROVE f \in {u.file : u \in updates'}
      BY <2>1
    <3>1. PICK i \in DOMAIN changes : changes[i].src_path = f
      BY NotDeletedChanged
    <3>2. WithBitcode(changes[i]) /\ UpdateOf(changes[i]).file = f
      BY <3>1 DEF WithBitcode, UpdateOf
    <3> QED
      BY <2>1, <3>2
  <2>5. loaded'[f] # NoFile => bc[f] # NoFile
    BY <1>0, <2>2 DEF OnlyConfigured
  <2>6. SameAsFile(f)'
    BY <1>0, <2>1, <2>2, <2>4, <2>5 DEF FreshInv, SameAsFile
  <2> QED
    BY <2>3, <2>5, <2>6
<1>7. CASE UNCHANGED vars
  BY <1>0, <1>7 DEF IInv, PhaseOK, OnlyConfigured, FreshInv, UpToDate, SameAsFile, Compiles,
                    NotDeleted, InState, vars
<1> QED
  BY <1>1, <1>2, <1>3, <1>4, <1>5, <1>6, <1>7 DEF Next

-----------------------------------------------------------------------------
\* After every commit the loaded module of a source that compiles is that of
\* the source in the work tree, for every history, merges and branches
\* included, and whatever was read from "git show" (entry.py:115-164).
THEOREM LoadedIsCurrent ==
  Spec => []LoadedCurrent
<1>1. IInv => LoadedCurrent
  BY DEF IInv, OnlyConfigured, FreshInv, UpToDate, SameAsFile, LoadedCurrent
<1> QED
  BY <1>1, InitInv, StepInv, PTL DEF Spec

-----------------------------------------------------------------------------
(* The invariant of the loop. *)

\* The first commit has a tree only; the others are as git log prints them.
Entry ==
  [tree : Trees, parent : {0}]
    \cup [tree : Trees, parent : 1 .. MaxCommits, merge : BOOLEAN, at_in_message : BOOLEAN,
          renames : SUBSET (File \X File), modes : Modes]

HistoryOK ==
  /\ history \in Seq(Entry) /\ Len(history) \in 1 .. (MaxCommits + 1)
  /\ linear \in BOOLEAN /\ readable \in BOOLEAN

\* After the first commit the list of changes is that of the last commit.
CommitOK ==
  /\ Len(history) = 1 => changes = <<>>
  /\ Len(history) > 1 =>
       /\ Commit.parent \in 1 .. (Len(history) - 1)
       /\ IsCommit(Commit, Parent.tree)
       /\ changes = ChangesOf(Commit, Parent.tree)
       /\ readable => Readable(Commit, Parent.tree)
       /\ linear => Commit.parent = Len(history) - 1

PhaseInv == phase \in {"next", "remove", "write", "build", "load", "crashed"}
              /\ (phase # "next" => Len(history) > 1)

\* A file or a bitcode file lies in a directory that exists.
TypedInv ==
  /\ tree \in [File -> Version \cup {NoFile}]
  /\ bc \in [Src -> Version \cup {NoFile}] /\ loaded \in [Src -> Version \cup {NoFile}]
  /\ \A f \in File : tree[f] # NoFile => DirOf[f] \in dirs
  /\ \A f \in Src : bc[f] # NoFile => DirOf[f] \in dirs

\* The work tree goes from the tree of the parent to that of the commit.
TreeInv ==
  linear /\ readable =>
    /\ phase # "crashed"
    /\ phase \in {"next", "build", "load"} => tree = Commit.tree
    /\ phase = "remove" => tree = Parent.tree
    /\ phase = "write" =>
         tree = [f \in File |-> IF Commit.tree[f] = NoFile THEN NoFile ELSE Parent.tree[f]]

\* While a commit is applied, the loaded modules are those of its parent.
LoadedInv ==
  linear /\ readable /\ phase \in {"remove", "write", "build", "load"} =>
    \A f \in Src : loaded[f] # NoFile /\ Compiles(Parent.tree[f]) => loaded[f] = Parent.tree[f]

LoopInv == IInv /\ HistoryOK /\ CommitOK /\ PhaseInv /\ TypedInv /\ TreeInv /\ LoadedInv /\ LinesMatch

\* A commit that git prints is a commit on top of its parent.
LEMMA CommitTyped ==
  ASSUME NEW p, NEW t \in Trees, NEW c \in CommitsOf(p, t)
  PROVE  /\ IsCommit(c, history[p].tree) /\ c.parent = p /\ c.tree \in Trees
         /\ p \in 1 .. MaxCommits => c \in Entry
<1>1. c \in [tree : {t}, parent : {p}, merge : BOOLEAN, at_in_message : BOOLEAN,
             renames : Renames(history[p].tree, t), modes : Modes]
  BY DEF CommitsOf
<1>2. c.modes \in Remoded(history[p].tree, t, c.renames)
  BY DEF CommitsOf
<1>3. Renames(history[p].tree, t) \subseteq SUBSET (File \X File)
  BY DEF Renames
<1>4. /\ c.tree = t /\ c.parent = p /\ c.merge \in BOOLEAN /\ c.at_in_message \in BOOLEAN
      /\ c.renames \in Renames(history[p].tree, t) /\ c.modes \in Modes
      /\ c = [tree |-> c.tree, parent |-> c.parent, merge |-> c.merge,
              at_in_message |-> c.at_in_message, renames |-> c.renames, modes |-> c.modes]
  BY <1>1
<1>5. IsCommit(c, history[p].tree)
  BY <1>2, <1>4 DEF IsCommit
<1>6. ASSUME p \in 1 .. MaxCommits PROVE c \in Entry
  <2>1. c.renames \in SUBSET (File \X File)
    BY <1>3, <1>4
  <2> DEFINE R == SUBSET (File \X File)
             P == 1 .. MaxCommits
  <2>2. c.renames \in R /\ c.parent \in P
    BY <1>4, <1>6, <2>1
  <2> HIDE DEF R, P
  <2>3. c \in [tree : Trees, parent : P, merge : BOOLEAN, at_in_message : BOOLEAN,
               renames : R, modes : Modes]
    BY <1>4, <2>2
  <2> QED
    BY <2>3 DEF R, P, Entry
<1> QED
  BY <1>4, <1>5, <1>6

\* Each commit has a tree.
LEMMA EntryTree ==
  ASSUME NEW e \in Entry
  PROVE  e.tree \in Trees
BY DEF Entry

\* What the loop knows of the commit that it applies.
LEMMA ChangeFacts ==
  ASSUME HistoryOK, CommitOK, Len(history) > 1
  PROVE  /\ Commit.tree \in Trees /\ Parent.tree \in Trees
         /\ changes \in Seq(Info)
         /\ \A i \in DOMAIN changes : Truthful(changes[i], Commit, Parent.tree)
<1>1. /\ Len(history) \in 1 .. Len(history) /\ DOMAIN history = 1 .. Len(history)
      /\ Commit.parent \in 1 .. Len(history)
      /\ history \in Seq(Entry)
  BY DEF HistoryOK, CommitOK
<1>2. Commit \in Entry /\ Parent \in Entry
  BY <1>1 DEF Commit, Parent
<1>3. Commit.tree \in Trees /\ Parent.tree \in Trees
  BY <1>2, EntryTree
<1>4. IsCommit(Commit, Parent.tree) /\ changes = ChangesOf(Commit, Parent.tree)
  BY DEF CommitOK
<1>5. changes \in Seq(Info)
  BY <1>3, <1>4, CommitReported
<1>6. ASSUME NEW i \in DOMAIN changes PROVE Truthful(changes[i], Commit, Parent.tree)
  <2>1. changes[i] \in Range(changes)
    BY DEF Range
  <2> QED
    BY <1>3, <1>4, <2>1, ChangesTruthful
<1> QED
  BY <1>3, <1>5, <1>6

\* The initial commit.
LEMMA InitLoop ==
  Init => LoopInv
<1> SUFFICES ASSUME Init PROVE LoopInv
  OBVIOUS
<1>1. IInv
  BY InitInv
<1> DEFINE e == [tree |-> tree, parent |-> 0]
<1>2. /\ tree \in Trees /\ history = <<e>> /\ changes = <<>>
      /\ dirs = {DirOf[f] : f \in {f \in File : tree[f] # NoFile}}
      /\ bc = Make(Configured, tree, [g \in Src |-> NoFile]) /\ loaded = bc /\ phase = "next"
      /\ linear = TRUE /\ readable = TRUE
  BY DEF Init
<1>3. e \in Entry
  BY <1>2 DEF Entry
<1>4. Len(history) = 1 /\ Commit = e /\ history \in Seq(Entry)
  <2> HIDE DEF e
  <2>1. <<e>> \in Seq(Entry) /\ Len(<<e>>) = 1 /\ <<e>>[1] = e
    BY <1>3, EmptyAndOne
  <2> QED
    BY <1>2, <2>1 DEF Commit
<1>5. HistoryOK
  <2>1. MaxCommits \in Nat
    BY FrontendAssumption
  <2> HIDE DEF e
  <2> QED
    BY <1>2, <1>4, <2>1 DEF HistoryOK
<1>6. CommitOK /\ PhaseInv /\ LinesMatch /\ LoadedInv
  BY <1>2, <1>4 DEF CommitOK, PhaseInv, LinesMatch, LoadedInv
<1>7. TreeInv
  BY <1>2, <1>4 DEF TreeInv
<1>8. TypedInv
  <2>1. tree \in [File -> Version \cup {NoFile}]
    BY <1>2, FrontendAssumption
  <2>2. ASSUME NEW f \in Src
        PROVE  /\ bc[f] \in Version \cup {NoFile}
               /\ bc[f] # NoFile => bc[f] = tree[f] /\ DirOf[f] \in dirs
    <3>1. f \in Configured /\ Compiles(tree[f]) => bc[f] = tree[f]
      BY <1>2, MakeResult
    <3>2. f \notin Configured \/ ~Compiles(tree[f]) => bc[f] = NoFile
      BY <1>2, MakeResult
    <3>3. f \in File /\ tree[f] \in Version \cup {NoFile}
      BY <2>1, SrcFiles
    <3> QED
      BY <1>2, <3>1, <3>2, <3>3
  <2>3. bc = [f \in Src |-> bc[f]]
    BY <1>2 DEF Make
  <2>4. bc \in [Src -> Version \cup {NoFile}]
    BY <2>2, <2>3
  <2> QED
    BY <1>2, <2>1, <2>2, <2>4 DEF TypedInv
<1> QED
  BY <1>1, <1>5, <1>6, <1>7, <1>8 DEF LoopInv

-----------------------------------------------------------------------------
(* The steps of the loop. *)

\* Reading the next commit.
LEMMA ReadCommit ==
  ASSUME LoopInv, NEW p \in DOMAIN history, NEW t \in Trees, NEW c \in CommitsOf(p, t), GetChanges(c)
  PROVE  /\ HistoryOK' /\ CommitOK' /\ PhaseInv' /\ phase' = "remove"
         /\ Parent' = history[p] /\ Commit' = c
         /\ linear' => linear /\ Parent' = Commit
         /\ readable' => readable
<1> DEFINE n == Len(history)
           old == history[p].tree
<1>1. /\ history \in Seq(Entry) /\ n \in 1 .. (MaxCommits + 1) /\ n <= MaxCommits
      /\ linear \in BOOLEAN /\ readable \in BOOLEAN
      /\ history' = Append(history, c) /\ changes' = ChangesOf(c, old)
      /\ linear' = (linear /\ c.parent = n)
      /\ readable' = (readable /\ Readable(c, old))
      /\ phase' = "remove"
  <2>1. /\ history \in Seq(Entry) /\ n \in 1 .. (MaxCommits + 1)
        /\ linear \in BOOLEAN /\ readable \in BOOLEAN
    BY DEF LoopInv, HistoryOK
  <2>2. n <= MaxCommits /\ history' = Append(history, c) /\ phase' = "remove"
    BY DEF GetChanges
  <2>3. linear' = (linear /\ c.parent = n)
    BY DEF GetChanges
  <2>4. c.parent = p
    BY CommitTyped
  <2>5. changes' = ChangesOf(c, old) /\ readable' = (readable /\ Readable(c, old))
    BY <2>4, Zenon DEF GetChanges, ChangesOf
  <2> QED
    BY <2>1, <2>2, <2>3, <2>5
<1>2. MaxCommits \in Nat
  BY FrontendAssumption
<1>3. p \in 1 .. n /\ p \in 1 .. MaxCommits
  BY <1>1, <1>2
<1>4. c \in Entry /\ c.parent = p /\ IsCommit(c, old)
  BY <1>3, CommitTyped
<1>5. /\ history' \in Seq(Entry) /\ Len(history') = n + 1
      /\ history'[n + 1] = c /\ \A i \in 1 .. n : history'[i] = history[i]
  <2> HIDE DEF n
  <2>1. n = Len(history)
    BY DEF n
  <2> QED
    BY <1>1, <1>4, <2>1
<1>6. Commit' = c /\ Parent' = history[p]
  BY <1>3, <1>4, <1>5 DEF Commit, Parent
<1> HIDE DEF n
<1>7. HistoryOK'
  BY <1>1, <1>2, <1>5 DEF HistoryOK
<1>8. CommitOK'
  <2>1. n + 1 # 1 /\ c.parent \in 1 .. ((n + 1) - 1) /\ (linear' => c.parent = (n + 1) - 1)
    <3>1. n \in Nat /\ n >= 1 /\ c.parent \in 1 .. n /\ (n + 1) - 1 = n
      BY <1>1, <1>2, <1>3, <1>4
    <3>2. linear' => c.parent = n
      BY <1>1
    <3> QED
      BY <3>1, <3>2
  <2>2. readable' => Readable(c, old)
    BY <1>1
  <2>3. IsCommit(c, old) /\ changes' = ChangesOf(c, old)
    BY <1>1, <1>4
  <2>4. Parent'.tree = old
    BY <1>6
  <2> HIDE DEF old
  <2> QED
    BY <1>5, <1>6, <2>1, <2>2, <2>3, <2>4 DEF CommitOK
<1>9. PhaseInv'
  BY <1>1, <1>5 DEF PhaseInv
<1>10. linear' => linear /\ Parent' = Commit
  BY <1>1, <1>4, <1>6 DEF Commit, n
<1>11. readable' => readable
  BY <1>1
<1> QED
  BY <1>1, <1>6, <1>7, <1>8, <1>9, <1>10, <1>11

\* The other steps leave the history and the list of changes alone.
LEMMA KeepCommit ==
  ASSUME LoopInv, UNCHANGED <<history, changes, linear, readable>>
  PROVE  /\ HistoryOK' /\ CommitOK' /\ Commit' = Commit /\ Parent' = Parent
         /\ NotDeleted' = NotDeleted
         /\ phase' = phase \/ (phase' \in {"write", "build", "load", "next", "crashed"} /\ phase # "next")
              => PhaseInv'
<1>1. HistoryOK'
  BY DEF LoopInv, HistoryOK
<1>2. Commit' = Commit /\ Parent' = Parent
  BY DEF Commit, Parent
<1>3. CommitOK'
  BY <1>2 DEF LoopInv, CommitOK
<1>4. NotDeleted' = NotDeleted
  BY DEF NotDeleted, InState
<1>5. phase' = phase \/ (phase' \in {"write", "build", "load", "next", "crashed"} /\ phase # "next")
              => PhaseInv'
  BY DEF LoopInv, PhaseInv
<1> QED
  BY <1>1, <1>2, <1>3, <1>4, <1>5

\* Reading a commit changes no file.
LEMMA ReadFiles ==
  ASSUME LoopInv, NEW p \in DOMAIN history, NEW t \in Trees, NEW c \in CommitsOf(p, t), GetChanges(c)
  PROVE  LoopInv'
<1>1. /\ HistoryOK' /\ CommitOK' /\ PhaseInv' /\ phase' = "remove"
      /\ linear' => linear /\ Parent' = Commit
      /\ readable' => readable
  BY ReadCommit
<1>2. phase = "next" /\ UNCHANGED <<tree, dirs, bc, loaded>>
  BY DEF GetChanges
<1>3. IInv'
  BY StepInv DEF LoopInv, Next
<1>4. TypedInv'
  BY <1>2 DEF LoopInv, TypedInv
<1>5. LinesMatch'
  BY <1>1 DEF LinesMatch
<1>6. ASSUME linear', readable' PROVE tree = Commit.tree /\ Parent' = Commit
  BY <1>1, <1>2, <1>6 DEF LoopInv, TreeInv
<1>7. TreeInv'
  BY <1>1, <1>2, <1>6 DEF TreeInv
<1>8. LoadedInv'
  <2> SUFFICES ASSUME linear', readable', NEW f \in Src,
                      loaded'[f] # NoFile, Compiles(Parent'.tree[f])
               PROVE  loaded'[f] = Parent'.tree[f]
    BY DEF LoadedInv, Compiles
  <2>1. Parent'.tree[f] = tree[f] /\ Compiles(tree[f]) /\ loaded[f] # NoFile /\ loaded' = loaded
    BY <1>2, <1>6
  <2>2. UpToDate(f) /\ SameAsFile(f) /\ bc[f] # NoFile
    BY <1>2, <2>1 DEF LoopInv, IInv, FreshInv, OnlyConfigured
  <2> QED
    BY <2>1, <2>2 DEF UpToDate, SameAsFile
<1> QED
  BY <1>1, <1>3, <1>4, <1>5, <1>7, <1>8 DEF LoopInv

\* The files of a state in the list of changes.
LEMMA InStateMember ==
  ASSUME NEW st
  PROVE  InState(st) = {changes[i].src_path : i \in {i \in DOMAIN changes : changes[i].state = st}}
BY DEF InState

\* The files that are removed are those that the commit removes.
LEMMA RemovedFiles ==
  ASSUME LoopInv, Len(history) > 1
  PROVE  /\ \A f \in InState("deleted") : f \in File /\ Parent.tree[f] # NoFile /\ Commit.tree[f] = NoFile
         /\ readable => \A f \in File :
              Parent.tree[f] # NoFile /\ Commit.tree[f] = NoFile => f \in InState("deleted")
<1>1. /\ Commit.tree \in Trees /\ Parent.tree \in Trees /\ changes \in Seq(Info)
      /\ \A i \in DOMAIN changes : Truthful(changes[i], Commit, Parent.tree)
  BY ChangeFacts DEF LoopInv
<1>2. /\ IsCommit(Commit, Parent.tree) /\ changes = ChangesOf(Commit, Parent.tree)
      /\ readable => Readable(Commit, Parent.tree)
  BY DEF LoopInv, CommitOK
<1>3. ASSUME NEW f \in InState("deleted")
      PROVE  f \in File /\ Parent.tree[f] # NoFile /\ Commit.tree[f] = NoFile
  <2>1. PICK i \in DOMAIN changes : changes[i].state = "deleted" /\ changes[i].src_path = f
    BY InStateMember
  <2>2. Truthful(changes[i], Commit, Parent.tree)
    BY <1>1
  <2> QED
    BY <2>1, <2>2 DEF Truthful, Info
<1>4. ASSUME readable, NEW f \in File, Parent.tree[f] # NoFile, Commit.tree[f] = NoFile
      PROVE  f \in InState("deleted")
  <2>1. PICK info \in Range(changes) : info.state = "deleted" /\ info.src_path = f
    BY <1>1, <1>2, <1>4, AllDeletedReported
  <2>2. PICK i \in DOMAIN changes : changes[i] = info
    BY DEF Range
  <2> QED
    BY <2>1, <2>2, InStateMember
<1> QED
  BY <1>3, <1>4

\* The files that are written are all those that the commit writes.
LEMMA WrittenFiles ==
  ASSUME LoopInv, Len(history) > 1, readable, NEW f \in File,
         Parent.tree[f] # Commit.tree[f], Commit.tree[f] # NoFile
  PROVE  f \in NotDeleted
<1>1. /\ Commit.tree \in Trees /\ Parent.tree \in Trees /\ changes \in Seq(Info)
      /\ \A i \in DOMAIN changes : Truthful(changes[i], Commit, Parent.tree)
  BY ChangeFacts DEF LoopInv
<1>2. /\ IsCommit(Commit, Parent.tree) /\ changes = ChangesOf(Commit, Parent.tree)
      /\ Readable(Commit, Parent.tree)
  BY DEF LoopInv, CommitOK
<1>3. PICK info \in Range(changes) : info.state # "deleted" /\ info.src_path = f
  BY <1>1, <1>2, AllWrittenReported
<1>4. PICK i \in DOMAIN changes : changes[i] = info
  BY DEF Range
<1>5. changes[i].state \in {"added", "modified"} /\ changes[i].src_path = f
  BY <1>1, <1>3, <1>4 DEF Truthful, Info
<1>6. f \in InState("added") \/ f \in InState("modified")
  BY <1>5, InStateMember
<1> QED
  BY <1>6 DEF NotDeleted

\* Removing the deleted files leaves a directory to every file that is left.
LEMMA StepRemove ==
  ASSUME LoopInv, RemoveFiles
  PROVE  LoopInv'
<1>1. /\ phase = "remove" /\ phase' = "write"
      /\ UNCHANGED <<history, bc, changes, loaded, updates, linear, readable>>
      /\ tree' = [f \in File |-> IF f \in InState("deleted") THEN NoFile ELSE tree[f]]
      /\ dirs' = {d \in dirs : ~Emptied(d)}
  BY DEF RemoveFiles
<1>2. Len(history) > 1
  BY <1>1 DEF LoopInv, PhaseInv
<1>3. HistoryOK' /\ CommitOK' /\ Commit' = Commit /\ Parent' = Parent /\ PhaseInv'
  BY <1>1, KeepCommit
<1>4. IInv'
  BY StepInv DEF LoopInv, Next
<1>5. /\ tree \in [File -> Version \cup {NoFile}]
      /\ bc \in [Src -> Version \cup {NoFile}] /\ loaded \in [Src -> Version \cup {NoFile}]
      /\ \A f \in File : tree[f] # NoFile => DirOf[f] \in dirs
      /\ \A f \in Src : bc[f] # NoFile => DirOf[f] \in dirs
  BY DEF LoopInv, TypedInv
<1>6. TypedInv'
  <2>1. tree' \in [File -> Version \cup {NoFile}]
    BY <1>1, <1>5
  <2>2. ASSUME NEW f \in File, tree'[f] # NoFile PROVE DirOf[f] \in dirs'
    <3>1. f \notin InState("deleted") /\ tree[f] # NoFile
      BY <1>1, <2>2
    <3> QED
      BY <1>1, <1>5, <3>1 DEF Emptied
  <2>3. ASSUME NEW f \in Src, bc'[f] # NoFile PROVE DirOf[f] \in dirs'
    BY <1>1, <1>5, <2>3 DEF Emptied
  <2> QED
    BY <1>1, <1>5, <2>1, <2>2, <2>3 DEF TypedInv
<1>7. TreeInv'
  <2> SUFFICES ASSUME linear, readable
               PROVE  tree' = [f \in File |-> IF Commit.tree[f] = NoFile THEN NoFile ELSE Parent.tree[f]]
    BY <1>1, <1>3 DEF TreeInv
  <2>1. tree = Parent.tree
    BY <1>1 DEF LoopInv, TreeInv
  <2>2. ASSUME NEW f \in File
        PROVE  (IF f \in InState("deleted") THEN NoFile ELSE tree[f])
                 = (IF Commit.tree[f] = NoFile THEN NoFile ELSE Parent.tree[f])
    <3>1. CASE f \in InState("deleted")
      BY <1>2, <3>1, RemovedFiles
    <3>2. CASE f \notin InState("deleted")
      BY <1>2, <2>1, <3>2, RemovedFiles
    <3> QED
      BY <3>1, <3>2
  <2> QED
    BY <1>1, <2>2
<1>8. LoadedInv'
  BY <1>1, <1>3 DEF LoopInv, LoadedInv, Compiles
<1>9. LinesMatch'
  BY <1>1 DEF LinesMatch
<1> QED
  BY <1>3, <1>4, <1>6, <1>7, <1>8, <1>9 DEF LoopInv

\* In a linear history that the parser can read, every file that is removed is there.
LEMMA StepRemoveFails ==
  ASSUME LoopInv, RemoveFails
  PROVE  LoopInv'
<1>1. /\ phase = "remove" /\ phase' = "crashed"
      /\ UNCHANGED <<history, tree, dirs, bc, changes, loaded, updates, linear, readable>>
  BY DEF RemoveFails
<1>2. Len(history) > 1
  BY <1>1 DEF LoopInv, PhaseInv
<1>3. HistoryOK' /\ CommitOK' /\ PhaseInv'
  BY <1>1, KeepCommit
<1>4. IInv'
  BY StepInv DEF LoopInv, Next
<1>5. TypedInv'
  BY <1>1 DEF LoopInv, TypedInv
<1>6. ~(linear /\ readable)
  <2> SUFFICES ASSUME linear, readable PROVE FALSE
    OBVIOUS
  <2>1. tree = Parent.tree
    BY <1>1 DEF LoopInv, TreeInv
  <2>2. PICK f \in InState("deleted") : tree[f] = NoFile
    BY DEF RemoveFails
  <2> QED
    BY <1>2, <2>1, <2>2, RemovedFiles
<1>7. TreeInv' /\ LoadedInv'
  BY <1>1, <1>6 DEF TreeInv, LoadedInv
<1>8. LinesMatch'
  BY <1>1 DEF LinesMatch
<1> QED
  BY <1>3, <1>4, <1>5, <1>7, <1>8 DEF LoopInv

\* Writing the added and modified files completes the tree of the commit.
LEMMA StepWrite ==
  ASSUME LoopInv, WriteFiles
  PROVE  LoopInv'
<1>1. /\ phase = "write" /\ phase' = "build"
      /\ UNCHANGED <<history, bc, changes, loaded, updates, linear, readable>>
      /\ \A i \in DOMAIN changes : ~NoDir(i)
      /\ tree' = [f \in File |-> IF f \in NotDeleted THEN Commit.tree[f] ELSE tree[f]]
      /\ dirs' = dirs \cup {DirOf[f] : f \in InState("added")}
  BY DEF WriteFiles
<1>2. Len(history) > 1
  BY <1>1 DEF LoopInv, PhaseInv
<1>3. HistoryOK' /\ CommitOK' /\ Commit' = Commit /\ Parent' = Parent /\ PhaseInv'
  BY <1>1, KeepCommit
<1>4. IInv'
  BY StepInv DEF LoopInv, Next
<1>5. /\ tree \in [File -> Version \cup {NoFile}]
      /\ bc \in [Src -> Version \cup {NoFile}] /\ loaded \in [Src -> Version \cup {NoFile}]
      /\ \A f \in File : tree[f] # NoFile => DirOf[f] \in dirs
      /\ \A f \in Src : bc[f] # NoFile => DirOf[f] \in dirs
  BY DEF LoopInv, TypedInv
<1>6. Commit.tree \in Trees /\ changes \in Seq(Info)
  BY <1>2, ChangeFacts DEF LoopInv
<1>7. TypedInv'
  <2>1. tree' \in [File -> Version \cup {NoFile}]
    <3>1. \A f \in File : Commit.tree[f] \in Version \cup {NoFile}
      BY <1>6, TreesTyped
    <3> QED
      BY <1>1, <1>5, <3>1
  <2>2. ASSUME NEW f \in File, tree'[f] # NoFile PROVE DirOf[f] \in dirs'
    <3>1. CASE f \notin NotDeleted
      BY <1>1, <1>5, <2>2, <3>1
    <3>2. CASE f \in InState("added")
      BY <1>1, <3>2
    <3>3. CASE f \in InState("modified")
      <4>1. PICK i \in DOMAIN changes : changes[i].state = "modified" /\ changes[i].src_path = f
        BY <3>3, InStateMember
      <4>2. CASE DirOf[f] \in dirs
        BY <1>1, <4>2
      <4>3. CASE DirOf[f] \notin dirs
        <5>1. PICK j \in 1 .. (i - 1) : changes[j].state = "added" /\ DirOf[changes[j].src_path] = DirOf[f]
          BY <1>1, <4>1, <4>3 DEF NoDir
        <5>2. j \in DOMAIN changes
          BY <1>6, <5>1
        <5>3. changes[j].src_path \in InState("added")
          BY <5>1, <5>2, InStateMember
        <5> QED
          BY <1>1, <5>1, <5>3
      <4> QED
        BY <4>2, <4>3
    <3> QED
      BY <3>1, <3>2, <3>3 DEF NotDeleted
  <2> QED
    BY <1>1, <1>5, <2>1, <2>2 DEF TypedInv
<1>8. TreeInv'
  <2> SUFFICES ASSUME linear, readable
               PROVE  tree' = Commit.tree
    BY <1>1, <1>3 DEF TreeInv
  <2>1. tree = [f \in File |-> IF Commit.tree[f] = NoFile THEN NoFile ELSE Parent.tree[f]]
    BY <1>1 DEF LoopInv, TreeInv
  <2>2. ASSUME NEW f \in File
        PROVE  (IF f \in NotDeleted THEN Commit.tree[f] ELSE tree[f]) = Commit.tree[f]
    <3>1. CASE f \in NotDeleted
      BY <3>1
    <3>2. CASE f \notin NotDeleted
      <4>1. Parent.tree[f] = Commit.tree[f] \/ Commit.tree[f] = NoFile
        BY <1>2, <3>2, WrittenFiles
      <4> QED
        BY <2>1, <3>2, <4>1
    <3> QED
      BY <3>1, <3>2
  <2>3. Commit.tree = [f \in File |-> Commit.tree[f]]
    <3>1. Trees \subseteq [File -> Version \cup {NoFile}]
      BY FrontendAssumption
    <3> QED
      BY <1>6, <3>1
  <2> QED
    BY <1>1, <2>2, <2>3
<1>9. LoadedInv'
  BY <1>1, <1>3 DEF LoopInv, LoadedInv, Compiles
<1>10. LinesMatch'
  BY <1>1 DEF LinesMatch
<1> QED
  BY <1>3, <1>4, <1>7, <1>8, <1>9, <1>10 DEF LoopInv

\* In such a history, a modified file is there, and so is its directory.
LEMMA StepWriteFails ==
  ASSUME LoopInv, WriteFails
  PROVE  LoopInv'
<1>1. /\ phase = "write" /\ phase' = "crashed"
      /\ UNCHANGED <<history, tree, dirs, bc, changes, loaded, updates, linear, readable>>
  BY DEF WriteFails
<1>2. Len(history) > 1
  BY <1>1 DEF LoopInv, PhaseInv
<1>3. HistoryOK' /\ CommitOK' /\ PhaseInv'
  BY <1>1, KeepCommit
<1>4. IInv'
  BY StepInv DEF LoopInv, Next
<1>5. TypedInv'
  BY <1>1 DEF LoopInv, TypedInv
<1>6. ~(linear /\ readable)
  <2> SUFFICES ASSUME linear, readable PROVE FALSE
    OBVIOUS
  <2>1. tree = [f \in File |-> IF Commit.tree[f] = NoFile THEN NoFile ELSE Parent.tree[f]]
    BY <1>1 DEF LoopInv, TreeInv
  <2>2. PICK i \in DOMAIN changes : NoDir(i)
    BY DEF WriteFails
  <2> DEFINE f == changes[i].src_path
  <2>3. changes[i].state = "modified" /\ DirOf[f] \notin dirs
    BY <2>2 DEF NoDir
  <2>4. Truthful(changes[i], Commit, Parent.tree)
    BY <1>2, ChangeFacts DEF LoopInv
  <2>5. f \in File /\ Parent.tree[f] # NoFile /\ Commit.tree[f] # NoFile
    BY <2>3, <2>4 DEF Truthful, Info
  <2> HIDE DEF f
  <2>6. tree[f] # NoFile
    BY <2>1, <2>5
  <2> QED
    BY <2>3, <2>5, <2>6 DEF LoopInv, TypedInv
<1>7. TreeInv' /\ LoadedInv'
  BY <1>1, <1>6 DEF TreeInv, LoadedInv
<1>8. LinesMatch'
  BY <1>1 DEF LinesMatch
<1> QED
  BY <1>3, <1>4, <1>5, <1>7, <1>8 DEF LoopInv

\* The build writes bitcode for files that are there only.
LEMMA StepBuild ==
  ASSUME LoopInv, Build
  PROVE  LoopInv'
<1> DEFINE targets == ToBuild \cup {f \in Configured : DirOf[f] \in ToBuildDirs}
<1>1. /\ phase = "build" /\ phase' = "load"
      /\ UNCHANGED <<history, tree, dirs, changes, loaded, updates, linear, readable>>
      /\ bc' = Make(targets, tree, bc)
  BY DEF Build
<1>2. HistoryOK' /\ CommitOK' /\ Commit' = Commit /\ Parent' = Parent /\ PhaseInv'
  BY <1>1, KeepCommit
<1>3. IInv'
  BY StepInv DEF LoopInv, Next
<1>4. /\ tree \in [File -> Version \cup {NoFile}]
      /\ bc \in [Src -> Version \cup {NoFile}] /\ loaded \in [Src -> Version \cup {NoFile}]
      /\ \A f \in File : tree[f] # NoFile => DirOf[f] \in dirs
      /\ \A f \in Src : bc[f] # NoFile => DirOf[f] \in dirs
  BY DEF LoopInv, TypedInv
<1>5. ASSUME NEW f \in Src
      PROVE  /\ bc'[f] \in Version \cup {NoFile}
             /\ bc'[f] # NoFile => DirOf[f] \in dirs
  <2>1. f \in targets /\ Compiles(tree[f]) => bc'[f] = tree[f]
    BY <1>1, MakeResult
  <2>2. f \notin targets \/ ~Compiles(tree[f]) => bc'[f] = bc[f]
    BY <1>1, MakeResult
  <2>3. f \in File
    BY SrcFiles
  <2> HIDE DEF targets
  <2> QED
    BY <1>4, <2>1, <2>2, <2>3
<1>6. bc' = [f \in Src |-> bc'[f]]
  BY <1>1 DEF Make
<1>7. TypedInv'
  <2>1. bc' \in [Src -> Version \cup {NoFile}]
    BY <1>5, <1>6
  <2> QED
    BY <1>1, <1>4, <1>5, <2>1 DEF TypedInv
<1>8. TreeInv' /\ LoadedInv'
  BY <1>1, <1>2 DEF LoopInv, TreeInv, LoadedInv, Compiles
<1>9. LinesMatch'
  BY <1>1 DEF LinesMatch
<1> QED
  BY <1>2, <1>3, <1>7, <1>8, <1>9 DEF LoopInv

\* The lines of an update belong to the versions that are exchanged.
LEMMA StepUpdate ==
  ASSUME LoopInv, UpdateModules
  PROVE  LoopInv'
<1>1. /\ phase = "load" /\ phase' = "next"
      /\ UNCHANGED <<history, tree, dirs, bc, changes, linear, readable>>
      /\ updates' = {UpdateOf(changes[i]) : i \in {i \in DOMAIN changes : WithBitcode(changes[i])}}
      /\ loaded' = [f \in Src |-> IF f \in {u.file : u \in updates'} THEN bc[f] ELSE loaded[f]]
  BY DEF UpdateModules
<1>2. Len(history) > 1
  BY <1>1 DEF LoopInv, PhaseInv
<1>3. HistoryOK' /\ CommitOK' /\ Commit' = Commit /\ Parent' = Parent /\ PhaseInv'
  BY <1>1, KeepCommit
<1>4. IInv'
  BY StepInv DEF LoopInv, Next
<1>5. TypedInv'
  BY <1>1 DEF LoopInv, TypedInv
<1>6. TreeInv' /\ LoadedInv'
  BY <1>1, <1>3 DEF LoopInv, TreeInv, LoadedInv
<1>7. LinesMatch'
  <2> SUFFICES ASSUME linear, readable, NEW u \in updates', u.state = "modified", u.pre # NoFile,
                      Compiles(Parent.tree[u.file]), Compiles(Commit.tree[u.file])
               PROVE  /\ u.pre # u.post
                      /\ IsLinesOf(DeletedIn(Edits[u.pre, u.post]), u.del_lines)
                      /\ IsLinesOf(AddedIn(Edits[u.pre, u.post]), u.add_lines)
    BY <1>1, <1>3 DEF LinesMatch, Compiles
  <2>1. PICK i \in DOMAIN changes : WithBitcode(changes[i]) /\ u = UpdateOf(changes[i])
    BY <1>1
  <2> DEFINE ch == changes[i]
             f == ch.src_path
  <2>2. /\ u.file = f /\ u.state = ch.state /\ u.pre = loaded[f] /\ u.post = bc[f]
        /\ u.del_lines = ch.del_lines /\ u.add_lines = ch.add_lines
    BY <2>1 DEF UpdateOf
  <2>3. f \in Src /\ bc[f] # NoFile
    BY <2>1 DEF WithBitcode
  <2>4. Truthful(ch, Commit, Parent.tree)
    BY <1>2, ChangeFacts DEF LoopInv
  <2> HIDE DEF ch, f
  <2>5. u.pre = Parent.tree[f]
    BY <1>1, <2>2, <2>3 DEF LoopInv, LoadedInv
  <2>6. u.post = Commit.tree[f]
    <3>1. tree = Commit.tree
      BY <1>1 DEF LoopInv, TreeInv
    <3>2. UpToDate(f)
      BY <1>1, <2>3 DEF LoopInv, IInv, FreshInv
    <3> QED
      BY <2>2, <2>3, <3>1, <3>2 DEF UpToDate
  <2>7. /\ Parent.tree[f] # Commit.tree[f]
        /\ IsLinesOf(DeletedIn(Edits[Parent.tree[f], Commit.tree[f]]), ch.del_lines)
        /\ IsLinesOf(AddedIn(Edits[Parent.tree[f], Commit.tree[f]]), ch.add_lines)
    BY <2>2, <2>4 DEF Truthful, f
  <2> QED
    BY <2>2, <2>5, <2>6, <2>7
<1> QED
  BY <1>3, <1>4, <1>5, <1>6, <1>7 DEF LoopInv

\* Nothing changes.
LEMMA StepStutter ==
  ASSUME LoopInv, UNCHANGED vars
  PROVE  LoopInv'
<1>1. UNCHANGED <<history, tree, dirs, bc, changes, loaded, updates, phase, linear, readable>>
  BY DEF vars
<1>2. HistoryOK' /\ CommitOK' /\ Commit' = Commit /\ Parent' = Parent /\ PhaseInv'
  BY <1>1, KeepCommit
<1>3. IInv'
  BY StepInv DEF LoopInv
<1>4. TypedInv'
  BY <1>1 DEF LoopInv, TypedInv
<1>5. TreeInv' /\ LoadedInv'
  BY <1>1, <1>2 DEF LoopInv, TreeInv, LoadedInv, Compiles
<1>6. LinesMatch'
  BY <1>1, <1>2 DEF LoopInv, LinesMatch, Compiles
<1> QED
  BY <1>2, <1>3, <1>4, <1>5, <1>6 DEF LoopInv

\* The step case, one action at a time.
LEMMA StepLoop ==
  LoopInv /\ [Next]_vars => LoopInv'
<1> SUFFICES ASSUME LoopInv, [Next]_vars PROVE LoopInv'
  OBVIOUS
<1>1. ASSUME NEW p \in DOMAIN history, NEW t \in Trees, NEW c \in CommitsOf(p, t), GetChanges(c)
      PROVE  LoopInv'
  BY <1>1, ReadFiles
<1>2. CASE RemoveFiles
  BY <1>2, StepRemove
<1>3. CASE RemoveFails
  BY <1>3, StepRemoveFails
<1>4. CASE WriteFiles
  BY <1>4, StepWrite
<1>5. CASE WriteFails
  BY <1>5, StepWriteFails
<1>6. CASE Build
  BY <1>6, StepBuild
<1>7. CASE UpdateModules
  BY <1>7, StepUpdate
<1>8. CASE UNCHANGED vars
  BY <1>8, StepStutter
<1> QED
  BY <1>1, <1>2, <1>3, <1>4, <1>5, <1>6, <1>7, <1>8 DEF Next

\* The invariant holds throughout.
LEMMA LoopInvariant ==
  Spec => []LoopInv
<1> QED
  BY InitLoop, StepLoop, PTL DEF Spec

-----------------------------------------------------------------------------
\* Every variable has its type, every change names a file, and a file or a
\* bitcode file lies in a directory that exists (entry.py:60-164).
THEOREM TypeCorrect ==
  Spec => []TypeOK
<1>1. LoopInv => TypeOK
  <2> SUFFICES ASSUME LoopInv PROVE TypeOK
    OBVIOUS
  <2>1. HistoryOK /\ PhaseInv /\ TypedInv
    BY DEF LoopInv
  <2>2. ASSUME NEW i \in DOMAIN changes PROVE changes[i].src_path \in File
    <3>1. CASE Len(history) = 1
      BY <3>1, <2>2 DEF LoopInv, CommitOK
    <3>2. CASE Len(history) > 1
      <4>1. Truthful(changes[i], Commit, Parent.tree)
        BY <3>2, ChangeFacts DEF LoopInv
      <4> QED
        BY <4>1 DEF Truthful, Info
    <3>3. Len(history) = 1 \/ Len(history) > 1
      <4>1. MaxCommits \in Nat
        BY FrontendAssumption
      <4>2. Len(history) \in 1 .. (MaxCommits + 1)
        BY <2>1 DEF HistoryOK
      <4>3. \A n \in 1 .. (MaxCommits + 1) : n = 1 \/ n > 1
        BY <4>1
      <4> QED
        BY <4>2, <4>3, Zenon
    <3> QED
      BY <3>1, <3>2, <3>3
  <2> QED
    BY <2>1, <2>2 DEF TypeOK, HistoryOK, PhaseInv, TypedInv
<1> QED
  BY <1>1, LoopInvariant, PTL

\* In a linear history that the parser can read, the work tree is the tree of
\* the commit when its files are built (_UpdateRepo of entry.py).
THEOREM TreeIsExact ==
  Spec => []TreeExact
<1>1. LoopInv => TreeExact
  BY DEF LoopInv, TreeInv, TreeExact
<1> QED
  BY <1>1, LoopInvariant, PTL

\* In such a history os.remove and open never raise: what is removed is
\* there, and what is modified has its directory (_UpdateRepo of entry.py).
THEOREM NeverCrashes ==
  Spec => []NoCrash
<1>1. LoopInv => NoCrash
  BY DEF LoopInv, TreeInv, NoCrash
<1> QED
  BY <1>1, LoopInvariant, PTL

\* The line numbers that cisa.UpdateModules gets with a modified module belong
\* to the two versions that it exchanges, unless one of them does not compile.
THEOREM LineNumbersMatch ==
  Spec => []LinesMatch
<1>1. LoopInv => LinesMatch
  BY DEF LoopInv
<1> QED
  BY <1>1, LoopInvariant, PTL

\* A hunk of an edit is a hunk of the section.
LEMMA HunkOfEdit ==
  ASSUME NEW old \in Trees, NEW c, IsCommit(c, old), NEW f \in File, old[f] # c.tree[f],
         \A r \in c.renames : f # r[1] /\ f # r[2],
         \E i \in DOMAIN Edits[old[f], c.tree[f]] : Edits[old[f], c.tree[f]][i] # "."
  PROVE  HasHunk(SectionOf(c, old, f))
<1> DEFINE s == SectionOf(c, old, f)
<1>1. Differ(c, old, f) /\ \A r \in c.renames : r[2] # f
  BY DEF Differ
<1>2. IsPlain(s, c, old, f)
  BY <1>1, PlainSection
<1> HIDE DEF s
<1>3. s.edits = Edits[old[f], c.tree[f]]
  BY <1>2 DEF IsPlain
<1>4. HasHunk(s)
  BY <1>3 DEF HasHunk
<1> QED
  BY <1>4 DEF s

\* Whatever else git prints, a file with hunks, its own name and no new mode
\* is reported with its state and lines, and only what the commit touches is
\* reported (GetChangeInfos of comanal.py).
THEOREM AllHunksReported ==
  Spec => []HunksReported
<1>1. LoopInv => HunksReported
  <2> SUFFICES ASSUME LoopInv, phase = "remove", ~Commit.at_in_message PROVE HunksReported
    BY DEF HunksReported
  <2>1. Len(history) > 1
    BY DEF LoopInv, PhaseInv
  <2>2. /\ Commit.tree \in Trees /\ Parent.tree \in Trees
        /\ \A i \in DOMAIN changes : Truthful(changes[i], Commit, Parent.tree)
    BY <2>1, ChangeFacts DEF LoopInv
  <2>3. IsCommit(Commit, Parent.tree) /\ changes = ChangesOf(Commit, Parent.tree)
    BY <2>1 DEF LoopInv, CommitOK
  <2>4. ASSUME NEW f \in File, Parent.tree[f] # Commit.tree[f], f \notin Commit.modes,
               \A r \in Commit.renames : f \notin {r[1], r[2]},
               \E i \in DOMAIN Edits[Parent.tree[f], Commit.tree[f]] :
                 Edits[Parent.tree[f], Commit.tree[f]][i] # "."
        PROVE  \E i \in DOMAIN changes :
                 /\ changes[i].src_path = f
                 /\ changes[i].state = IF Parent.tree[f] = NoFile THEN "added"
                                       ELSE IF Commit.tree[f] = NoFile THEN "deleted" ELSE "modified"
                 /\ changes[i].state # "deleted" =>
                      /\ IsLinesOf(DeletedIn(Edits[Parent.tree[f], Commit.tree[f]]), changes[i].del_lines)
                      /\ IsLinesOf(AddedIn(Edits[Parent.tree[f], Commit.tree[f]]), changes[i].add_lines)
    <3>1. \A r \in Commit.renames : f # r[1] /\ f # r[2]
      BY <2>4
    <3>2. HasHunk(SectionOf(Commit, Parent.tree, f))
      BY <2>2, <2>3, <2>4, <3>1, HunkOfEdit
    <3>3. PICK info \in Range(changes) :
            /\ info.src_path = f
            /\ info.state = IF Parent.tree[f] = NoFile THEN "added"
                            ELSE IF Commit.tree[f] = NoFile THEN "deleted" ELSE "modified"
            /\ info.state # "deleted" =>
                 /\ IsLinesOf(DeletedIn(Edits[Parent.tree[f], Commit.tree[f]]), info.del_lines)
                 /\ IsLinesOf(AddedIn(Edits[Parent.tree[f], Commit.tree[f]]), info.add_lines)
      BY <2>2, <2>3, <2>4, <3>1, <3>2, HunkReported
    <3>4. PICK i \in DOMAIN changes : changes[i] = info
      BY DEF Range
    <3> QED
      BY <3>3, <3>4
  <2>5. ASSUME NEW i \in DOMAIN changes
        PROVE  \/ Parent.tree[changes[i].src_path] # Commit.tree[changes[i].src_path]
               \/ changes[i].src_path \in Commit.modes
    BY <2>2 DEF Truthful
  <2> QED
    BY <2>4, <2>5 DEF HunksReported
<1> QED
  BY <1>1, LoopInvariant, PTL
=============================================================================
