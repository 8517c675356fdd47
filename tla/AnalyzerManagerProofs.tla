------------------------ MODULE AnalyzerManagerProofs ------------------------
(***************************************************************************)
(* Proofs about AnalyzerManager, for any files, versions, tags and number  *)
(* of commits: nothing is left on freed functions, the functions of a      *)
(* commit are aggregated with the tags of their new version, a function    *)
(* whose first line stays keeps its results, and as long as commits edit   *)
(* bodies in place the analysis is as good as one from scratch.            *)
(***************************************************************************)
EXTENDS AnalyzerManager, DiffLinesProofs

LEMMA FuncNamesAreNames ==
  \A t : FuncNames(t) \subseteq Name
BY DEF FuncNames

LEMMA ExtractsAreTags ==
  \A t, f : Extract(t, f) \subseteq Tag
BY DEF Extract

\* Functions have a type.
LEMMA FuncsTyped ==
  ASSUME NEW p \in Path, NEW g \in Nat, NEW t
  PROVE  FuncsIn(p, g, t) \subseteq Func
BY FuncNamesAreNames DEF FuncsIn, Func

LEMMA LiveTyped ==
  ASSUME gen \in [Path -> Nat]
  PROVE  LiveFuncs \subseteq Func /\ \A F \in LiveFuncs : F \in NewFuncs(F.path) /\ F.path \in Path
<1>1. \A p \in Path : NewFuncs(p) \subseteq Func
  BY FuncsTyped DEF NewFuncs
<1>2. \A p \in Path : \A F \in NewFuncs(p) : F.path = p
  BY DEF NewFuncs, FuncsIn
<1> QED
  BY <1>1, <1>2 DEF LiveFuncs

LEMMA TagSets ==
  ASSUME tags \subseteq Func \X Tag, res \subseteq Func \X Tag
  PROVE  \A F : TagsOf(F) \subseteq Tag /\ ResOf(F) \subseteq Tag /\ Aggregated(F) \subseteq Tag
<1>1. \A x \in tags \cup res : x[2] \in Tag
  OBVIOUS
<1>2. \A F : TagsOf(F) \subseteq Tag /\ ResOf(F) \subseteq Tag
  BY <1>1 DEF TagsOf, ResOf
<1>3. ASSUME NEW F PROVE Aggregated(F) \subseteq Tag
  <2>1. \A S : S \subseteq Tag => OrAll(S) \subseteq Tag
    BY DEF OrAll
  <2>2. UNION {TagsOf(G) : G \in {H \in LiveFuncs : H = F \/ <<F.name, H.name>> \in Reaches}}
          \subseteq Tag
    BY <1>2
  <2> QED
    BY <2>1, <2>2 DEF Aggregated
<1> QED
  BY <1>2, <1>3

-----------------------------------------------------------------------------
(* The inductive invariant. *)

\* In between, tags and results may still hang on the old functions of files
\* that _CorrectChanges has not finished.
NoStray ==
  \A x \in tags \cup res :
    x[1] \in LiveFuncs \/ \E p \in uncorrected : x[1] \in OldFuncs(p)

PhaseInv == phase # "correct" => uncorrected = {}

IInv == TypeOK /\ NoStray /\ PhaseInv /\ ChangedFresh

THEOREM InitInv ==
  Init => IInv
<1> SUFFICES ASSUME Init PROVE IInv
  OBVIOUS
<1>1. /\ text \in [Path -> AllTexts] /\ old_text = text
      /\ gen = [p \in Path |-> 1] /\ res = {} /\ up_paths = {} /\ uncorrected = {}
      /\ unmatched = {} /\ phase = "ready" /\ commits = 0 /\ ~do_agg /\ in_place
      /\ do_agg \in BOOLEAN /\ in_place \in BOOLEAN
  BY DEF Init
<1>2. gen \in [Path -> Nat]
  BY <1>1
<1>3. \A x \in tags : \E p \in Path : \E f \in FuncNames(text[p]) :
        x[1] = [path |-> p, gen |-> 1, name |-> f] /\ x \in {x[1]} \X Extract(text[p], f)
  <2>1. tags = UNION {{[path |-> y[1], gen |-> 1, name |-> y[2]]} \X Extract(text[y[1]], y[2]) :
                        y \in {z \in Path \X Name : z[2] \in FuncNames(text[z[1]])}}
    BY DEF Init
  <2> TAKE x \in tags
  <2>2. PICK y \in Path \X Name :
          /\ y[2] \in FuncNames(text[y[1]])
          /\ x \in {[path |-> y[1], gen |-> 1, name |-> y[2]]} \X Extract(text[y[1]], y[2])
    BY <2>1
  <2>3. x[1] = [path |-> y[1], gen |-> 1, name |-> y[2]] /\ x \in {x[1]} \X Extract(text[y[1]], y[2])
    BY <2>2
  <2> WITNESS y[1] \in Path
  <2> QED
    BY <2>2, <2>3
<1>4. \A x \in tags : x[1] \in LiveFuncs
  <2> SUFFICES ASSUME NEW p \in Path, NEW f \in FuncNames(text[p])
               PROVE  [path |-> p, gen |-> 1, name |-> f] \in LiveFuncs
    BY <1>3
  <2>1. [path |-> p, gen |-> 1, name |-> f] \in NewFuncs(p)
    BY <1>1 DEF NewFuncs, FuncsIn
  <2> QED
    BY <2>1 DEF LiveFuncs
<1>5. tags \subseteq Func \X Tag
  BY <1>2, <1>3, <1>4, LiveTyped, ExtractsAreTags
<1>6. TypeOK
  BY <1>1, <1>2, <1>5, TextsAssumption DEF TypeOK
<1> QED
  BY <1>1, <1>4, <1>6 DEF IInv, NoStray, PhaseInv, ChangedFresh

\* Update gives the functions with added lines their tags, and leaves the
\* tags of the others.
LEMMA UpdateResult ==
  ASSUME UpdateFuncs, NEW F \in PostFuncs
  PROVE  TagsOf(F)' = Extract(text[F.path], F.name)
<1>1. tags' = {x \in tags : x[1] \notin PostFuncs} \cup
              UNION {{G} \X Extract(text[G.path], G.name) : G \in PostFuncs}
  BY DEF UpdateFuncs
<1>2. ASSUME NEW t \in Extract(text[F.path], F.name) PROVE t \in TagsOf(F)'
  <2>1. <<F, t>> \in {F} \X Extract(text[F.path], F.name)
    OBVIOUS
  <2>2. <<F, t>> \in tags'
    BY <1>1, <2>1
  <2> QED
    BY <2>2 DEF TagsOf
<1>3. ASSUME NEW x \in tags', x[1] = F PROVE x[2] \in Extract(text[F.path], F.name)
  BY <1>1, <1>3
<1> QED
  BY <1>2, <1>3 DEF TagsOf

LEMMA PostFuncsLive == PostFuncs \subseteq LiveFuncs
BY DEF PostFuncs

\* The first step of a commit: what was live is live or old.
LEMMA BeginKeeps ==
  ASSUME IInv, NEW U \in SUBSET Path, NEW new \in [U -> AllTexts], NEW agg \in BOOLEAN,
         BeginCommit(U, new, agg)
  PROVE  IInv'
<1>1. /\ phase = "ready" /\ phase' = "correct" /\ up_paths' = U /\ uncorrected' = U
      /\ old_text' = text /\ tags' = tags /\ do_agg' = agg
      /\ text' = [p \in Path |-> IF p \in U THEN new[p] ELSE text[p]]
      /\ gen' = [p \in Path |-> IF p \in U THEN gen[p] + 1 ELSE gen[p]]
      /\ unmatched' = UNION {FuncsIn(p, gen[p] + 1, new[p]) : p \in U}
      /\ commits < MaxCommits /\ commits' = commits + 1
  BY DEF BeginCommit
<1>2. TypeOK /\ NoStray /\ uncorrected = {}
  BY <1>1 DEF IInv, PhaseInv
<1>3. gen \in [Path -> Nat] /\ text \in [Path -> AllTexts]
      /\ gen' \in [Path -> Nat] /\ text' \in [Path -> AllTexts]
  BY <1>1, <1>2 DEF TypeOK
<1>4. PICK ci \in [U -> UNION {DiffsOf(text[p], new[p]) : p \in U}] :
        /\ \A p \in U : ci[p] \in DiffsOf(text[p], new[p])
        /\ cis' = ci
        /\ in_place' = (in_place /\ \A p \in U : InPlace(text[p], new[p], ci[p]))
        /\ LET pre_funcs == {F \in LiveFuncs :
                              F.path \in U /\ F.name \in ChangedFuncs(text[F.path], ci[F.path].del)}
           IN  res' = IF agg THEN UNION {{F} \X Aggregated(F) : F \in pre_funcs} ELSE {}
  BY DEF BeginCommit
<1>5. \A x \in res' : x[1] \in LiveFuncs /\ x \in {x[1]} \X Tag
  BY <1>2, <1>4, TagSets DEF TypeOK
<1>6. \A F \in LiveFuncs : F \in LiveFuncs' \/ \E p \in uncorrected' : F \in OldFuncs(p)'
  <2> SUFFICES ASSUME NEW p \in Path, NEW F \in NewFuncs(p)
               PROVE  F \in LiveFuncs' \/ (p \in U /\ F \in OldFuncs(p)')
    BY <1>1 DEF LiveFuncs
  <2>1. CASE p \in U
    <3>1. gen'[p] - 1 = gen[p] /\ old_text'[p] = text[p]
      BY <1>1, <1>3, <2>1
    <3> QED
      BY <2>1, <3>1 DEF OldFuncs, NewFuncs
  <2>2. CASE p \notin U
    <3>1. NewFuncs(p)' = NewFuncs(p)
      BY <1>1, <2>2 DEF NewFuncs, FuncsIn
    <3> QED
      BY <3>1 DEF LiveFuncs
  <2> QED
    BY <2>1, <2>2
<1>7. NoStray'
  <2>1. \A x \in tags \cup res' : x[1] \in LiveFuncs
    BY <1>2, <1>5 DEF NoStray
  <2> QED
    BY <1>1, <1>6, <2>1 DEF NoStray
<1>8. unmatched' \subseteq LiveFuncs'
  <2> SUFFICES ASSUME NEW p \in U PROVE FuncsIn(p, gen[p] + 1, new[p]) \subseteq LiveFuncs'
    BY <1>1
  <2>1. FuncsIn(p, gen[p] + 1, new[p]) = NewFuncs(p)'
    BY <1>1 DEF NewFuncs, FuncsIn
  <2> QED
    BY <2>1 DEF LiveFuncs
<1>9. \A p \in up_paths' : cis'[p] \in DiffsOf(old_text'[p], text'[p])
  BY <1>1, <1>4
<1>10. res' \subseteq Func \X Tag
  BY <1>3, <1>5, LiveTyped
<1>11. commits' \in 0 .. MaxCommits /\ in_place' \in BOOLEAN
  BY <1>1, <1>2, <1>4, TextsAssumption DEF TypeOK
<1>12. TypeOK'
  BY <1>1, <1>2, <1>3, <1>8, <1>9, <1>10, <1>11 DEF TypeOK, DiffsOf, DiffTable
<1> QED
  BY <1>1, <1>7, <1>12 DEF IInv, PhaseInv, ChangedFresh

THEOREM StepInv ==
  IInv /\ [Next]_vars => IInv'
<1> SUFFICES ASSUME IInv, [Next]_vars PROVE IInv'
  OBVIOUS
<1>0. TypeOK /\ NoStray /\ PhaseInv /\ ChangedFresh
  BY DEF IInv
<1>1. ASSUME NEW U \in (SUBSET Path) \ {{}}, NEW new \in [U -> AllTexts], NEW agg \in BOOLEAN,
             BeginCommit(U, new, agg)
      PROVE  IInv'
  BY <1>1, BeginKeeps
<1>a. ASSUME UNCHANGED <<text, gen, old_text>>
      PROVE  LiveFuncs' = LiveFuncs /\ \A p : OldFuncs(p)' = OldFuncs(p)
  BY <1>a DEF LiveFuncs, NewFuncs, OldFuncs, FuncsIn
<1>2. ASSUME NEW F \in unmatched, MatchFunction(F) PROVE IInv'
  <2>1. /\ phase = "correct" /\ unmatched' = unmatched \ {F}
        /\ UNCHANGED <<text, gen, old_text, cis, up_paths, do_agg, commits, in_place, uncorrected, phase>>
    BY <1>2 DEF MatchFunction, fileVars, commitVars
  <2>2. PICK G : /\ tags' = {x \in tags : x[1] \notin {F, G}} \cup ({F} \X TagsOf(G))
                 /\ res' = res \cup ({F} \X ResOf(G))
    BY <1>2 DEF MatchFunction
  <2>3. F \in LiveFuncs /\ F \in Func
    BY <1>0, LiveTyped DEF TypeOK
  <2>4. LiveFuncs' = LiveFuncs /\ \A p : OldFuncs(p)' = OldFuncs(p)
    BY <1>a, <2>1
  <2>5. tags' \subseteq Func \X Tag /\ res' \subseteq Func \X Tag
    BY <1>0, <2>2, <2>3, TagSets DEF TypeOK
  <2>6. NoStray'
    BY <1>0, <2>1, <2>2, <2>3, <2>4 DEF NoStray
  <2>7. TypeOK'
    BY <1>0, <2>1, <2>4, <2>5 DEF TypeOK, DiffsOf
  <2> QED
    BY <2>1, <2>6, <2>7 DEF IInv, PhaseInv, ChangedFresh
<1>3. ASSUME NEW F \in unmatched, NoMatch(F) PROVE IInv'
  <2>1. /\ phase = "correct" /\ unmatched' = unmatched \ {F}
        /\ UNCHANGED <<text, gen, old_text, cis, up_paths, do_agg, commits, in_place, uncorrected,
                       phase, tags, res>>
    BY <1>3 DEF NoMatch, fileVars, commitVars
  <2>2. LiveFuncs' = LiveFuncs /\ \A p : OldFuncs(p)' = OldFuncs(p)
    BY <1>a, <2>1
  <2>3. TypeOK'
    BY <1>0, <2>1, <2>2 DEF TypeOK, DiffsOf
  <2> QED
    BY <1>0, <2>1, <2>2, <2>3 DEF IInv, NoStray, PhaseInv, ChangedFresh
<1>4. ASSUME NEW p \in Path, RemoveOld(p) PROVE IInv'
  <2>1. /\ phase = "correct" /\ p \in uncorrected /\ uncorrected' = uncorrected \ {p}
        /\ phase' = IF uncorrected = {p} THEN "update" ELSE "correct"
        /\ tags' = {x \in tags : x[1] \notin OldFuncs(p)}
        /\ res' = {x \in res : x[1] \notin OldFuncs(p)}
        /\ UNCHANGED <<text, gen, old_text, cis, up_paths, do_agg, commits, in_place, unmatched>>
    BY <1>4 DEF RemoveOld, RedefFuncs, fileVars, commitVars
  <2>2. LiveFuncs' = LiveFuncs /\ \A q : OldFuncs(q)' = OldFuncs(q)
    BY <1>a, <2>1
  <2>3. NoStray'
    BY <1>0, <2>1, <2>2 DEF NoStray
  <2>4. TypeOK'
    BY <1>0, <2>1, <2>2 DEF TypeOK, DiffsOf
  <2> QED
    BY <2>1, <2>3, <2>4 DEF IInv, PhaseInv, ChangedFresh
<1>5. CASE UpdateFuncs
  <2>1. /\ phase = "update" /\ phase' = "aggregate"
        /\ tags' = {x \in tags : x[1] \notin PostFuncs} \cup
                   UNION {{F} \X Extract(text[F.path], F.name) : F \in PostFuncs}
        /\ UNCHANGED <<text, gen, old_text, cis, up_paths, do_agg, commits, in_place, uncorrected,
                       unmatched, res>>
    BY <1>5 DEF UpdateFuncs, fileVars, commitVars
  <2>2. LiveFuncs' = LiveFuncs /\ \A p : OldFuncs(p)' = OldFuncs(p)
    BY <1>a, <2>1
  <2>3. PostFuncs' = PostFuncs
    BY <2>1, <2>2 DEF PostFuncs
  <2>4. ChangedFresh'
    BY <1>5, <2>1, <2>3, UpdateResult DEF ChangedFresh
  <2>5. \A x \in tags' : x \in tags \/ (x[1] \in LiveFuncs /\ x \in Func \X Tag)
    BY <1>0, <2>1, PostFuncsLive, LiveTyped, ExtractsAreTags DEF TypeOK
  <2>6. NoStray'
    BY <1>0, <2>1, <2>2, <2>5 DEF NoStray
  <2>7. TypeOK'
    BY <1>0, <2>1, <2>2, <2>5 DEF TypeOK, DiffsOf
  <2> QED
    BY <1>0, <2>1, <2>4, <2>6, <2>7 DEF IInv, PhaseInv
<1>6. CASE AggregateFuncs
  <2>1. /\ phase = "aggregate" /\ phase' = "ready"
        /\ res' = IF do_agg THEN res \cup UNION {{F} \X Aggregated(F) : F \in PostFuncs} ELSE res
        /\ UNCHANGED <<text, gen, old_text, cis, up_paths, do_agg, commits, in_place, uncorrected,
                       unmatched, tags>>
    BY <1>6 DEF AggregateFuncs, fileVars, commitVars
  <2>2. LiveFuncs' = LiveFuncs /\ \A p : OldFuncs(p)' = OldFuncs(p)
    BY <1>a, <2>1
  <2>3. \A x \in res' : x \in res \/ (x[1] \in LiveFuncs /\ x \in Func \X Tag)
    BY <1>0, <2>1, PostFuncsLive, LiveTyped, TagSets DEF TypeOK
  <2>4. NoStray'
    BY <1>0, <2>1, <2>2, <2>3 DEF NoStray
  <2>5. TypeOK'
    BY <1>0, <2>1, <2>2, <2>3 DEF TypeOK, DiffsOf
  <2> QED
    BY <1>0, <2>1, <2>4, <2>5 DEF IInv, PhaseInv, ChangedFresh
<1>7. CASE UNCHANGED vars
  <2>1. UNCHANGED <<text, gen, old_text, cis, up_paths, do_agg, commits, in_place, uncorrected,
                    unmatched, tags, res, phase>>
    BY <1>7 DEF vars, fileVars, commitVars
  <2>2. LiveFuncs' = LiveFuncs /\ \A p : OldFuncs(p)' = OldFuncs(p)
    BY <1>a, <2>1
  <2>3. TypeOK' /\ NoStray' /\ PhaseInv'
    BY <1>0, <2>1, <2>2 DEF TypeOK, DiffsOf, NoStray, PhaseInv
  <2>4. PostFuncs' = PostFuncs /\ \A F : TagsOf(F)' = TagsOf(F)
    BY <2>1, <2>2 DEF PostFuncs, TagsOf
  <2>5. ChangedFresh'
    BY <1>0, <2>1, <2>4 DEF ChangedFresh
  <2> QED
    BY <2>3, <2>5 DEF IInv
<1> QED
  BY <1>1, <1>2, <1>3, <1>4, <1>5, <1>6, <1>7 DEF Next

-----------------------------------------------------------------------------
THEOREM Inductive ==
  Spec => []IInv
BY InitInv, StepInv, PTL DEF Spec

\* Every variable keeps its type: tags and results are keyed by functions,
\* and the lines of a file are a diff of its last two versions.
THEOREM TypeCorrect ==
  Spec => []TypeOK
<1>1. IInv => TypeOK
  BY DEF IInv
<1> QED
  BY <1>1, Inductive, PTL

\* Between commits no tag and no result hangs on a freed function, whatever
\* the diffs and in whatever order _CorrectChanges takes files and functions.
THEOREM NothingOnFreed ==
  Spec => []NoTagOnFreed
<1>1. IInv => NoTagOnFreed
  BY DEF IInv, NoStray, PhaseInv, NoTagOnFreed
<1> QED
  BY <1>1, Inductive, PTL

\* When results are aggregated, the functions with added lines have exactly
\* the tags of their new version.
THEOREM ChangedAreFresh ==
  Spec => []ChangedFresh
<1>1. IInv => ChangedFresh
  BY DEF IInv
<1> QED
  BY <1>1, Inductive, PTL

-----------------------------------------------------------------------------
(* What the search of _CorrectChanges finds: a line that a diff leaves     *)
(* alone is found from where it has moved, and no other function starts    *)
(* there.                                                                  *)

LEMMA HeadIsUnique ==
  ASSUME NEW t \in AllTexts, NEW f \in FuncNames(t)
  PROVE  /\ Len(t) \in Nat /\ f \in Name
         /\ HeadLine(t, f) \in 1 .. Len(t) /\ t[HeadLine(t, f)] = f
         /\ \A i \in 1 .. Len(t) : t[i] = f => i = HeadLine(t, f)
<1>1. PICK p \in Path : t \in Texts[p]
  BY DEF AllTexts
<1>2. t \in Seq(Line) /\ \A i, j \in 1 .. Len(t) : t[i] = t[j] /\ t[i] \in Name => i = j
  BY <1>1, TextsAssumption
<1>3. f \in Name /\ \E i \in 1 .. Len(t) : t[i] = f
  BY DEF FuncNames
<1>4. HeadLine(t, f) \in 1 .. Len(t) /\ t[HeadLine(t, f)] = f
  BY <1>3 DEF HeadLine
<1>5. Len(t) \in Nat
  BY <1>2
<1> QED
  BY <1>2, <1>3, <1>4, <1>5

LEMMA DiffFacts ==
  ASSUME NEW o, NEW n, NEW d \in DiffsOf(o, n)
  PROVE  /\ d.del \in SUBSET (1 .. Len(o)) /\ d.add \in SUBSET (1 .. Len(n))
         /\ IsDiff(o, n, d.del, d.add)
<1>1. PICK y \in DiffTable : y[1] = <<o, n>> /\ d = y[2]
  BY DEF DiffsOf
<1>2. PICK x : y \in {x} \X Diffs(x[1], x[2])
  BY DEF DiffTable
<1>3. x = <<o, n>> /\ d \in Diffs(x[1], x[2])
  BY <1>1, <1>2
<1>4. d \in Diffs(o, n)
  BY <1>3
<1> QED
  BY <1>4 DEF Diffs

\* A head line that is not deleted is in the new version, and is mapped back.
LEMMA HeadSurvives ==
  ASSUME NEW o \in AllTexts, NEW n \in AllTexts, NEW d \in DiffsOf(o, n),
         NEW f \in FuncNames(o), HeadLine(o, f) \notin d.del
  PROVE  /\ f \in FuncNames(n)
         /\ MapPostToPreLine(d.add, d.del, HeadLine(n, f)) = HeadLine(o, f)
<1>1. /\ d.del \in SUBSET (1 .. Len(o)) /\ d.add \in SUBSET (1 .. Len(n))
      /\ IsDiff(o, n, d.del, d.add)
  BY DiffFacts
<1>2. /\ Len(o) \in Nat /\ f \in Name
      /\ HeadLine(o, f) \in (1 .. Len(o)) \ d.del /\ o[HeadLine(o, f)] = f
  BY HeadIsUnique
<1>3. Len(n) \in Nat
  BY TextsAssumption DEF AllTexts
<1> DEFINE i == HeadLine(o, f)
<1>4. PICK j \in (1 .. Len(n)) \ d.add :
        Rank(d.del, i) = Rank(d.add, j) /\ MapPostToPreLine(d.add, d.del, j) = i
  <2>1. Len(o) - Cardinality(d.del) = Len(n) - Cardinality(d.add)
    BY <1>1 DEF IsDiff
  <2>2. i \in (1 .. Len(o)) \ d.del
    BY <1>2
  <2> HIDE DEF i
  <2> QED
    BY <1>1, <1>2, <1>3, <2>1, <2>2, SurvivorFound
<1>5. n[j] = f
  BY <1>1, <1>2, <1>4 DEF IsDiff
<1>6. f \in FuncNames(n)
  BY <1>2, <1>5 DEF FuncNames
<1>7. j = HeadLine(n, f)
  BY <1>5, <1>6, HeadIsUnique
<1> QED
  BY <1>4, <1>6, <1>7

\* A head line that is not added was in the old version.
LEMMA HeadWasThere ==
  ASSUME NEW o \in AllTexts, NEW n \in AllTexts, NEW d \in DiffsOf(o, n),
         NEW f \in FuncNames(n), HeadLine(n, f) \notin d.add
  PROVE  f \in FuncNames(o)
<1>1. /\ d.del \in SUBSET (1 .. Len(o)) /\ d.add \in SUBSET (1 .. Len(n))
      /\ IsDiff(o, n, d.del, d.add)
  BY DiffFacts
<1>2. /\ Len(n) \in Nat /\ f \in Name
      /\ HeadLine(n, f) \in (1 .. Len(n)) \ d.add /\ n[HeadLine(n, f)] = f
  BY HeadIsUnique
<1>3. Len(o) \in Nat
  BY TextsAssumption DEF AllTexts
<1> DEFINE j == HeadLine(n, f)
<1>4. PICK i \in (1 .. Len(o)) \ d.del :
        Rank(d.add, j) = Rank(d.del, i) /\ MapPostToPreLine(d.del, d.add, i) = j
  <2>1. Len(n) - Cardinality(d.add) = Len(o) - Cardinality(d.del)
    BY <1>1 DEF IsDiff
  <2>2. j \in (1 .. Len(n)) \ d.add
    BY <1>2
  <2> HIDE DEF j
  <2> QED
    BY <1>1, <1>2, <1>3, <2>1, <2>2, SurvivorFound
<1>5. o[i] = f
  BY <1>1, <1>2, <1>4 DEF IsDiff
<1> QED
  BY <1>2, <1>5 DEF FuncNames

\* An edit in place keeps the functions and their head lines.
LEMMA InPlaceKeeps ==
  ASSUME NEW o \in AllTexts, NEW n \in AllTexts, NEW d \in DiffsOf(o, n), InPlace(o, n, d)
  PROVE  FuncNames(n) = FuncNames(o) /\ \A f \in FuncNames(o) : HeadLine(o, f) \notin d.del
<1>1. ASSUME NEW f \in FuncNames(o) PROVE HeadLine(o, f) \notin d.del
  BY HeadIsUnique DEF InPlace
<1>2. ASSUME NEW f \in FuncNames(n) PROVE HeadLine(n, f) \notin d.add
  BY HeadIsUnique DEF InPlace
<1>3. \A f \in FuncNames(o) : f \in FuncNames(n)
  BY <1>1, HeadSurvives
<1>4. \A f \in FuncNames(n) : f \in FuncNames(o)
  BY <1>2, HeadWasThere
<1> QED
  BY <1>1, <1>3, <1>4

-----------------------------------------------------------------------------
(* The new and the old function of a name. *)

NewOf(p, f) == [path |-> p, gen |-> gen[p], name |-> f]
OldOf(p, f) == [path |-> p, gen |-> gen[p] - 1, name |-> f]

LEMMA LiveChar ==
  ASSUME TypeOK
  PROVE  /\ \A F : F \in LiveFuncs <=> \E p \in Path : \E f \in FuncNames(text[p]) : F = NewOf(p, f)
         /\ \A F \in LiveFuncs : F = NewOf(F.path, F.name) /\ F.name \in FuncNames(text[F.path])
         /\ \A p \in Path : \A F : F \in OldFuncs(p) <=> \E f \in FuncNames(old_text[p]) : F = OldOf(p, f)
         /\ \A p, q \in Path : \A f, g : OldOf(p, f) # NewOf(q, g)
<1>1. \A F : F \in LiveFuncs <=> \E p \in Path : \E f \in FuncNames(text[p]) : F = NewOf(p, f)
  BY DEF LiveFuncs, NewFuncs, FuncsIn, NewOf
<1>2. \A F \in LiveFuncs : F = NewOf(F.path, F.name) /\ F.name \in FuncNames(text[F.path])
  BY <1>1 DEF NewOf
<1>3. \A p \in Path : \A F : F \in OldFuncs(p) <=> \E f \in FuncNames(old_text[p]) : F = OldOf(p, f)
  BY DEF OldFuncs, FuncsIn, OldOf
<1>4. ASSUME NEW p \in Path, NEW q \in Path, NEW f, NEW g, OldOf(p, f) = NewOf(q, g)
      PROVE  FALSE
  <2>1. p = q /\ gen[p] - 1 = gen[q]
    BY <1>4 DEF OldOf, NewOf
  <2>2. gen[p] \in Nat
    BY DEF TypeOK
  <2> QED
    BY <2>1, <2>2
<1> QED
  BY <1>1, <1>2, <1>3, <1>4

\* A function whose head line is not deleted is matched with its old self.
LEMMA OnlyMatch ==
  ASSUME TypeOK, NEW p \in up_paths, NEW f \in FuncNames(old_text[p]),
         HeadLine(old_text[p], f) \notin cis[p].del
  PROVE  f \in FuncNames(text[p]) /\ Matching(NewOf(p, f)) = {OldOf(p, f)}
<1> DEFINE F == NewOf(p, f)
           G == OldOf(p, f)
           o == old_text[p]
           pre == MapPostToPreLine(cis[p].add, cis[p].del, HeadLine(text[p], f))
<1>1. p \in Path /\ o \in AllTexts /\ text[p] \in AllTexts /\ cis[p] \in DiffsOf(o, text[p])
  BY DEF TypeOK
<1>2. f \in FuncNames(text[p]) /\ pre = HeadLine(o, f)
  BY <1>1, HeadSurvives
<1>3. F.path = p /\ F.name = f
  BY DEF NewOf
<1>4. \A g : OldOf(p, g).path = p /\ OldOf(p, g).name = g
  BY DEF OldOf
<1>5. \A g \in FuncNames(o) : HeadLine(o, g) \in Nat /\ (HeadLine(o, g) = HeadLine(o, f) => g = f)
  <2> TAKE g \in FuncNames(o)
  <2>1. HeadLine(o, g) \in Nat /\ o[HeadLine(o, g)] = g /\ o[HeadLine(o, f)] = f
    BY <1>1, HeadIsUnique
  <2> QED
    BY <2>1
<1>6. \A g \in FuncNames(o) :
        /\ Distance(F, OldOf(p, g)) \in Nat
        /\ Distance(F, OldOf(p, g)) = 0 <=> g = f
  <2> TAKE g \in FuncNames(o)
  <2> DEFINE d == HeadLine(o, g) - HeadLine(o, f)
  <2>1. Distance(F, OldOf(p, g)) = IF d < 0 THEN -d ELSE d
    BY <1>2, <1>3, <1>4 DEF Distance
  <2>2. d \in Int /\ (d = 0 <=> g = f)
    BY <1>5
  <2> HIDE DEF d, F
  <2> QED
    BY <2>1, <2>2
<1>7. RedefFuncs(F.path) = {OldOf(p, g) : g \in FuncNames(o)}
  BY <1>1, <1>3, LiveChar DEF RedefFuncs
<1>8. G \in Matching(F)
  <2>1. Distance(F, G) = 0 /\ G \in RedefFuncs(F.path)
    BY <1>6, <1>7
  <2>2. \A H \in RedefFuncs(F.path) : Distance(F, H) \in Nat
    BY <1>6, <1>7
  <2> HIDE DEF F, G
  <2> QED
    BY <2>1, <2>2 DEF Matching
<1>9. ASSUME NEW H \in Matching(F) PROVE H = G
  <2>1. H \in RedefFuncs(F.path) /\ Distance(F, H) <= Distance(F, G)
    BY <1>6, <1>7, <1>8 DEF Matching
  <2>2. PICK g \in FuncNames(o) : H = OldOf(p, g)
    BY <1>7, <2>1
  <2>3. Distance(F, H) = 0
    <3> HIDE DEF F
    <3>1. Distance(F, G) = 0 /\ Distance(F, H) \in Nat
      BY <1>6, <2>2
    <3> QED
      BY <2>1, <3>1
  <2> QED
    BY <1>6, <2>2, <2>3
<1> QED
  BY <1>2, <1>8, <1>9

-----------------------------------------------------------------------------
(* The second invariant: what the tags and the results of a function hang  *)
(* on while _CorrectChanges moves them.                                    *)

UnmatchedUncorrected == \A F \in unmatched : F.path \in uncorrected

\* Results that were copied to the new function stay there.
Carried ==
  \A p \in uncorrected : \A f \in FuncNames(old_text[p]) :
    HeadLine(old_text[p], f) \notin cis[p].del =>
      NewOf(p, f) \in unmatched \/ ResOf(OldOf(p, f)) \subseteq ResOf(NewOf(p, f))

EditsInPlace == in_place => \A p \in up_paths : InPlace(old_text[p], text[p], cis[p])

\* Until it is matched, a function's tags and results are its old self's.
Holder(p, f) == IF NewOf(p, f) \in unmatched THEN OldOf(p, f) ELSE NewOf(p, f)

MovedTags ==
  in_place /\ phase \in {"correct", "update"} =>
    /\ \A p \in Path \ up_paths : \A f \in FuncNames(text[p]) :
         TagsOf(NewOf(p, f)) = Extract(text[p], f)
    /\ \A p \in up_paths : \A f \in FuncNames(text[p]) :
         TagsOf(Holder(p, f)) = Extract(old_text[p], f)

OldRelevance(p, f) ==
  IF f \in ChangedFuncs(old_text[p], cis[p].del) THEN Relevant(old_text, p, f) ELSE {}

MovedRes ==
  in_place /\ do_agg /\ phase # "ready" =>
    \A p \in up_paths : \A f \in FuncNames(text[p]) :
      /\ ResOf(Holder(p, f)) = OldRelevance(p, f)
      /\ NewOf(p, f) \in unmatched => ResOf(NewOf(p, f)) = {}

XInv ==
  /\ UnmatchedUncorrected /\ Carried /\ EditsInPlace
  /\ MovedTags /\ MovedRes /\ TagsFreshInPlace /\ RelevanceExact

LEMMA SecondsOfProduct ==
  ASSUME NEW F, NEW S
  PROVE  {x[2] : x \in {F} \X S} = S
<1>1. ASSUME NEW t \in S PROVE t \in {x[2] : x \in {F} \X S}
  <2>1. <<F, t>> \in {F} \X S /\ <<F, t>>[2] = t
    OBVIOUS
  <2> QED
    BY <2>1
<1>2. ASSUME NEW x \in {F} \X S PROVE x[2] \in S
  OBVIOUS
<1> QED
  BY <1>1, <1>2

\* With fresh tags, Aggregate finds what an analysis from scratch would.
LEMMA AggregatedIsRelevant ==
  ASSUME TypeOK, \A F \in LiveFuncs : TagsOf(F) = Extract(text[F.path], F.name),
         NEW p \in Path, NEW f \in FuncNames(text[p])
  PROVE  Aggregated(NewOf(p, f)) = Relevant(text, p, f)
<1> DEFINE F == NewOf(p, f)
           A == UNION {TagsOf(G) : G \in {H \in LiveFuncs : H = F \/ <<F.name, H.name>> \in Reaches}}
           B == UNION {Extract(text[x[1]], x[2]) : x \in {y \in Path \X Name :
                         /\ y[2] \in FuncNames(text[y[1]])
                         /\ y = <<p, f>> \/ <<f, y[2]>> \in Reaches}}
<1>1. F.path = p /\ F.name = f
  BY DEF NewOf
<1>2. ASSUME NEW t \in A PROVE t \in B
  <2>1. PICK H \in LiveFuncs : (H = F \/ <<F.name, H.name>> \in Reaches) /\ t \in TagsOf(H)
    OBVIOUS
  <2>2. H \in Func /\ H.name \in FuncNames(text[H.path]) /\ t \in Extract(text[H.path], H.name)
    BY <2>1, LiveTyped, LiveChar DEF TypeOK
  <2> DEFINE y == <<H.path, H.name>>
  <2>3. y \in Path \X Name /\ y[1] = H.path /\ y[2] = H.name
    BY <2>2 DEF Func
  <2>4. y = <<p, f>> \/ <<f, y[2]>> \in Reaches
    BY <1>1, <2>1
  <2>5. y \in {z \in Path \X Name : z[2] \in FuncNames(text[z[1]]) /\ (z = <<p, f>> \/ <<f, z[2]>> \in Reaches)}
    BY <2>2, <2>3, <2>4
  <2> QED
    BY <2>2, <2>3, <2>5
<1>3. ASSUME NEW t \in B PROVE t \in A
  <2>1. PICK y \in Path \X Name :
          /\ y[2] \in FuncNames(text[y[1]])
          /\ y = <<p, f>> \/ <<f, y[2]>> \in Reaches
          /\ t \in Extract(text[y[1]], y[2])
    OBVIOUS
  <2> DEFINE H == NewOf(y[1], y[2])
  <2>2. H.path = y[1] /\ H.name = y[2] /\ H \in LiveFuncs
    <3>1. H \in LiveFuncs
      BY <2>1, LiveChar
    <3> QED
      BY <3>1 DEF NewOf
  <2>3. t \in TagsOf(H)
    BY <2>1, <2>2
  <2>4. H = F \/ <<F.name, H.name>> \in Reaches
    BY <1>1, <2>1, <2>2
  <2> HIDE DEF H, F
  <2> QED
    BY <2>2, <2>3, <2>4
<1>4. A = B
  BY <1>2, <1>3
<1> QED
  BY <1>4 DEF Aggregated, Relevant

\* In place, a function has an old self, which it is matched with.
LEMMA InPlaceMatch ==
  ASSUME TypeOK, EditsInPlace, in_place, NEW p \in up_paths, NEW f \in FuncNames(text[p])
  PROVE  /\ f \in FuncNames(old_text[p]) /\ HeadLine(old_text[p], f) \notin cis[p].del
         /\ Matching(NewOf(p, f)) = {OldOf(p, f)}
<1>1. /\ p \in Path /\ old_text[p] \in AllTexts /\ text[p] \in AllTexts
      /\ cis[p] \in DiffsOf(old_text[p], text[p])
  BY DEF TypeOK
<1>2. InPlace(old_text[p], text[p], cis[p])
  BY DEF EditsInPlace
<1>3. f \in FuncNames(old_text[p]) /\ HeadLine(old_text[p], f) \notin cis[p].del
  BY <1>1, <1>2, InPlaceKeeps
<1> QED
  BY <1>3, OnlyMatch

-----------------------------------------------------------------------------
LEMMA BeginX ==
  ASSUME IInv, XInv, NEW U \in SUBSET Path, NEW new \in [U -> AllTexts], NEW agg \in BOOLEAN,
         BeginCommit(U, new, agg)
  PROVE  XInv'
<1>1. /\ phase = "ready" /\ phase' = "correct" /\ up_paths' = U /\ uncorrected' = U
      /\ old_text' = text /\ tags' = tags /\ do_agg' = agg
      /\ text' = [p \in Path |-> IF p \in U THEN new[p] ELSE text[p]]
      /\ gen' = [p \in Path |-> IF p \in U THEN gen[p] + 1 ELSE gen[p]]
      /\ unmatched' = UNION {FuncsIn(p, gen[p] + 1, new[p]) : p \in U}
  BY DEF BeginCommit
<1>2. PICK ci \in [U -> UNION {DiffsOf(text[p], new[p]) : p \in U}] :
        /\ \A p \in U : ci[p] \in DiffsOf(text[p], new[p])
        /\ cis' = ci
        /\ in_place' = (in_place /\ \A p \in U : InPlace(text[p], new[p], ci[p]))
        /\ LET pre_funcs == {F \in LiveFuncs :
                              F.path \in U /\ F.name \in ChangedFuncs(text[F.path], ci[F.path].del)}
           IN  res' = IF agg THEN UNION {{F} \X Aggregated(F) : F \in pre_funcs} ELSE {}
  BY DEF BeginCommit
<1>3. TypeOK /\ gen \in [Path -> Nat] /\ text \in [Path -> AllTexts]
  BY DEF IInv, TypeOK
<1>4. \A p \in U : \A f : /\ NewOf(p, f)' = [path |-> p, gen |-> gen[p] + 1, name |-> f]
                          /\ OldOf(p, f)' = NewOf(p, f)
                          /\ text'[p] = new[p] /\ text[p] \in AllTexts /\ new[p] \in AllTexts
  BY <1>1, <1>3 DEF NewOf, OldOf
<1>5. \A p \in Path \ U : \A f : NewOf(p, f)' = NewOf(p, f) /\ text'[p] = text[p]
  BY <1>1, <1>3 DEF NewOf
<1>6. \A p \in U : \A f : NewOf(p, f)' \in unmatched' <=> f \in FuncNames(new[p])
  BY <1>1, <1>4 DEF FuncsIn
<1>7. UnmatchedUncorrected'
  BY <1>1 DEF UnmatchedUncorrected, FuncsIn
<1>8. Carried'
  <2> SUFFICES ASSUME NEW p \in U, NEW f \in FuncNames(text[p]), HeadLine(text[p], f) \notin ci[p].del
               PROVE  NewOf(p, f)' \in unmatched'
    BY <1>1, <1>2 DEF Carried
  <2>1. f \in FuncNames(new[p])
    BY <1>2, <1>4, HeadSurvives
  <2> QED
    BY <1>6, <2>1
<1>9. EditsInPlace'
  BY <1>1, <1>2, <1>4 DEF EditsInPlace
<1>10. in_place' => in_place /\ \A p \in U : FuncNames(new[p]) = FuncNames(text[p])
  BY <1>2, <1>4, InPlaceKeeps
<1>11. in_place' => \A F \in LiveFuncs : TagsOf(F) = Extract(text[F.path], F.name)
  BY <1>1, <1>10 DEF XInv, TagsFreshInPlace, TagsFresh
<1>12. MovedTags'
  <2> SUFFICES ASSUME in_place'
               PROVE  /\ \A p \in Path \ U : \A f \in FuncNames(text'[p]) :
                           TagsOf(NewOf(p, f))' = Extract(text'[p], f)
                      /\ \A p \in U : \A f \in FuncNames(text'[p]) :
                           TagsOf(Holder(p, f))' = Extract(text[p], f)
    BY <1>1 DEF MovedTags
  <2>1. \A p \in Path : \A f \in FuncNames(text[p]) : TagsOf(NewOf(p, f)) = Extract(text[p], f)
    <3> TAKE p \in Path
    <3> TAKE f \in FuncNames(text[p])
    <3>1. NewOf(p, f) \in LiveFuncs /\ NewOf(p, f).path = p /\ NewOf(p, f).name = f
      <4>1. NewOf(p, f) \in LiveFuncs
        BY <1>3, LiveChar
      <4> QED
        BY <4>1 DEF NewOf
    <3> QED
      BY <1>11, <3>1
  <2>2. ASSUME NEW p \in Path \ U, NEW f \in FuncNames(text'[p])
        PROVE  TagsOf(NewOf(p, f))' = Extract(text'[p], f)
    <3>1. NewOf(p, f)' = NewOf(p, f) /\ text'[p] = text[p]
      BY <1>5
    <3>2. TagsOf(NewOf(p, f))' = TagsOf(NewOf(p, f))
      BY <1>1, <3>1 DEF TagsOf
    <3> QED
      BY <2>1, <2>2, <3>1, <3>2
  <2>3. ASSUME NEW p \in U, NEW f \in FuncNames(text'[p])
        PROVE  TagsOf(Holder(p, f))' = Extract(text[p], f)
    <3>1. f \in FuncNames(text[p]) /\ NewOf(p, f)' \in unmatched'
      BY <1>4, <1>6, <1>10, <2>3
    <3>2. Holder(p, f)' = NewOf(p, f)
      BY <1>4, <3>1 DEF Holder
    <3> QED
      BY <1>1, <2>1, <3>1, <3>2 DEF TagsOf
  <2> QED
    BY <2>2, <2>3
<1>13. MovedRes'
  <2> SUFFICES ASSUME in_place', agg, NEW p \in U, NEW f \in FuncNames(new[p])
               PROVE  /\ ResOf(Holder(p, f))' = OldRelevance(p, f)'
                      /\ ResOf(NewOf(p, f))' = {}
    BY <1>1, <1>4 DEF MovedRes
  <2> DEFINE pre_funcs == {F \in LiveFuncs :
                            F.path \in U /\ F.name \in ChangedFuncs(text[F.path], ci[F.path].del)}
  <2>1. res' = UNION {{F} \X Aggregated(F) : F \in pre_funcs}
    BY <1>2
  <2>2. PICK G : G = NewOf(p, f)
    OBVIOUS
  <2>3. f \in FuncNames(text[p]) /\ G \in LiveFuncs /\ G.path = p /\ G.name = f
    <3>1. f \in FuncNames(text[p]) /\ G \in LiveFuncs
      BY <1>3, <1>10, <2>2, LiveChar
    <3> QED
      BY <2>2, <3>1 DEF NewOf
  <2>4. G \in pre_funcs <=> f \in ChangedFuncs(text[p], ci[p].del)
    BY <2>3
  <2>5. Aggregated(G) = Relevant(text, p, f)
    BY <1>3, <1>11, <2>2, <2>3, AggregatedIsRelevant
  <2>6. OldRelevance(p, f)' = IF G \in pre_funcs THEN Aggregated(G) ELSE {}
    BY <1>1, <1>2, <2>4, <2>5 DEF OldRelevance, Relevant
  <2>7. \A F : F \notin pre_funcs => {x \in res' : x[1] = F} = {}
    BY <2>1
  <2>8. G \in pre_funcs => {x \in res' : x[1] = G} = {G} \X Aggregated(G)
    BY <2>1
  <2>9. ResOf(Holder(p, f))' = {x[2] : x \in {y \in res' : y[1] = G}}
    <3>1. Holder(p, f)' = G
      BY <1>4, <1>6, <2>2 DEF Holder
    <3> QED
      BY <3>1 DEF ResOf
  <2>10. ResOf(Holder(p, f))' = OldRelevance(p, f)'
    <3>1. CASE G \in pre_funcs
      <4>1. {x[2] : x \in {G} \X Aggregated(G)} = Aggregated(G)
        BY SecondsOfProduct
      <4> HIDE DEF pre_funcs
      <4> QED
        BY <2>6, <2>8, <2>9, <3>1, <4>1
    <3>2. CASE G \notin pre_funcs
      <4> HIDE DEF pre_funcs
      <4> QED
        BY <2>6, <2>7, <2>9, <3>2
    <3> QED
      BY <3>1, <3>2
  <2>11. ResOf(NewOf(p, f))' = {}
    <3>1. [path |-> p, gen |-> gen[p] + 1, name |-> f] \notin LiveFuncs
      <4>1. ASSUME NEW q \in Path, NEW g, [path |-> p, gen |-> gen[p] + 1, name |-> f] = NewOf(q, g)
            PROVE  FALSE
        <5>1. p = q /\ gen[p] + 1 = gen[q] /\ gen[p] \in Nat
          BY <1>3, <4>1 DEF NewOf
        <5> QED
          BY <5>1
      <4> QED
        BY <1>3, <4>1, LiveChar
    <3> QED
      BY <1>4, <2>7, <3>1 DEF ResOf
  <2> QED
    BY <2>10, <2>11
<1>14. TagsFreshInPlace' /\ RelevanceExact'
  BY <1>1 DEF TagsFreshInPlace, TagsFresh, RelevanceExact
<1> QED
  BY <1>7, <1>8, <1>9, <1>12, <1>13, <1>14 DEF XInv

\* The steps of _CorrectChanges leave files and diffs alone.
LEMMA SameFunctions ==
  ASSUME UNCHANGED <<text, gen, old_text, cis>>
  PROVE  /\ \A p, f : NewOf(p, f)' = NewOf(p, f) /\ OldOf(p, f)' = OldOf(p, f)
         /\ \A p, f : OldRelevance(p, f)' = OldRelevance(p, f)
         /\ LiveFuncs' = LiveFuncs /\ \A p : OldFuncs(p)' = OldFuncs(p)
<1>1. \A p, f : NewOf(p, f)' = NewOf(p, f) /\ OldOf(p, f)' = OldOf(p, f)
  BY DEF NewOf, OldOf
<1>2. \A p, f : OldRelevance(p, f)' = OldRelevance(p, f)
  BY DEF OldRelevance, Relevant
<1>3. LiveFuncs' = LiveFuncs /\ \A p : OldFuncs(p)' = OldFuncs(p)
  BY DEF LiveFuncs, NewFuncs, OldFuncs, FuncsIn
<1> QED
  BY <1>1, <1>2, <1>3

\* What a match moves.
LEMMA MatchResult ==
  ASSUME NEW F, NEW G, F # G,
         tags' = {x \in tags : x[1] \notin {F, G}} \cup ({F} \X TagsOf(G)),
         res' = res \cup ({F} \X ResOf(G))
  PROVE  /\ TagsOf(F)' = TagsOf(G) /\ \A H : H \notin {F, G} => TagsOf(H)' = TagsOf(H)
         /\ ResOf(F)' = ResOf(F) \cup ResOf(G) /\ \A H : H # F => ResOf(H)' = ResOf(H)
<1>1. {x \in tags' : x[1] = F} = {F} \X TagsOf(G)
  <2>1. \A x \in {F} \X TagsOf(G) : x \in tags' /\ x[1] = F
    OBVIOUS
  <2>2. \A x \in tags' : x[1] = F => x \in {F} \X TagsOf(G)
    OBVIOUS
  <2> QED
    BY <2>1, <2>2
<1>2. TagsOf(F)' = TagsOf(G)
  <2>1. TagsOf(F)' = {x[2] : x \in {F} \X TagsOf(G)}
    <3>1. TagsOf(F)' = {x[2] : x \in {y \in tags' : y[1] = F}}
      BY DEF TagsOf
    <3> QED
      BY <1>1, <3>1
  <2> QED
    BY <2>1, SecondsOfProduct
<1>3. ASSUME NEW H, H \notin {F, G} PROVE TagsOf(H)' = TagsOf(H)
  <2>1. {x \in tags' : x[1] = H} = {x \in tags : x[1] = H}
    BY <1>3
  <2> QED
    BY <2>1 DEF TagsOf
<1>4. ResOf(F)' = ResOf(F) \cup ResOf(G)
  <2>1. {x \in res' : x[1] = F} = {x \in res : x[1] = F} \cup ({F} \X ResOf(G))
    OBVIOUS
  <2>2. {x[2] : x \in {F} \X ResOf(G)} = ResOf(G)
    BY SecondsOfProduct
  <2>3. ResOf(F)' = {x[2] : x \in {y \in res : y[1] = F}} \cup {x[2] : x \in {F} \X ResOf(G)}
    BY <2>1 DEF ResOf
  <2> QED
    BY <2>2, <2>3 DEF ResOf
<1>5. ASSUME NEW H, H # F PROVE ResOf(H)' = ResOf(H)
  <2>1. {x \in res' : x[1] = H} = {x \in res : x[1] = H}
    BY <1>5
  <2> QED
    BY <2>1 DEF ResOf
<1> QED
  BY <1>2, <1>3, <1>4, <1>5

LEMMA MatchX ==
  ASSUME IInv, XInv, NEW F \in unmatched, MatchFunction(F)
  PROVE  XInv'
<1>1. /\ phase = "correct" /\ unmatched' = unmatched \ {F}
      /\ UNCHANGED <<text, gen, old_text, cis, up_paths, do_agg, commits, in_place, uncorrected, phase>>
  BY DEF MatchFunction, fileVars, commitVars
<1>2. PICK G \in Matching(F) :
        /\ tags' = {x \in tags : x[1] \notin {F, G}} \cup ({F} \X TagsOf(G))
        /\ res' = res \cup ({F} \X ResOf(G))
  BY DEF MatchFunction
<1>3. TypeOK /\ EditsInPlace /\ up_paths \subseteq Path /\ uncorrected \subseteq up_paths
  BY DEF IInv, TypeOK, XInv
<1>4. PICK p, f : p = F.path /\ f = F.name
  OBVIOUS
<1>5. F \in LiveFuncs /\ F = NewOf(p, f) /\ p \in uncorrected /\ f \in FuncNames(text[p])
  BY <1>3, <1>4, LiveChar DEF TypeOK, XInv, UnmatchedUncorrected
<1>6. /\ \A q, g : NewOf(q, g)' = NewOf(q, g) /\ OldOf(q, g)' = OldOf(q, g)
      /\ \A q, g : OldRelevance(q, g)' = OldRelevance(q, g)
  BY <1>1, SameFunctions
<1>7. PICK h : G = OldOf(p, h)
  BY <1>2, <1>3, <1>4, <1>5, LiveChar DEF Matching, RedefFuncs
<1>8. \A q \in Path : \A g : NewOf(q, g) # G /\ OldOf(q, g) # F
  BY <1>3, <1>5, <1>7, LiveChar
<1>9. /\ TagsOf(F)' = TagsOf(G) /\ \A H : H \notin {F, G} => TagsOf(H)' = TagsOf(H)
      /\ ResOf(F)' = ResOf(F) \cup ResOf(G) /\ \A H : H # F => ResOf(H)' = ResOf(H)
  <2>1. F # G
    BY <1>3, <1>5, <1>8
  <2> QED
    BY <1>2, <2>1, MatchResult
<1>10. \A q, g : /\ NewOf(q, g) = F => q = p /\ g = f
                 /\ OldOf(q, g) = OldOf(p, f) => q = p /\ g = f
  BY <1>5 DEF NewOf, OldOf
<1>11. UnmatchedUncorrected'
  BY <1>1 DEF XInv, UnmatchedUncorrected
<1>12. Carried'
  <2> SUFFICES ASSUME NEW q \in uncorrected, NEW g \in FuncNames(old_text[q]),
                      HeadLine(old_text[q], g) \notin cis[q].del, NewOf(q, g) \notin unmatched \ {F}
               PROVE  ResOf(OldOf(q, g))' \subseteq ResOf(NewOf(q, g))'
    BY <1>1, <1>6 DEF Carried
  <2> DEFINE Old == OldOf(q, g)
             New == NewOf(q, g)
  <2>1. ResOf(Old)' = {x[2] : x \in {y \in res' : y[1] = Old}} /\ ResOf(New)' = {x[2] : x \in {y \in res' : y[1] = New}}
    BY <1>6 DEF ResOf
  <2>2. PICK A, B : A = Old /\ B = New
    OBVIOUS
  <2>3. A # F /\ ResOf(A)' = ResOf(A)
    BY <1>3, <1>8, <1>9, <2>2
  <2>4. ResOf(A) \subseteq ResOf(B)'
    <3>1. CASE B = F
      <4>1. q = p /\ g = f
        BY <1>10, <2>2, <3>1
      <4>2. G = A
        BY <1>2, <1>3, <1>5, <2>2, <4>1, OnlyMatch
      <4> QED
        BY <1>9, <3>1, <4>2
    <3>2. CASE B # F
      <4>1. B \notin unmatched /\ ResOf(A) \subseteq ResOf(B)
        BY <2>2, <3>2 DEF XInv, Carried
      <4> QED
        BY <1>9, <3>2, <4>1
    <3> QED
      BY <3>1, <3>2
  <2> QED
    BY <2>1, <2>2, <2>3, <2>4 DEF ResOf
<1>13. EditsInPlace'
  BY <1>1 DEF XInv, EditsInPlace
<1>14. in_place => G = OldOf(p, f)
  BY <1>2, <1>3, <1>5, InPlaceMatch
<1>15. \A q, g : Holder(q, g)' = IF NewOf(q, g) \in unmatched \ {F} THEN OldOf(q, g) ELSE NewOf(q, g)
  BY <1>1, <1>6 DEF Holder
<1>16. /\ Holder(p, f)' = F /\ Holder(p, f) = OldOf(p, f)
       /\ in_place => \A q \in Path : \A g :
            q # p \/ g # f => Holder(q, g)' = Holder(q, g) /\ Holder(q, g) \notin {F, G}
  <2>1. Holder(p, f)' = F /\ Holder(p, f) = OldOf(p, f)
    BY <1>5, <1>15 DEF Holder
  <2>2. ASSUME in_place, NEW q \in Path, NEW g, q # p \/ g # f
        PROVE  Holder(q, g)' = Holder(q, g) /\ Holder(q, g) \notin {F, G}
    <3>1. NewOf(q, g) # F /\ OldOf(q, g) # G
      BY <1>10, <1>14, <2>2
    <3> QED
      BY <1>8, <1>15, <3>1 DEF Holder
  <2> QED
    BY <2>1, <2>2
<1>17. MovedTags'
  <2> SUFFICES ASSUME in_place
               PROVE  /\ \A q \in Path \ up_paths : \A g \in FuncNames(text[q]) :
                           TagsOf(NewOf(q, g))' = Extract(text[q], g)
                      /\ \A q \in up_paths : \A g \in FuncNames(text[q]) :
                           TagsOf(Holder(q, g))' = Extract(old_text[q], g)
    BY <1>1 DEF MovedTags
  <2>1. ASSUME NEW q \in Path \ up_paths, NEW g \in FuncNames(text[q])
        PROVE  TagsOf(NewOf(q, g))' = Extract(text[q], g)
    <3>1. PICK B : B = NewOf(q, g)
      OBVIOUS
    <3>2. B \notin {F, G} /\ TagsOf(B) = Extract(text[q], g)
      BY <1>1, <1>3, <1>5, <1>8, <1>10, <3>1 DEF XInv, MovedTags
    <3>3. TagsOf(NewOf(q, g))' = TagsOf(B)'
      BY <1>6, <3>1 DEF TagsOf
    <3> QED
      BY <1>9, <3>2, <3>3
  <2>2. ASSUME NEW q \in up_paths, NEW g \in FuncNames(text[q])
        PROVE  TagsOf(Holder(q, g))' = Extract(old_text[q], g)
    <3>1. PICK B, C : B = Holder(q, g) /\ C = Holder(q, g)'
      OBVIOUS
    <3>2. TagsOf(B) = Extract(old_text[q], g)
      BY <1>1, <3>1 DEF XInv, MovedTags
    <3>3. TagsOf(Holder(q, g))' = TagsOf(C)'
      BY <3>1 DEF TagsOf
    <3>4. TagsOf(C)' = TagsOf(B)
      <4>1. CASE q = p /\ g = f
        BY <1>9, <1>14, <1>16, <3>1, <4>1
      <4>2. CASE q # p \/ g # f
        BY <1>3, <1>9, <1>16, <3>1, <4>2
      <4> QED
        BY <4>1, <4>2
    <3> QED
      BY <3>2, <3>3, <3>4
  <2> QED
    BY <2>1, <2>2
<1>18. MovedRes'
  <2> SUFFICES ASSUME in_place, do_agg, NEW q \in up_paths, NEW g \in FuncNames(text[q])
               PROVE  /\ ResOf(Holder(q, g))' = OldRelevance(q, g)
                      /\ NewOf(q, g) \in unmatched \ {F} => ResOf(NewOf(q, g))' = {}
    BY <1>1, <1>6 DEF MovedRes
  <2>1. PICK B, C, N : B = Holder(q, g) /\ C = Holder(q, g)' /\ N = NewOf(q, g)
    OBVIOUS
  <2>2. ResOf(B) = OldRelevance(q, g) /\ (N \in unmatched => ResOf(N) = {})
    BY <1>1, <2>1 DEF XInv, MovedRes
  <2>3. ResOf(Holder(q, g))' = ResOf(C)' /\ ResOf(NewOf(q, g))' = ResOf(N)'
    BY <1>6, <2>1 DEF ResOf
  <2>4. ResOf(C)' = ResOf(B)
    <3>1. CASE q = p /\ g = f
      <4>1. N = F /\ C = F /\ B = G
        BY <1>5, <1>14, <1>16, <2>1, <3>1
      <4>2. ResOf(F) = {}
        BY <2>2, <4>1
      <4> QED
        BY <1>9, <4>1, <4>2
    <3>2. CASE q # p \/ g # f
      BY <1>3, <1>9, <1>16, <2>1, <3>2
    <3> QED
      BY <3>1, <3>2
  <2>5. N \in unmatched \ {F} => ResOf(N)' = {}
    BY <1>9, <2>2
  <2> QED
    BY <2>1, <2>2, <2>3, <2>4, <2>5
<1>19. TagsFreshInPlace' /\ RelevanceExact'
  BY <1>1 DEF TagsFreshInPlace, TagsFresh, RelevanceExact
<1> QED
  BY <1>11, <1>12, <1>13, <1>17, <1>18, <1>19 DEF XInv

\* A function that no old one is near to keeps neither tags nor results; in
\* place there is none.
LEMMA NoMatchX ==
  ASSUME IInv, XInv, NEW F \in unmatched, NoMatch(F)
  PROVE  XInv'
<1>1. /\ phase = "correct" /\ unmatched' = unmatched \ {F} /\ Matching(F) = {}
      /\ UNCHANGED <<text, gen, old_text, cis, up_paths, do_agg, commits, in_place, uncorrected, phase,
                     tags, res>>
  BY DEF NoMatch, fileVars, commitVars
<1>2. TypeOK /\ EditsInPlace /\ up_paths \subseteq Path /\ uncorrected \subseteq up_paths
  BY DEF IInv, TypeOK, XInv
<1>3. PICK p, f : p = F.path /\ f = F.name
  OBVIOUS
<1>4. F = NewOf(p, f) /\ p \in uncorrected /\ f \in FuncNames(text[p])
  BY <1>2, <1>3, LiveChar DEF TypeOK, XInv, UnmatchedUncorrected
<1>5. ~ in_place
  BY <1>1, <1>2, <1>4, InPlaceMatch
<1>6. \A q, g : NewOf(q, g)' = NewOf(q, g) /\ OldOf(q, g)' = OldOf(q, g)
  BY <1>1, SameFunctions
<1>7. Carried'
  <2> SUFFICES ASSUME NEW q \in uncorrected, NEW g \in FuncNames(old_text[q]),
                      HeadLine(old_text[q], g) \notin cis[q].del, NewOf(q, g) \notin unmatched \ {F}
               PROVE  ResOf(OldOf(q, g))' \subseteq ResOf(NewOf(q, g))'
    BY <1>1, <1>6 DEF Carried
  <2>1. NewOf(q, g) # F
    <3>1. Matching(NewOf(q, g)) = {OldOf(q, g)}
      BY <1>2, OnlyMatch
    <3> QED
      BY <1>1, <3>1
  <2>2. ResOf(OldOf(q, g)) \subseteq ResOf(NewOf(q, g))
    BY <2>1 DEF XInv, Carried
  <2> QED
    BY <1>1, <1>6, <2>2 DEF ResOf
<1>8. UnmatchedUncorrected' /\ EditsInPlace'
  BY <1>1 DEF XInv, UnmatchedUncorrected, EditsInPlace
<1> QED
  BY <1>1, <1>5, <1>7, <1>8 DEF XInv, MovedTags, MovedRes, TagsFreshInPlace, RelevanceExact

\* The old functions of a file lose what they have, and only they.
LEMMA RemoveKeeps ==
  ASSUME NEW S, tags' = {x \in tags : x[1] \notin S}, res' = {x \in res : x[1] \notin S},
         NEW H, H \notin S
  PROVE  TagsOf(H)' = TagsOf(H) /\ ResOf(H)' = ResOf(H)
<1>1. /\ {x \in tags' : x[1] = H} = {x \in tags : x[1] = H}
      /\ {x \in res' : x[1] = H} = {x \in res : x[1] = H}
  OBVIOUS
<1> QED
  BY <1>1 DEF TagsOf, ResOf

\* The step that ends _CorrectChanges for a file, for XInv and CarriedOver.
LEMMA RemoveX ==
  ASSUME IInv, XInv, NEW p \in Path, RemoveOld(p)
  PROVE  /\ XInv'
         /\ \A f \in FuncNames(old_text[p]) : HeadLine(old_text[p], f) \notin cis[p].del =>
              ResOf(OldOf(p, f)) \subseteq {x[2] : x \in {y \in res' : y[1] = NewOf(p, f)}}
<1>1. /\ phase = "correct" /\ p \in uncorrected /\ uncorrected' = uncorrected \ {p}
      /\ \A F \in unmatched : F.path # p
      /\ phase' = IF uncorrected = {p} THEN "update" ELSE "correct"
      /\ tags' = {x \in tags : x[1] \notin OldFuncs(p)}
      /\ res' = {x \in res : x[1] \notin OldFuncs(p)}
      /\ UNCHANGED <<text, gen, old_text, cis, up_paths, do_agg, commits, in_place, unmatched>>
  BY DEF RemoveOld, RedefFuncs, fileVars, commitVars
<1>2. TypeOK /\ up_paths \subseteq Path /\ uncorrected \subseteq up_paths
  BY DEF IInv, TypeOK
<1>3. /\ \A q, g : NewOf(q, g)' = NewOf(q, g) /\ OldOf(q, g)' = OldOf(q, g)
      /\ \A q, g : OldRelevance(q, g)' = OldRelevance(q, g)
  BY <1>1, SameFunctions
<1>4. /\ \A q \in Path : \A g : NewOf(q, g) \notin OldFuncs(p)
      /\ \A q \in Path \ {p} : \A g : OldOf(q, g) \notin OldFuncs(p)
      /\ \A g : NewOf(p, g) \notin unmatched
  <2>1. \A q \in Path : \A g : NewOf(q, g) \notin OldFuncs(p)
    BY <1>2, LiveChar
  <2>2. \A q \in Path \ {p} : \A g : OldOf(q, g) \notin OldFuncs(p)
    BY DEF OldFuncs, FuncsIn, OldOf
  <2>3. \A g : NewOf(p, g).path = p
    BY DEF NewOf
  <2> QED
    BY <1>1, <2>1, <2>2, <2>3
<1>5. \A H : H \notin OldFuncs(p) => TagsOf(H)' = TagsOf(H) /\ ResOf(H)' = ResOf(H)
  BY <1>1, RemoveKeeps
<1>6. \A q \in Path : \A g : /\ Holder(q, g)' = Holder(q, g) /\ Holder(q, g) \notin OldFuncs(p)
                             /\ NewOf(q, g) \notin OldFuncs(p)
  <2>1. \A q \in Path : \A g : Holder(q, g)' = Holder(q, g)
    BY <1>1, <1>3 DEF Holder
  <2>2. \A q \in Path : \A g : Holder(q, g) \notin OldFuncs(p)
    BY <1>4 DEF Holder
  <2> QED
    BY <1>4, <2>1, <2>2
<1>7. \A q \in Path : \A g : /\ TagsOf(NewOf(q, g))' = TagsOf(NewOf(q, g))
                             /\ TagsOf(Holder(q, g))' = TagsOf(Holder(q, g))
                             /\ ResOf(NewOf(q, g))' = ResOf(NewOf(q, g))
                             /\ ResOf(Holder(q, g))' = ResOf(Holder(q, g))
  <2> TAKE q \in Path
  <2> TAKE g
  <2>1. PICK N, B : N = NewOf(q, g) /\ B = Holder(q, g)
    OBVIOUS
  <2>2. TagsOf(N)' = TagsOf(N) /\ ResOf(N)' = ResOf(N) /\ TagsOf(B)' = TagsOf(B) /\ ResOf(B)' = ResOf(B)
    BY <1>5, <1>6, <2>1
  <2>3. /\ TagsOf(NewOf(q, g))' = TagsOf(N)' /\ TagsOf(Holder(q, g))' = TagsOf(B)'
        /\ ResOf(NewOf(q, g))' = ResOf(N)' /\ ResOf(Holder(q, g))' = ResOf(B)'
    BY <1>3, <1>6, <2>1 DEF TagsOf, ResOf
  <2> QED
    BY <2>1, <2>2, <2>3
<1>8. Carried'
  <2> SUFFICES ASSUME NEW q \in uncorrected \ {p}, NEW g \in FuncNames(old_text[q]),
                      HeadLine(old_text[q], g) \notin cis[q].del, NewOf(q, g) \notin unmatched
               PROVE  ResOf(OldOf(q, g))' \subseteq ResOf(NewOf(q, g))'
    BY <1>1, <1>3 DEF Carried
  <2>1. PICK A : A = OldOf(q, g)
    OBVIOUS
  <2>2. ResOf(A)' = ResOf(A)
    BY <1>2, <1>4, <1>5, <2>1
  <2>3. ResOf(OldOf(q, g))' = ResOf(A)'
    BY <1>3, <2>1 DEF ResOf
  <2>4. ResOf(A) \subseteq ResOf(NewOf(q, g))
    BY <2>1 DEF XInv, Carried
  <2> QED
    BY <1>2, <1>7, <2>2, <2>3, <2>4
<1>9. UnmatchedUncorrected' /\ EditsInPlace'
  BY <1>1 DEF XInv, UnmatchedUncorrected, EditsInPlace
<1>10. MovedTags'
  <2>1. in_place => MovedTags /\ phase \in {"correct", "update"}
    BY <1>1 DEF XInv
  <2> QED
    BY <1>1, <1>2, <1>7, <2>1 DEF MovedTags
<1>11. MovedRes'
  <2> SUFFICES ASSUME in_place, do_agg, NEW q \in up_paths, NEW g \in FuncNames(text[q])
               PROVE  /\ ResOf(Holder(q, g))' = OldRelevance(q, g)
                      /\ NewOf(q, g) \in unmatched => ResOf(NewOf(q, g))' = {}
    BY <1>1, <1>3 DEF MovedRes
  <2>1. ResOf(Holder(q, g)) = OldRelevance(q, g) /\ (NewOf(q, g) \in unmatched => ResOf(NewOf(q, g)) = {})
    BY <1>1 DEF XInv, MovedRes
  <2> QED
    BY <1>2, <1>7, <2>1
<1>12. TagsFreshInPlace' /\ RelevanceExact'
  BY <1>1 DEF TagsFreshInPlace, TagsFresh, RelevanceExact
<1>13. ASSUME NEW f \in FuncNames(old_text[p]), HeadLine(old_text[p], f) \notin cis[p].del
       PROVE  ResOf(OldOf(p, f)) \subseteq {x[2] : x \in {y \in res' : y[1] = NewOf(p, f)}}
  <2>1. ResOf(OldOf(p, f)) \subseteq ResOf(NewOf(p, f))
    BY <1>1, <1>4, <1>13 DEF XInv, Carried
  <2>2. ResOf(NewOf(p, f))' = {x[2] : x \in {y \in res' : y[1] = NewOf(p, f)}}
    BY <1>3 DEF ResOf
  <2> QED
    BY <1>7, <2>1, <2>2
<1> QED
  BY <1>8, <1>9, <1>10, <1>11, <1>12, <1>13 DEF XInv

\* The functions without added lines keep their tags.
LEMMA UpdateRest ==
  ASSUME UpdateFuncs, NEW F, F \notin PostFuncs
  PROVE  TagsOf(F)' = TagsOf(F)
<1>1. {x \in tags' : x[1] = F} = {x \in tags : x[1] = F}
  BY DEF UpdateFuncs
<1> QED
  BY <1>1 DEF TagsOf

LEMMA UpdateX ==
  ASSUME IInv, XInv, UpdateFuncs
  PROVE  XInv'
<1>1. /\ phase = "update" /\ phase' = "aggregate"
      /\ UNCHANGED <<text, gen, old_text, cis, up_paths, do_agg, commits, in_place, uncorrected,
                     unmatched, res>>
  BY DEF UpdateFuncs, fileVars, commitVars
<1>2. TypeOK /\ up_paths \subseteq Path /\ uncorrected = {} /\ unmatched = {}
  BY <1>1 DEF IInv, TypeOK, PhaseInv, XInv, UnmatchedUncorrected
<1>3. /\ \A q, g : NewOf(q, g)' = NewOf(q, g) /\ OldOf(q, g)' = OldOf(q, g)
      /\ \A q, g : OldRelevance(q, g)' = OldRelevance(q, g)
      /\ LiveFuncs' = LiveFuncs
  BY <1>1, SameFunctions
<1>4. ASSUME in_place, NEW F \in LiveFuncs PROVE TagsOf(F)' = Extract(text[F.path], F.name)
  <2>0. PICK q \in Path : \E g \in FuncNames(text[q]) : F = NewOf(q, g)
    BY <1>2, LiveChar
  <2>1. PICK g \in FuncNames(text[q]) : F = NewOf(q, g)
    BY <2>0
  <2>2. F.path = q /\ F.name = g
    BY <2>1 DEF NewOf
  <2>3. CASE F \in PostFuncs
    BY <2>3, UpdateResult
  <2>4. CASE F \notin PostFuncs
    <3>1. TagsOf(F) = Extract(text[q], g)
      <4>1. CASE q \notin up_paths
        BY <1>1, <1>4, <2>1, <4>1 DEF XInv, MovedTags
      <4>2. CASE q \in up_paths
        <5>1. TagsOf(F) = Extract(old_text[q], g)
          <6>1. Holder(q, g) = F
            BY <1>2, <2>1 DEF Holder
          <6> QED
            BY <1>1, <1>4, <4>2, <6>1 DEF XInv, MovedTags
        <5>2. InPlace(old_text[q], text[q], cis[q])
          BY <1>4, <4>2 DEF XInv, EditsInPlace
        <5>3. g \notin ChangedFuncs(text[q], cis[q].add)
          BY <2>2, <2>4, <4>2 DEF PostFuncs
        <5> QED
          BY <5>1, <5>2, <5>3 DEF InPlace
      <4> QED
        BY <4>1, <4>2
    <3> QED
      BY <2>2, <2>4, <3>1, UpdateRest
  <2> QED
    BY <2>3, <2>4
<1>5. TagsFreshInPlace'
  <2> SUFFICES ASSUME in_place, NEW F \in LiveFuncs PROVE TagsOf(F)' = Extract(text[F.path], F.name)
    BY <1>1, <1>3 DEF TagsFreshInPlace, TagsFresh
  <2> QED
    BY <1>4
<1>6. MovedRes'
  <2>1. \A q, g : Holder(q, g)' = Holder(q, g)
    BY <1>1, <1>3 DEF Holder
  <2>2. \A q, g : ResOf(Holder(q, g))' = ResOf(Holder(q, g)) /\ ResOf(NewOf(q, g))' = ResOf(NewOf(q, g))
    BY <1>1, <1>3, <2>1 DEF ResOf
  <2>3. MovedRes /\ phase # "ready"
    BY <1>1 DEF XInv
  <2> QED
    BY <1>1, <1>2, <1>3, <2>2, <2>3 DEF MovedRes
<1>7. UnmatchedUncorrected' /\ EditsInPlace' /\ Carried'
  BY <1>1, <1>2 DEF XInv, UnmatchedUncorrected, EditsInPlace, Carried
<1>8. MovedTags' /\ RelevanceExact'
  BY <1>1 DEF MovedTags, RelevanceExact
<1> QED
  BY <1>5, <1>6, <1>7, <1>8 DEF XInv

LEMMA AggregateX ==
  ASSUME IInv, XInv, AggregateFuncs
  PROVE  XInv'
<1>1. /\ phase = "aggregate" /\ phase' = "ready"
      /\ res' = IF do_agg THEN res \cup UNION {{F} \X Aggregated(F) : F \in PostFuncs} ELSE res
      /\ UNCHANGED <<text, gen, old_text, cis, up_paths, do_agg, commits, in_place, uncorrected,
                     unmatched, tags>>
  BY DEF AggregateFuncs, fileVars, commitVars
<1>2. TypeOK /\ up_paths \subseteq Path /\ uncorrected = {} /\ unmatched = {}
  BY <1>1 DEF IInv, TypeOK, PhaseInv, XInv, UnmatchedUncorrected
<1>3. /\ \A q, g : NewOf(q, g)' = NewOf(q, g) /\ LiveFuncs' = LiveFuncs
  BY <1>1, SameFunctions
<1>4. in_place => \A F \in LiveFuncs : TagsOf(F) = Extract(text[F.path], F.name)
  BY <1>1 DEF XInv, TagsFreshInPlace, TagsFresh
<1>5. TagsFreshInPlace'
  <2>1. \A F : TagsOf(F)' = TagsOf(F)
    BY <1>1 DEF TagsOf
  <2> QED
    BY <1>1, <1>3, <1>4, <2>1 DEF TagsFreshInPlace, TagsFresh
<1>6. RelevanceExact'
  <2>0. RelevanceExact' <=>
          (do_agg /\ in_place =>
             \A p \in up_paths : \A f \in FuncNames(text[p]) :
               {x[2] : x \in {y \in res' : y[1] = NewOf(p, f)}} = OldRelevance(p, f) \cup
                  (IF f \in ChangedFuncs(text[p], cis[p].add) THEN Relevant(text, p, f) ELSE {}))
    BY <1>1 DEF RelevanceExact, OldRelevance, ResOf, NewOf, Relevant
  <2> SUFFICES ASSUME do_agg, in_place, NEW p \in up_paths, NEW f \in FuncNames(text[p]),
                      NEW F, F = NewOf(p, f)
               PROVE  ResOf(F)' = OldRelevance(p, f) \cup
                        (IF f \in ChangedFuncs(text[p], cis[p].add) THEN Relevant(text, p, f) ELSE {})
    BY <2>0 DEF ResOf
  <2>1. F = NewOf(p, f) /\ F.path = p /\ F.name = f /\ F \in LiveFuncs
    <3>1. F = NewOf(p, f) /\ F.path = p /\ F.name = f
      BY DEF NewOf
    <3> QED
      BY <1>2, <3>1, LiveChar
  <2>2. F \in PostFuncs <=> f \in ChangedFuncs(text[p], cis[p].add)
    BY <2>1 DEF PostFuncs
  <2>3. Aggregated(F) = Relevant(text, p, f)
    BY <1>2, <1>4, <2>1, AggregatedIsRelevant
  <2>4. ResOf(F) = OldRelevance(p, f)
    <3>1. Holder(p, f) = F
      BY <1>2, <2>1 DEF Holder
    <3> QED
      BY <1>1, <3>1 DEF XInv, MovedRes
  <2>5. ResOf(F)' = ResOf(F) \cup (IF F \in PostFuncs THEN Aggregated(F) ELSE {})
    <3>1. {x \in res' : x[1] = F} =
            {x \in res : x[1] = F} \cup (IF F \in PostFuncs THEN {F} \X Aggregated(F) ELSE {})
      BY <1>1
    <3>2. {x[2] : x \in {F} \X Aggregated(F)} = Aggregated(F)
      BY SecondsOfProduct
    <3>3. ResOf(F)' = ResOf(F) \cup {x[2] : x \in IF F \in PostFuncs THEN {F} \X Aggregated(F) ELSE {}}
      BY <3>1 DEF ResOf
    <3> QED
      BY <3>2, <3>3
  <2> QED
    BY <2>2, <2>3, <2>4, <2>5
<1>7. UnmatchedUncorrected' /\ EditsInPlace' /\ Carried'
  BY <1>1, <1>2 DEF XInv, UnmatchedUncorrected, EditsInPlace, Carried
<1>8. MovedTags' /\ MovedRes'
  BY <1>1 DEF MovedTags, MovedRes
<1> QED
  BY <1>5, <1>6, <1>7, <1>8 DEF XInv

LEMMA StutterX ==
  ASSUME XInv, UNCHANGED vars
  PROVE  XInv'
<1>1. UNCHANGED <<text, gen, old_text, cis, up_paths, do_agg, commits, in_place, uncorrected,
                  unmatched, tags, res, phase>>
  BY DEF vars, fileVars, commitVars
<1>2. /\ \A q, g : NewOf(q, g)' = NewOf(q, g) /\ OldOf(q, g)' = OldOf(q, g)
      /\ \A q, g : OldRelevance(q, g)' = OldRelevance(q, g)
      /\ LiveFuncs' = LiveFuncs
  BY <1>1, SameFunctions
<1>3. \A q, g : Holder(q, g)' = Holder(q, g)
  BY <1>1, <1>2 DEF Holder
<1>4. UnmatchedUncorrected' /\ EditsInPlace'
  BY <1>1 DEF XInv, UnmatchedUncorrected, EditsInPlace
<1>a. /\ \A F : TagsOf(F)' = TagsOf(F)
      /\ \A q, g : ResOf(NewOf(q, g))' = ResOf(NewOf(q, g)) /\ ResOf(OldOf(q, g))' = ResOf(OldOf(q, g))
      /\ \A q, g : ResOf(Holder(q, g))' = ResOf(Holder(q, g)) /\ TagsOf(Holder(q, g))' = TagsOf(Holder(q, g))
      /\ \A q, g : TagsOf(NewOf(q, g))' = TagsOf(NewOf(q, g))
  BY <1>1, <1>2, <1>3 DEF TagsOf, ResOf
<1>5. Carried' /\ MovedTags' /\ MovedRes'
  <2>1. Carried'
    BY <1>1, <1>2, <1>a DEF XInv, Carried
  <2>2. MovedTags'
    BY <1>1, <1>2, <1>a DEF XInv, MovedTags
  <2>3. MovedRes'
    BY <1>1, <1>2, <1>a DEF XInv, MovedRes
  <2> QED
    BY <2>1, <2>2, <2>3
<1>6. TagsFreshInPlace' /\ RelevanceExact'
  <2>1. TagsFreshInPlace'
    BY <1>1, <1>2, <1>a DEF XInv, TagsFreshInPlace, TagsFresh
  <2>2. RelevanceExact' <=> RelevanceExact
    BY <1>1 DEF RelevanceExact, ResOf
  <2> QED
    BY <2>1, <2>2 DEF XInv
<1> QED
  BY <1>4, <1>5, <1>6 DEF XInv

-----------------------------------------------------------------------------
THEOREM InitX ==
  Init => XInv
<1> SUFFICES ASSUME Init PROVE XInv
  OBVIOUS
<1>1. /\ gen = [p \in Path |-> 1] /\ res = {} /\ up_paths = {} /\ uncorrected = {}
      /\ unmatched = {} /\ phase = "ready"
      /\ tags = UNION {{[path |-> y[1], gen |-> 1, name |-> y[2]]} \X Extract(text[y[1]], y[2]) :
                         y \in {z \in Path \X Name : z[2] \in FuncNames(text[z[1]])}}
  BY DEF Init
<1>2. TypeOK
  BY InitInv DEF IInv
<1>3. ASSUME NEW F \in LiveFuncs PROVE TagsOf(F) = Extract(text[F.path], F.name)
  <2>0. PICK p \in Path : \E f \in FuncNames(text[p]) : F = NewOf(p, f)
    BY <1>2, LiveChar
  <2>1. PICK f \in FuncNames(text[p]) : F = NewOf(p, f)
    BY <2>0
  <2>2. F = [path |-> p, gen |-> 1, name |-> f] /\ F.path = p /\ F.name = f /\ f \in Name
    BY <1>1, <2>1, FuncNamesAreNames DEF NewOf
  <2>3. ASSUME NEW t \in Extract(text[p], f) PROVE t \in TagsOf(F)
    <3> DEFINE y == <<p, f>>
    <3>1. y \in {z \in Path \X Name : z[2] \in FuncNames(text[z[1]])} /\ y[1] = p /\ y[2] = f
      BY <2>1, <2>2
    <3>2. <<F, t>> \in {[path |-> y[1], gen |-> 1, name |-> y[2]]} \X Extract(text[y[1]], y[2])
      BY <2>2, <2>3, <3>1
    <3>3. <<F, t>> \in tags
      BY <1>1, <3>1, <3>2
    <3> QED
      BY <3>3 DEF TagsOf
  <2>4. ASSUME NEW x \in tags, x[1] = F PROVE x[2] \in Extract(text[p], f)
    <3>1. PICK y \in Path \X Name :
            x \in {[path |-> y[1], gen |-> 1, name |-> y[2]]} \X Extract(text[y[1]], y[2])
      BY <1>1
    <3>2. F = [path |-> y[1], gen |-> 1, name |-> y[2]] /\ x[2] \in Extract(text[y[1]], y[2])
      BY <2>4, <3>1
    <3>3. y[1] = p /\ y[2] = f
      BY <2>2, <3>2
    <3> QED
      BY <3>2, <3>3
  <2> QED
    BY <2>2, <2>3, <2>4 DEF TagsOf
<1>4. TagsFreshInPlace
  BY <1>3 DEF TagsFreshInPlace, TagsFresh
<1> QED
  BY <1>1, <1>4 DEF XInv, UnmatchedUncorrected, Carried, EditsInPlace, MovedTags, MovedRes, RelevanceExact

THEOREM StepX ==
  IInv /\ XInv /\ [Next]_vars => XInv'
<1> SUFFICES ASSUME IInv, XInv, [Next]_vars PROVE XInv'
  OBVIOUS
<1>1. ASSUME NEW U \in (SUBSET Path) \ {{}}, NEW new \in [U -> AllTexts], NEW agg \in BOOLEAN,
             BeginCommit(U, new, agg)
      PROVE  XInv'
  BY <1>1, BeginX
<1>2. ASSUME NEW F \in unmatched, MatchFunction(F) PROVE XInv'
  BY <1>2, MatchX
<1>3. ASSUME NEW F \in unmatched, NoMatch(F) PROVE XInv'
  BY <1>3, NoMatchX
<1>4. ASSUME NEW p \in Path, RemoveOld(p) PROVE XInv'
  BY <1>4, RemoveX
<1>5. CASE UpdateFuncs
  BY <1>5, UpdateX
<1>6. CASE AggregateFuncs
  BY <1>6, AggregateX
<1>7. CASE UNCHANGED vars
  BY <1>7, StutterX
<1> QED
  BY <1>1, <1>2, <1>3, <1>4, <1>5, <1>6, <1>7 DEF Next

THEOREM InductiveX ==
  Spec => [](IInv /\ XInv)
BY InitInv, StepInv, InitX, StepX, PTL DEF Spec

\* What CarriedOver says of one step.
CarriedStep ==
  \A p \in uncorrected \ uncorrected' : \A G \in OldFuncs(p) :
    HeadLine(old_text[p], G.name) \notin cis[p].del =>
      ResOf(G) \subseteq {x[2] : x \in {y \in res' :
                           y[1] = [path |-> p, gen |-> gen[p], name |-> G.name]}}

LEMMA StepCarries ==
  IInv /\ XInv /\ [Next]_vars => [CarriedStep]_vars
<1> SUFFICES ASSUME IInv, XInv, Next PROVE CarriedStep
  OBVIOUS
<1>1. TypeOK /\ PhaseInv /\ uncorrected \subseteq Path
  BY DEF IInv, TypeOK
<1>2. ASSUME NEW p \in uncorrected \ uncorrected' PROVE RemoveOld(p)
  <2>1. phase = "correct"
    BY <1>1 DEF PhaseInv
  <2>2. \A F : ~ MatchFunction(F) /\ ~ NoMatch(F)
    BY <1>2 DEF MatchFunction, NoMatch
  <2>3. PICK q \in Path : RemoveOld(q)
    BY <2>1, <2>2 DEF Next, BeginCommit, UpdateFuncs, AggregateFuncs
  <2> QED
    BY <1>2, <2>3 DEF RemoveOld
<1>3. ASSUME NEW p \in uncorrected \ uncorrected', NEW G \in OldFuncs(p),
             HeadLine(old_text[p], G.name) \notin cis[p].del
      PROVE  ResOf(G) \subseteq {x[2] : x \in {y \in res' :
                           y[1] = [path |-> p, gen |-> gen[p], name |-> G.name]}}
  <2>1. PICK f \in FuncNames(old_text[p]) : G = OldOf(p, f)
    BY <1>1, LiveChar
  <2>2. G.name = f
    BY <2>1 DEF OldOf
  <2>3. ResOf(OldOf(p, f)) \subseteq {x[2] : x \in {y \in res' : y[1] = NewOf(p, f)}}
    BY <1>1, <1>2, <1>3, <2>2, RemoveX
  <2> QED
    BY <2>1, <2>2, <2>3 DEF NewOf
<1> QED
  BY <1>3 DEF CarriedStep

\* A function whose first line a commit leaves alone keeps its results, for
\* any diffs and in whatever order functions are matched: no neighbour within
\* the three lines is ever nearer.
THEOREM ResultsCarriedOver ==
  Spec => CarriedOver
<1>1. Spec => [][CarriedStep]_vars
  BY InductiveX, StepCarries, PTL DEF Spec
<1> QED
  BY <1>1, PTL DEF CarriedOver, CarriedStep

\* As long as commits edit bodies in place only, every function has the tags
\* of its present version, after any number of them.
THEOREM TagsFreshTheorem ==
  Spec => []TagsFreshInPlace
<1>1. XInv => TagsFreshInPlace
  BY DEF XInv
<1> QED
  BY <1>1, InductiveX, PTL

\* What is then printed is what an analysis from scratch of the versions
\* before and after the commit would have found.
THEOREM RelevanceTheorem ==
  Spec => []RelevanceExact
<1>1. XInv => RelevanceExact
  BY DEF XInv
<1> QED
  BY <1>1, InductiveX, PTL
=============================================================================
