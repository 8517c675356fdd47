--------------------------- MODULE AnalyzerManager ---------------------------
(***************************************************************************)
(* AnalyzerManager (src/src/analman.cc) and the tags of the analyzers it   *)
(* drives (src/src/analyzer/analyzer.h): the analysis of one commit after  *)
(* another.  Tags hang on llvm::Function pointers, which a commit          *)
(* replaces, so _CorrectChanges has to find out which new function each    *)
(* old one has become.                                                     *)
(*                                                                         *)
(* A source file is its lines: the line a function starts at is its name,  *)
(* a line that mentions something an analyzer tags is that tag, and End is *)
(* the line of the function's last instruction.  A function pointer is a   *)
(* record [path, gen, name]; gen counts the loads of the path.             *)
(***************************************************************************)
EXTENDS DiffLines, Sequences

CONSTANTS
  Path,          \* source files, or their bitcode files
  Name,          \* function names
  Tag,           \* what an analyzer extracts from a line
  End,           \* the line of the last instruction of a function
  Texts,         \* Texts[p]: what file p may contain
  Reaches,       \* pairs of names: the walks of Aggregate in the call graph
  MaxCommits     \* bound: commits that are analysed

Line == Name \cup Tag \cup {End}

ASSUME TextsAssumption ==
  /\ Name \cap Tag = {} /\ End \notin Name \cup Tag
  /\ Reaches \subseteq Name \X Name
  /\ MaxCommits \in Nat
  /\ \A p \in Path : \A t \in Texts[p] :
       /\ t \in Seq(Line)
       /\ t # <<>> => t[1] \in Name
       /\ \A i, j \in 1 .. Len(t) : t[i] = t[j] /\ t[i] \in Name => i = j

VARIABLES
  text,        \* the loaded version of each file
  gen,         \* loads of each file so far
  tags,        \* pairs <<function, tag>>, of all analyzers
  res,         \* cur.res: pairs <<function, tag>>
  cis,         \* cur.cis: the deleted and added lines of each file
  old_text,    \* what the pointers of funcs_map_pre refer to
  up_paths, do_agg,
  unmatched,   \* new functions that _CorrectChanges has still to match
  uncorrected, \* files whose _CorrectChanges has not ended
  phase,
  commits,
  in_place     \* every commit so far only edited bodies, see InPlace

fileVars   == <<text, gen, old_text>>
commitVars == <<cis, up_paths, do_agg, commits, in_place>>
vars == <<fileVars, commitVars, tags, res, unmatched, uncorrected, phase>>

-----------------------------------------------------------------------------
(* Functions and lines of a version of a file. *)

FuncNames(t) == {t[i] : i \in 1 .. Len(t)} \cap Name

\* _GetPrototypeLine
HeadLine(t, f) == CHOOSE i \in 1 .. Len(t) : t[i] = f

\* The lines of f are those from its head to the next function's.
LinesOf(t, f) == {i \in HeadLine(t, f) .. Len(t) :
                    \A j \in HeadLine(t, f) + 1 .. i : t[j] \notin Name}

\* A slip: every line is taken for a tag.
ExtractAll(t, f) == {t[i] : i \in LinesOf(t, f)} \ Name

\* What Update finds in the function.
Extract(t, f) == {t[i] : i \in LinesOf(t, f)} \cap Tag

\* The debug location of F->back().back(), 0 when there is none.
TailLine(t, f) == LET ends == {i \in LinesOf(t, f) : t[i] = End}
                  IN  IF ends = {} THEN 0 ELSE CHOOSE i \in ends : \A j \in ends : j <= i

\* _GetChangedFuncs
ChangedFuncs(t, ch_lines) ==
  {f \in FuncNames(t) : \E l \in ch_lines : HeadLine(t, f) <= l /\ l <= TailLine(t, f)}

Func == [path : Path, gen : Nat, name : Name]

FuncsIn(p, g, t) == {[path |-> p, gen |-> g, name |-> f] : f \in FuncNames(t)}

NewFuncs(p) == FuncsIn(p, gen[p], text[p])
LiveFuncs   == UNION {NewFuncs(p) : p \in Path}
OldFuncs(p) == FuncsIn(p, gen[p] - 1, old_text[p])     \* for p in up_paths

TagsOf(F) == {x[2] : x \in {y \in tags : y[1] = F}}
ResOf(F)  == {x[2] : x \in {y \in res : y[1] = F}}

-----------------------------------------------------------------------------
(* The diffs between two versions: the lines in neither set are equal, and *)
(* a diff is no longer than it need be.                                    *)
IsDiff(o, n, del, add) ==
  /\ Len(o) - Cardinality(del) = Len(n) - Cardinality(add)
  /\ \A i \in (1 .. Len(o)) \ del, j \in (1 .. Len(n)) \ add :
       Rank(del, i) = Rank(add, j) => o[i] = n[j]

Diffs(o, n) ==
  LET all == {d \in [del : SUBSET (1 .. Len(o)), add : SUBSET (1 .. Len(n))] :
                IsDiff(o, n, d.del, d.add)}
  IN  {d \in all : \A e \in all : Cardinality(d.del) <= Cardinality(e.del)}

AllTexts == UNION {Texts[p] : p \in Path}
DiffTable == UNION {{x} \X Diffs(x[1], x[2]) :
                      x \in UNION {Texts[p] \X Texts[p] : p \in Path}}
DiffsOf(o, n) == {x[2] : x \in {y \in DiffTable : y[1] = <<o, n>>}}

(* An edit in place: no head line is touched, and a function whose tags    *)
(* change has an added line that _GetChangedFuncs attributes to it.        *)
InPlace(o, n, d) ==
  /\ \A i \in d.del : o[i] \notin Name
  /\ \A j \in d.add : n[j] \notin Name
  /\ \A f \in FuncNames(n) : Extract(o, f) # Extract(n, f) => f \in ChangedFuncs(n, d.add)

-----------------------------------------------------------------------------
TypeOK ==
  /\ text \in [Path -> AllTexts] /\ old_text \in [Path -> AllTexts]
  /\ gen \in [Path -> Nat]
  /\ tags \subseteq Func \X Tag
  /\ res \subseteq Func \X Tag
  /\ \A p \in up_paths : cis[p] \in DiffsOf(old_text[p], text[p])
  /\ up_paths \subseteq Path /\ do_agg \in BOOLEAN
  /\ unmatched \subseteq LiveFuncs
  /\ uncorrected \subseteq up_paths
  /\ phase \in {"ready", "correct", "update", "aggregate"}
  /\ commits \in 0 .. MaxCommits /\ in_place \in BOOLEAN

(* Initialize: the files of the first commit are loaded and every function *)
(* is updated.                                                             *)
Init ==
  /\ text \in {t \in [Path -> AllTexts] : \A p \in Path : t[p] \in Texts[p]}
  /\ gen = [p \in Path |-> 1]
  /\ old_text = text
  /\ tags = UNION {{[path |-> x[1], gen |-> 1, name |-> x[2]]} \X Extract(text[x[1]], x[2]) :
                     x \in {y \in Path \X Name : y[2] \in FuncNames(text[y[1]])}}
  /\ res = {}
  /\ cis = [p \in {} |-> {}]
  /\ up_paths = {} /\ do_agg = FALSE
  /\ unmatched = {} /\ uncorrected = {}
  /\ phase = "ready"
  /\ commits = 0
  /\ in_place = TRUE

\* An empty relevance set is replaced by the full one.
OrAll(S) == IF S = {} THEN Tag ELSE S

(* _Aggregate(F): the tags of F and of the functions its walk reaches. *)
Aggregated(F) == OrAll(UNION {TagsOf(G) : G \in {H \in LiveFuncs :
                                H = F \/ <<F.name, H.name>> \in Reaches}})

(* UpdateModules up to the calls of _CorrectChanges: the old functions     *)
(* with deleted lines are aggregated, then the new versions are loaded.    *)
BeginCommit(U, new, agg) ==
  /\ phase = "ready"
  /\ commits < MaxCommits
  /\ \E ci \in [U -> UNION {DiffsOf(text[p], new[p]) : p \in U}] :
       /\ \A p \in U : ci[p] \in DiffsOf(text[p], new[p])
       /\ in_place' = (in_place /\ \A p \in U : InPlace(text[p], new[p], ci[p]))
       /\ cis' = ci
       /\ LET pre_funcs == {F \in LiveFuncs :
                              F.path \in U /\ F.name \in ChangedFuncs(text[F.path], ci[F.path].del)}
          IN  res' = IF agg THEN UNION {{F} \X Aggregated(F) : F \in pre_funcs} ELSE {}
  /\ old_text' = text
  /\ text' = [p \in Path |-> IF p \in U THEN new[p] ELSE text[p]]
  /\ gen' = [p \in Path |-> IF p \in U THEN gen[p] + 1 ELSE gen[p]]
  /\ unmatched' = UNION {FuncsIn(p, gen[p] + 1, new[p]) : p \in U}
  /\ up_paths' = U /\ uncorrected' = U
  /\ do_agg' = agg
  /\ commits' = commits + 1
  /\ phase' = "correct"
  /\ UNCHANGED tags

-----------------------------------------------------------------------------
(* _CorrectChanges *)

\* The condition that is commented out in _GetRedefFuncs: only functions
\* whose first line was deleted.
RedefOnly(p) == {G \in OldFuncs(p) : HeadLine(old_text[p], G.name) \in cis[p].del}

\* _GetRedefFuncs: "Non-name-changed functions need to be matched too".
RedefFuncs(p) == OldFuncs(p)

\* A slip: the line of the new version is not mapped.
DistanceUnmapped(F, G) ==
  LET d == HeadLine(old_text[G.path], G.name) - HeadLine(text[F.path], F.name)
  IN  IF d < 0 THEN -d ELSE d

\* How far the old function G starts from where the new function F would
\* have started.
Distance(F, G) ==
  LET pre == MapPostToPreLine(cis[F.path].add, cis[F.path].del, HeadLine(text[F.path], F.name))
      d   == HeadLine(old_text[G.path], G.name) - pre
  IN  IF d < 0 THEN -d ELSE d

\* A slip: the first old function within three lines.
MatchingFirst(F) == {G \in RedefFuncs(F.path) : Distance(F, G) <= 3}

\* The old functions the search can stop at: of those within three lines, a
\* nearest one, whichever of two comes first in del_flps.
Matching(F) ==
  {G \in RedefFuncs(F.path) :
     /\ Distance(F, G) <= 3
     /\ \A H \in RedefFuncs(F.path) : Distance(F, G) <= Distance(F, H)}

(* One turn of the loop over new_flps: Move the tags of the matching old   *)
(* function, which may have lost them to another one, and copy its results.*)
MatchFunction(F) ==
  /\ phase = "correct"
  /\ F \in unmatched
  /\ \E G \in Matching(F) :
       /\ tags' = {x \in tags : x[1] \notin {F, G}} \cup ({F} \X TagsOf(G))
       /\ res' = res \cup ({F} \X ResOf(G))
  /\ unmatched' = unmatched \ {F}
  /\ UNCHANGED <<fileVars, commitVars, uncorrected, phase>>

NoMatch(F) ==
  /\ phase = "correct"
  /\ F \in unmatched
  /\ Matching(F) = {}
  /\ unmatched' = unmatched \ {F}
  /\ UNCHANGED <<fileVars, commitVars, tags, res, uncorrected, phase>>

(* "Remove state data." *)
RemoveOld(p) ==
  /\ phase = "correct"
  /\ p \in uncorrected
  /\ \A F \in unmatched : F.path # p
  /\ tags' = {x \in tags : x[1] \notin RedefFuncs(p)}
  /\ res' = {x \in res : x[1] \notin RedefFuncs(p)}
  /\ uncorrected' = uncorrected \ {p}
  /\ phase' = IF uncorrected = {p} THEN "update" ELSE "correct"
  /\ UNCHANGED <<fileVars, commitVars, unmatched>>

PostFuncs == {F \in LiveFuncs : F.path \in up_paths /\
                F.name \in ChangedFuncs(text[F.path], cis[F.path].add)}

\* A slip: Update without Remove.
UpdateOnly ==
  /\ phase = "update"
  /\ tags' = tags \cup UNION {{F} \X Extract(text[F.path], F.name) : F \in PostFuncs}
  /\ phase' = "aggregate"
  /\ UNCHANGED <<fileVars, commitVars, res, unmatched, uncorrected>>

(* _Update of the functions with added lines: Remove, then Update. *)
UpdateFuncs ==
  /\ phase = "update"
  /\ tags' = {x \in tags : x[1] \notin PostFuncs} \cup
             UNION {{F} \X Extract(text[F.path], F.name) : F \in PostFuncs}
  /\ phase' = "aggregate"
  /\ UNCHANGED <<fileVars, commitVars, res, unmatched, uncorrected>>

\* A slip: the results of the old version are replaced, not extended.
AggregateAnew ==
  /\ phase = "aggregate"
  /\ res' = IF do_agg
            THEN {x \in res : x[1] \notin PostFuncs} \cup
                 UNION {{F} \X Aggregated(F) : F \in PostFuncs}
            ELSE res
  /\ phase' = "ready"
  /\ UNCHANGED <<fileVars, commitVars, tags, unmatched, uncorrected>>

(* _Aggregate of the same functions, and _Commit, which prints res. *)
AggregateFuncs ==
  /\ phase = "aggregate"
  /\ res' = IF do_agg
            THEN res \cup UNION {{F} \X Aggregated(F) : F \in PostFuncs}
            ELSE res
  /\ phase' = "ready"
  /\ UNCHANGED <<fileVars, commitVars, tags, unmatched, uncorrected>>

Next ==
  \/ \E U \in (SUBSET Path) \ {{}} : \E new \in [U -> AllTexts], agg \in BOOLEAN :
       (\A p \in U : new[p] \in Texts[p]) /\ BeginCommit(U, new, agg)
  \/ \E F \in unmatched : MatchFunction(F) \/ NoMatch(F)
  \/ \E p \in Path : RemoveOld(p)
  \/ UpdateFuncs
  \/ AggregateFuncs

Spec == Init /\ [][Next]_vars

-----------------------------------------------------------------------------
(* Properties *)

\* Between commits no tag and no result hangs on a freed function, though
\* _CorrectChanges works with freed pointers throughout ("Old pointers may
\* be freed by now, so we'd better be careful", analman.cc:303): a later
\* function at the same address inherits nothing.
NoTagOnFreed ==
  phase \in {"update", "aggregate", "ready"} => \A x \in tags \cup res : x[1] \in LiveFuncs

\* A function whose first line the commit leaves alone keeps the results of
\* its old version, wherever the line has moved and whatever neighbours the
\* search looks at first: res of the old pointer is only erased after it was
\* copied to the function's new pointer.
CarriedOver ==
  [][\A p \in uncorrected \ uncorrected' : \A G \in OldFuncs(p) :
       HeadLine(old_text[p], G.name) \notin cis[p].del =>
         ResOf(G) \subseteq {x[2] : x \in {y \in res' :
                              y[1] = [path |-> p, gen |-> gen[p], name |-> G.name]}}]_vars

\* When results are aggregated, a function with an added line has the tags
\* of its new version and none of the version it was matched with, although
\* Move wrote the old ones to the same key.
ChangedFresh ==
  phase = "aggregate" =>
    \A F \in PostFuncs : TagsOf(F) = Extract(text[F.path], F.name)

\* README.md:22: "Aggregate is always called after every possible Update has
\* been called first, so it's safe to assume _all_ entities in the source
\* code have up-to-date analysis states."
TagsFresh ==
  phase \in {"aggregate", "ready"} =>
    \A F \in LiveFuncs : TagsOf(F) = Extract(text[F.path], F.name)

\* Commits that only edit bodies, whatever their number, keep it: every
\* function has the tags of its present version.
TagsFreshInPlace == in_place => TagsFresh

\* What a function of version t of the files is relevant to, computed anew.
Relevant(t, p, f) ==
  OrAll(UNION {Extract(t[x[1]], x[2]) : x \in {y \in Path \X Name :
                 /\ y[2] \in FuncNames(t[y[1]])
                 /\ y = <<p, f>> \/ <<f, y[2]>> \in Reaches}})

\* What is printed for a commit in place is, for every function of the
\* commit, what an analysis from scratch of the versions before and after it
\* would have found, the first if lines were deleted in it and the second if
\* lines were added: the incremental analysis is exact.
RelevanceExact ==
  phase = "ready" /\ do_agg /\ in_place =>
    \A p \in up_paths : \A f \in FuncNames(text[p]) :
      ResOf([path |-> p, gen |-> gen[p], name |-> f]) =
        (IF f \in ChangedFuncs(old_text[p], cis[p].del) THEN Relevant(old_text, p, f) ELSE {})
        \cup (IF f \in ChangedFuncs(text[p], cis[p].add) THEN Relevant(text, p, f) ELSE {})
=============================================================================
