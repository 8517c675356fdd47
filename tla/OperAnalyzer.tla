---------------------------- MODULE OperAnalyzer ----------------------------
(***************************************************************************)
(* OperationLevelAnalyzer (src/src/analyzer/oper.cc): the tags of the      *)
(* fields that functions modify and refer to, and the cache toplv_tags of  *)
(* what each top-level function of the library modifies and refers to      *)
(* through its subtree.  A commit replaces the program; AnalyzerManager    *)
(* then calls Update for the functions with added lines, one by one, and   *)
(* before and after it Aggregate, which fills the cache.                   *)
(*                                                                         *)
(* A function is its name: _CorrectChanges (module AnalyzerManager) has    *)
(* moved the tags to the new pointers when Update is called.  IsAncestor   *)
(* is taken to be exact, as run gc_fresh shows of the calls made here.     *)
(***************************************************************************)
EXTENDS FiniteSets

CONSTANTS
  Func,      \* function names
  Top,       \* IsTopLV: those with the prefix of the library
  Tag,       \* fields of structs
  MOD, REF,  \* OLATagIdx
  Programs   \* what the source files can make up

Idx == {MOD, REF}

(* A program: its functions, its calls, the fields they modify and refer   *)
(* to.                                                                     *)
Program == [funcs : SUBSET Func, calls : SUBSET (Func \X Func),
            uses : SUBSET (Func \X Idx \X Tag)]

ASSUME ProgramsAssumption ==
  /\ Top \subseteq Func
  /\ MOD # REF
  /\ Programs \subseteq Program
  /\ \A P \in Programs :
       /\ P.calls \subseteq P.funcs \X P.funcs
       /\ \A u \in P.uses : u[1] \in P.funcs

VARIABLES
  program,    \* the program as loaded, with its call graph
  tags,       \* triples <<function, idx, tag>>, of class Analyzer
  keys,       \* the keys of toplv_tags[MOD]
  toplv_tags, \* triples <<top-level function, idx, tag>>
  pending,    \* functions of the commit that Update was not called with yet
  phase

vars == <<program, tags, keys, toplv_tags, pending, phase>>

-----------------------------------------------------------------------------
Closed(P, S) == \A e \in P.calls : e[1] \in S => e[2] \in S

\* What VisitSubtreeBFS visits from F (module GlobalContext): F and all it
\* reaches.
Subtree(P, F) == {G \in Func : \A S \in SUBSET Func : F \in S /\ Closed(P, S) => G \in S}

\* The tags of a subtree.
Gathered(P, T, F, idx) == {u[3] : u \in {v \in T : v[1] \in Subtree(P, F) /\ v[2] = idx}}

Entry(sc, idx) == {u[3] : u \in {v \in toplv_tags : v[1] = sc /\ v[2] = idx}}

\* No top-level function calls another one, through whatever functions.
TopsApart == \A P \in Programs : \A sc \in Top : Subtree(P, sc) \cap Top \subseteq {sc}

-----------------------------------------------------------------------------
TypeOK ==
  /\ program \in Programs
  /\ tags \subseteq Func \X Idx \X Tag
  /\ keys \subseteq Top
  /\ toplv_tags \subseteq keys \X Idx \X Tag
  /\ pending \subseteq program.funcs
  /\ phase \in {"ready", "update", "crashed"}

(* AnalyzerManager::Initialize has called Update for every function. *)
Init ==
  /\ program \in Programs
  /\ tags = program.uses
  /\ keys = Top \cap program.funcs
  /\ toplv_tags = {}
  /\ pending = {}
  /\ phase = "ready"

-----------------------------------------------------------------------------
\* GetOrFindTopLVTags of every key and both indices: an entry that is empty
\* is gathered anew.
Filled ==
  {u \in keys \X Idx \X Tag :
     IF Entry(u[1], u[2]) # {}
     THEN u \in toplv_tags
     ELSE u[3] \in Gathered(program, tags, u[1], u[2])}

(* The calls of Aggregate before a commit is loaded and after its updates; *)
(* the first of them fills the cache for all functions.                    *)
Aggregate ==
  /\ phase = "ready"
  /\ toplv_tags' = Filled
  /\ UNCHANGED <<program, tags, keys, pending, phase>>

CallsOf(P, F) == {e \in P.calls : e[1] = F}
UsesOf(P, F)  == {u \in P.uses : u[1] = F}

\* The functions of the new program Q that are not as they were in P.
Changed(P, Q) ==
  {F \in Q.funcs : \/ F \notin P.funcs
                   \/ CallsOf(P, F) # CallsOf(Q, F)
                   \/ UsesOf(P, F) # UsesOf(Q, F)}

(* A commit is loaded; post_funcs are the functions with added lines:      *)
(* those that changed, and maybe others.  (A commit that only deletes      *)
(* lines of a function is the subject of run am_deletion.)                 *)
Commit(new, post_funcs) ==
  /\ phase = "ready"
  /\ Changed(program, new) \subseteq post_funcs
  /\ post_funcs \subseteq new.funcs
  /\ program' = new
  /\ tags' = {u \in tags : u[1] \in new.funcs}
  /\ pending' = post_funcs
  /\ phase' = IF post_funcs = {} THEN "ready" ELSE "update"
  /\ UNCHANGED <<keys, toplv_tags>>

-----------------------------------------------------------------------------
(* Remove(F) and Update(F). *)

Extracted(F) ==
  /\ phase = "update"
  /\ F \in pending
  /\ tags' = {u \in tags : u[1] # F} \cup UsesOf(program, F)
  /\ pending' = pending \ {F}
  /\ phase' = IF pending = {F} THEN "ready" ELSE "update"
  /\ UNCHANGED program

\* A slip: every function is taken for a top-level one.
UpdateAnyTop(F) ==
  /\ Extracted(F)
  /\ keys' = keys \cup {F}
  /\ toplv_tags' = {u \in toplv_tags : u[1] # F}

\* "Manage "toplv_tags"": the entries of a top-level function are cleared.
UpdateTop(F) ==
  /\ F \in Top
  /\ Extracted(F)
  /\ keys' = keys \cup {F}
  /\ toplv_tags' = {u \in toplv_tags : u[1] # F}

\* The keys whose entry of index 0, MOD, is not empty: only these are
\* looked at.
Filling == {sc \in keys : Entry(sc, MOD) # {}}

\* A slip: only direct callers are ancestors.
AncestorsDirect(F) == {sc \in Filling : <<sc, F>> \in program.calls}

\* Those that IsAncestor answers yes for.
Ancestors(F) == {sc \in Filling : F \in Subtree(program, sc)}

\* They lose that entry; the one of index REF stays.
UpdateOther(F) ==
  /\ F \notin Top
  /\ Filling \subseteq program.funcs
  /\ Extracted(F)
  /\ toplv_tags' = {u \in toplv_tags : u[1] \notin Ancestors(F) \/ u[2] # MOD}
  /\ UNCHANGED keys

\* "assert(TopLVF);": GetFunction does not find a top-level function that a
\* commit removed.
AssertFails(F) ==
  /\ phase = "update"
  /\ F \in pending \ Top
  /\ ~(Filling \subseteq program.funcs)
  /\ phase' = "crashed"
  /\ UNCHANGED <<program, tags, keys, toplv_tags, pending>>

Update(F) == UpdateTop(F) \/ UpdateOther(F) \/ AssertFails(F)

Next ==
  \/ Aggregate
  \/ \E new \in Programs, post_funcs \in SUBSET Func : Commit(new, post_funcs)
  \/ \E F \in Func : Update(F)

Spec == Init /\ [][Next]_vars

-----------------------------------------------------------------------------
(* Properties *)

\* Once every function of a commit is updated, what toplv_tags holds of the
\* fields a top-level function modifies is what gathering it anew would
\* give, although entries are only cleared through the new call graph
\* ("TODO: invalidate pre-change toplv deps", oper.cc:76): a path that is
\* gone was cut at a function that the new graph still reaches.
ModCacheExact ==
  phase = "ready" =>
    \A sc \in keys \cap program.funcs :
      Entry(sc, MOD) # {} => Entry(sc, MOD) = Gathered(program, tags, sc, MOD)

\* The top-level functions Aggregate reports for F, when it intersects the
\* tags under F with those of each key; all of them if there is none.
OrAllOf(K, S) == IF S = {} THEN K ELSE S

TopLVs(F) == OrAllOf(keys, {sc \in keys : \E idx \in Idx, t \in Tag :
                /\ t \in Gathered(program, tags, F, idx)
                /\ \E o \in Idx \ {idx} : <<sc, o, t>> \in Filled})

TopLVsAnew(F) == OrAllOf(keys, {sc \in keys : \E idx \in Idx, t \in Tag :
                /\ t \in Gathered(program, program.uses, F, idx)
                /\ \E o \in Idx \ {idx} : t \in Gathered(program, program.uses, sc, o)})

\* README.md:22: "Aggregate is always called after every possible Update has
\* been called first, so it's safe to assume _all_ entities in the source
\* code have up-to-date analysis states": what Aggregate reports is what it
\* would report had the program been analysed from nothing.
AggregateExact ==
  phase = "ready" => \A F \in program.funcs : TopLVs(F) = TopLVsAnew(F)
=============================================================================
