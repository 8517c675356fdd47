------------------------- MODULE OperAnalyzerProofs -------------------------
(***************************************************************************)
(* Proof that toplv_tags never holds an outdated set of modified fields    *)
(* when the updates of a commit are over, for every set of programs in     *)
(* which no top-level function reaches another one.                        *)
(***************************************************************************)
EXTENDS OperAnalyzer, TLAPS

\* The driver is at rest only when no function awaits its update.
PhaseInv == phase = "ready" => pending = {}

\* An entry is exact, or a function under its key is still to be updated.
CacheInv ==
  \A sc \in keys \cap program.funcs :
    Entry(sc, MOD) # {} =>
      \/ Entry(sc, MOD) = Gathered(program, tags, sc, MOD)
      \/ \E F \in pending : F \in Subtree(program, sc)

IInv == TypeOK /\ PhaseInv /\ CacheInv

-----------------------------------------------------------------------------
(* Subtrees. *)

\* What a program is.
LEMMA ProgramParts ==
  ASSUME NEW P \in Programs
  PROVE  /\ P.funcs \subseteq Func
         /\ P.calls \subseteq P.funcs \X P.funcs
         /\ P.uses \subseteq P.funcs \X Idx \X Tag
<1>1. P \in Program
  BY ProgramsAssumption
<1>2. P.funcs \subseteq Func /\ P.uses \subseteq Func \X Idx \X Tag
  BY <1>1 DEF Program
<1>3. P.calls \subseteq P.funcs \X P.funcs /\ \A u \in P.uses : u[1] \in P.funcs
  BY ProgramsAssumption
<1> QED
  BY <1>2, <1>3

\* The subtree of F has F and is closed under calls.
LEMMA SubtreeClosed ==
  ASSUME NEW P \in Programs, NEW F \in Func
  PROVE  /\ F \in Subtree(P, F)
         /\ Closed(P, Subtree(P, F))
         /\ Subtree(P, F) \subseteq Func
<1>1. F \in Subtree(P, F) /\ Subtree(P, F) \subseteq Func
  BY DEF Subtree
<1>2. ASSUME NEW e \in P.calls, e[1] \in Subtree(P, F)
      PROVE  e[2] \in Subtree(P, F)
  <2>1. e[2] \in Func
    BY ProgramParts
  <2>2. ASSUME NEW S \in SUBSET Func, F \in S, Closed(P, S) PROVE e[2] \in S
    <3>1. e[1] \in S
      BY <1>2, <2>2 DEF Subtree
    <3> QED
      BY <2>2, <3>1 DEF Closed
  <2> QED
    BY <2>1, <2>2 DEF Subtree
<1> QED
  BY <1>1, <1>2 DEF Closed

\* It is the least such set.
LEMMA SubtreeLeast ==
  ASSUME NEW P \in Programs, NEW F \in Func, NEW S \in SUBSET Func,
         F \in S, Closed(P, S)
  PROVE  Subtree(P, F) \subseteq S
BY DEF Subtree

\* A function of a program reaches only functions of the program.
LEMMA SubtreeInProgram ==
  ASSUME NEW P \in Programs, NEW F \in P.funcs
  PROVE  Subtree(P, F) \subseteq P.funcs
<1>1. P.funcs \subseteq Func /\ Closed(P, P.funcs)
  BY ProgramParts DEF Closed
<1> QED
  BY <1>1, SubtreeLeast

\* If nothing changed in the subtree that F has in the new program, it is
\* the subtree F had in the old one: a path is not cut but at a function
\* that the new program reaches as well.
LEMMA SubtreeUnchanged ==
  ASSUME NEW P \in Programs, NEW Q \in Programs, NEW F \in Q.funcs,
         Subtree(Q, F) \cap Changed(P, Q) = {}
  PROVE  F \in P.funcs /\ Subtree(P, F) = Subtree(Q, F)
<1> DEFINE S == Subtree(Q, F)
           T == Subtree(P, F)
<1>1. /\ F \in Func /\ F \in S /\ Closed(Q, S) /\ S \subseteq Func
      /\ F \in T /\ Closed(P, T) /\ T \subseteq Func
      /\ S \subseteq Q.funcs
  BY ProgramParts, SubtreeClosed, SubtreeInProgram
<1>2. \A G \in S : G \in P.funcs /\ CallsOf(P, G) = CallsOf(Q, G)
  BY <1>1 DEF Changed
<1>3. \A e : e[1] \in S => (e \in P.calls <=> e \in Q.calls)
  BY <1>2 DEF CallsOf
<1>4. Closed(P, S)
  BY <1>1, <1>3 DEF Closed
<1>5. T \subseteq S
  BY <1>1, <1>4, SubtreeLeast
<1>6. Closed(Q, T)
  BY <1>1, <1>3, <1>5 DEF Closed
<1>7. S \subseteq T
  BY <1>1, <1>6, SubtreeLeast
<1> QED
  BY <1>1, <1>2, <1>5, <1>7

\* Tags of other functions do not matter to what is gathered.
LEMMA GatheredSame ==
  ASSUME NEW P, NEW Q, NEW T, NEW U, NEW F, NEW idx,
         Subtree(P, F) = Subtree(Q, F),
         \A u : u[1] \in Subtree(P, F) => (u \in T <=> u \in U)
  PROVE  Gathered(P, T, F, idx) = Gathered(Q, U, F, idx)
BY DEF Gathered

-----------------------------------------------------------------------------
\* The invariant holds at first.
LEMMA InitInv == Init => IInv
<1> SUFFICES ASSUME Init PROVE IInv
  OBVIOUS
<1>1. program \in Programs /\ program.funcs \subseteq Func
      /\ program.uses \subseteq program.funcs \X Idx \X Tag
  BY ProgramParts DEF Init
<1>2. TypeOK
  BY <1>1, ProgramsAssumption DEF Init, TypeOK
<1>3. PhaseInv
  BY DEF Init, PhaseInv
<1>4. CacheInv
  BY DEF Init, CacheInv, Entry
<1> QED
  BY <1>2, <1>3, <1>4 DEF IInv

\* Filling the cache makes every entry exact.
LEMMA AggregateStep ==
  ASSUME IInv, Aggregate
  PROVE  IInv'
<1>1. TypeOK'
  BY DEF IInv, TypeOK, Aggregate, Filled
<1>2. PhaseInv'
  BY DEF IInv, PhaseInv, Aggregate
<1>3. ASSUME NEW sc \in keys \cap program.funcs
      PROVE  Entry(sc, MOD)' = Gathered(program, tags, sc, MOD)
  <2>1. \A v : v \in Entry(sc, MOD)' <=> <<sc, MOD, v>> \in Filled
    <3>1. Filled \subseteq keys \X Idx \X Tag
      BY DEF Filled
    <3>2. \A u \in Filled : u = <<u[1], u[2], u[3]>>
      BY <3>1
    <3>3. toplv_tags' = Filled
      BY DEF Aggregate
    <3> QED
      BY <3>2, <3>3 DEF Entry
  <2>2. \A v : v \in Entry(sc, MOD) <=> <<sc, MOD, v>> \in toplv_tags
    <3>1. \A u \in toplv_tags : u = <<u[1], u[2], u[3]>>
      BY DEF IInv, TypeOK
    <3> QED
      BY <3>1 DEF Entry
  <2>3. Gathered(program, tags, sc, MOD) \subseteq Tag
    BY DEF Gathered, IInv, TypeOK
  <2>4. Entry(sc, MOD) # {} => Entry(sc, MOD) = Gathered(program, tags, sc, MOD)
    BY DEF IInv, CacheInv, PhaseInv, Aggregate
  <2>5. MOD \in Idx /\ toplv_tags \subseteq keys \X Idx \X Tag
    BY DEF Idx, IInv, TypeOK
  <2>6. CASE Entry(sc, MOD) # {}
    <3>1. \A v : <<sc, MOD, v>> \in Filled <=> <<sc, MOD, v>> \in toplv_tags
      BY <2>5, <2>6 DEF Filled
    <3> QED
      BY <2>1, <2>2, <2>4, <2>6, <3>1
  <2>7. CASE Entry(sc, MOD) = {}
    <3>1. \A v : <<sc, MOD, v>> \in Filled <=> v \in Gathered(program, tags, sc, MOD)
      BY <2>3, <2>5, <2>7 DEF Filled
    <3> QED
      BY <2>1, <3>1
  <2> QED
    BY <2>6, <2>7
<1>4. CacheInv'
  BY <1>3 DEF CacheInv, Gathered, Aggregate
<1> QED
  BY <1>1, <1>2, <1>4 DEF IInv

\* A commit leaves an entry exact unless something under its key changed,
\* and what changed awaits its update.
LEMMA CommitStep ==
  ASSUME IInv, NEW new \in Programs, NEW post_funcs \in SUBSET Func,
         Commit(new, post_funcs)
  PROVE  IInv'
<1>1. TypeOK'
  BY DEF IInv, TypeOK, Commit
<1>2. PhaseInv'
  BY DEF PhaseInv, Commit
<1>3. ASSUME NEW sc \in keys \cap new.funcs, Entry(sc, MOD) # {},
             \A F \in post_funcs : F \notin Subtree(new, sc)
      PROVE  Entry(sc, MOD) = Gathered(new, tags', sc, MOD)
  <2>1. program \in Programs /\ Changed(program, new) \subseteq post_funcs
    BY DEF IInv, TypeOK, Commit
  <2>2. sc \in program.funcs /\ Subtree(program, sc) = Subtree(new, sc)
    BY <1>3, <2>1, SubtreeUnchanged
  <2>3. Entry(sc, MOD) = Gathered(program, tags, sc, MOD)
    BY <1>3, <2>2 DEF IInv, CacheInv, PhaseInv, Commit
  <2>4. Subtree(new, sc) \subseteq new.funcs
    BY SubtreeInProgram
  <2>5. \A u : u[1] \in Subtree(program, sc) => (u \in tags <=> u \in tags')
    BY <2>2, <2>4 DEF Commit
  <2> QED
    BY <2>2, <2>3, <2>5, GatheredSame
<1>4. CacheInv'
  BY <1>3 DEF CacheInv, Commit, Entry
<1> QED
  BY <1>1, <1>2, <1>4 DEF IInv

\* What Remove and Update do to the tags keeps types and phases.
LEMMA ExtractedTypes ==
  ASSUME IInv, NEW F \in Func, Extracted(F)
  PROVE  /\ program' = program /\ program \in Programs
         /\ tags' \subseteq Func \X Idx \X Tag
         /\ pending' \subseteq program'.funcs
         /\ phase' \in {"ready", "update", "crashed"}
         /\ PhaseInv'
<1>1. program' = program /\ program \in Programs /\ UsesOf(program, F) \subseteq program.uses
  BY DEF IInv, TypeOK, Extracted, UsesOf
<1>2. program.uses \subseteq Func \X Idx \X Tag
  BY <1>1, ProgramParts
<1> QED
  BY <1>1, <1>2 DEF IInv, TypeOK, Extracted, PhaseInv

\* Updating F leaves the entries of keys that do not reach F as they were.
LEMMA EntryKept ==
  ASSUME IInv, NEW F \in Func, Extracted(F),
         NEW sc \in keys \cap program.funcs, F \notin Subtree(program, sc),
         Entry(sc, MOD) # {}, Entry(sc, MOD)' = Entry(sc, MOD)
  PROVE  \/ Entry(sc, MOD)' = Gathered(program', tags', sc, MOD)
         \/ \E G \in pending' : G \in Subtree(program', sc)
<1>1. program' = program /\ pending' = pending \ {F}
  BY DEF Extracted
<1>2. \A u : u[1] \in Subtree(program, sc) => (u \in tags <=> u \in tags')
  BY DEF Extracted, UsesOf
<1>3. Gathered(program, tags, sc, MOD) = Gathered(program', tags', sc, MOD)
  BY <1>1, <1>2, GatheredSame
<1>4. \/ Entry(sc, MOD) = Gathered(program, tags, sc, MOD)
      \/ \E G \in pending : G \in Subtree(program, sc)
  BY DEF IInv, CacheInv
<1> QED
  BY <1>1, <1>3, <1>4

LEMMA UpdateTopStep ==
  ASSUME TopsApart, IInv, NEW F \in Func, UpdateTop(F)
  PROVE  IInv'
<1>1. Extracted(F) /\ F \in Top
  BY DEF UpdateTop
<1>2. TypeOK'
  BY <1>1, ExtractedTypes DEF IInv, TypeOK, UpdateTop
<1>3. ASSUME NEW sc \in keys' \cap program'.funcs, Entry(sc, MOD)' # {}
      PROVE  \/ Entry(sc, MOD)' = Gathered(program', tags', sc, MOD)
             \/ \E G \in pending' : G \in Subtree(program', sc)
  <2>1. sc # F
    BY <1>3 DEF Entry, UpdateTop
  <2>2. Entry(sc, MOD)' = Entry(sc, MOD)
    BY <2>1 DEF Entry, UpdateTop
  <2>3. sc \in keys \cap program.funcs /\ sc \in Top
    BY <1>1, <2>1, ExtractedTypes DEF UpdateTop, IInv, TypeOK
  <2>4. F \notin Subtree(program, sc)
    BY <1>1, <2>1, <2>3, ExtractedTypes DEF TopsApart
  <2> QED
    BY <1>1, <1>3, <2>2, <2>3, <2>4, EntryKept
<1>4. CacheInv'
  BY <1>3 DEF CacheInv
<1> QED
  BY <1>1, <1>2, <1>4, ExtractedTypes DEF IInv

LEMMA UpdateOtherStep ==
  ASSUME IInv, NEW F \in Func, UpdateOther(F)
  PROVE  IInv'
<1>1. Extracted(F)
  BY DEF UpdateOther
<1>2. TypeOK'
  BY <1>1, ExtractedTypes DEF IInv, TypeOK, UpdateOther
<1>3. ASSUME NEW sc \in keys' \cap program'.funcs, Entry(sc, MOD)' # {}
      PROVE  \/ Entry(sc, MOD)' = Gathered(program', tags', sc, MOD)
             \/ \E G \in pending' : G \in Subtree(program', sc)
  <2>1. sc \in keys \cap program.funcs
    BY <1>1, ExtractedTypes DEF UpdateOther
  <2>2. sc \notin Ancestors(F)
    BY <1>3 DEF Entry, UpdateOther
  <2>3. Entry(sc, MOD)' = Entry(sc, MOD)
    BY <2>2 DEF Entry, UpdateOther
  <2>4. F \notin Subtree(program, sc)
    BY <1>3, <2>1, <2>2, <2>3 DEF Ancestors, Filling
  <2> QED
    BY <1>1, <1>3, <2>1, <2>3, <2>4, EntryKept
<1>4. CacheInv'
  BY <1>3 DEF CacheInv
<1> QED
  BY <1>1, <1>2, <1>4, ExtractedTypes DEF IInv

LEMMA AssertFailsStep ==
  ASSUME IInv, NEW F \in Func, AssertFails(F)
  PROVE  IInv'
<1>1. TypeOK' /\ PhaseInv'
  BY DEF IInv, TypeOK, PhaseInv, AssertFails
<1>2. CacheInv'
  BY DEF IInv, CacheInv, AssertFails, Entry, Gathered
<1> QED
  BY <1>1, <1>2 DEF IInv

\* The invariant holds in every reachable state.
THEOREM Inductive ==
  ASSUME TopsApart
  PROVE  Spec => []IInv
<1>1. IInv /\ [Next]_vars => IInv'
  <2> SUFFICES ASSUME IInv, [Next]_vars PROVE IInv'
    OBVIOUS
  <2>1. CASE Aggregate
    BY <2>1, AggregateStep
  <2>2. CASE \E new \in Programs, post_funcs \in SUBSET Func : Commit(new, post_funcs)
    BY <2>2, CommitStep
  <2>3. ASSUME NEW F \in Func, Update(F) PROVE IInv'
    <3>1. CASE UpdateTop(F)
      BY <3>1, UpdateTopStep
    <3>2. CASE UpdateOther(F)
      BY <3>2, UpdateOtherStep
    <3>3. CASE AssertFails(F)
      BY <3>3, AssertFailsStep
    <3> QED
      BY <2>3, <3>1, <3>2, <3>3 DEF Update
  <2>4. CASE UNCHANGED vars
    <3>1. TypeOK' /\ PhaseInv'
      BY <2>4 DEF IInv, TypeOK, PhaseInv, vars
    <3>2. CacheInv'
      BY <2>4 DEF IInv, CacheInv, vars, Entry, Gathered
    <3> QED
      BY <3>1, <3>2 DEF IInv
  <2> QED
    BY <2>1, <2>2, <2>3, <2>4 DEF Next
<1> QED
  BY <1>1, InitInv, PTL DEF Spec

\* The cached sets of modified fields are those of the current program
\* whenever no update is under way.
THEOREM ModCacheTheorem ==
  ASSUME TopsApart
  PROVE  Spec => []ModCacheExact
<1>1. IInv => ModCacheExact
  BY DEF IInv, PhaseInv, CacheInv, ModCacheExact
<1> QED
  BY <1>1, Inductive, PTL

\* The cache has top-level keys only, and an update has only functions of
\* the new program before it, for any programs and without TopsApart.
THEOREM TypeCorrect == Spec => []TypeOK
<1>1. Init => TypeOK
  BY ProgramsAssumption DEF Init, TypeOK, Program, Idx
<1>2. TypeOK /\ [Next]_vars => TypeOK'
  <2> SUFFICES ASSUME TypeOK, [Next]_vars PROVE TypeOK'
    OBVIOUS
  <2>1. CASE Aggregate
    BY <2>1 DEF Aggregate, Filled, TypeOK
  <2>2. ASSUME NEW new \in Programs, NEW post_funcs \in SUBSET Func, Commit(new, post_funcs)
        PROVE  TypeOK'
    BY <2>2 DEF Commit, TypeOK
  <2>3. ASSUME NEW F \in Func, Update(F)
        PROVE  TypeOK'
    <3>1. UsesOf(program, F) \subseteq Func \X Idx \X Tag
      BY ProgramsAssumption DEF UsesOf, TypeOK, Program
    <3>2. CASE UpdateTop(F)
      BY <3>1, <3>2 DEF UpdateTop, Extracted, TypeOK
    <3>3. CASE UpdateOther(F)
      BY <3>1, <3>3 DEF UpdateOther, Extracted, TypeOK
    <3>4. CASE AssertFails(F)
      BY <3>4 DEF AssertFails, TypeOK
    <3> QED
      BY <2>3, <3>2, <3>3, <3>4 DEF Update
  <2>4. CASE UNCHANGED vars
    BY <2>4 DEF vars, TypeOK
  <2> QED
    BY <2>1, <2>2, <2>3, <2>4 DEF Next
<1> QED
  BY <1>1, <1>2, PTL DEF Spec
=============================================================================
