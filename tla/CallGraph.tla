----------------------------- MODULE CallGraph -----------------------------
(***************************************************************************)
(* The incremental call graph of CISA: module management in TypeDive       *)
(* (src/src/callgraph/TypeDive.cc), the pass CallGraphPass                 *)
(* (CallGraph.h, CallGraph.cc) with the first two layers of MLTA           *)
(* (MLTA.cc), and the tables of GlobalContext they share (globalctx.h).    *)
(*                                                                         *)
(* A bitcode file is a path.  What one version of the file contains is a   *)
(* Body; loading a version creates new llvm::Function objects, so a        *)
(* function pointer is a record [path, gen, name, def] where gen counts    *)
(* the loads of that path.  A pointer whose gen is not the loaded one is   *)
(* dangling.  The allocator never hands out an old address again.          *)
(***************************************************************************)
EXTENDS Integers, FiniteSets

CONSTANTS
  Path,        \* bitcode files
  Name,        \* function names
  Sig,         \* values of funcHash / callHash
  Slot,        \* struct fields a function address may be stored into
  NoSlot,      \* an indirect call whose pointer comes from no struct field
  SigOf,       \* the signature hash of each name
  Versions,    \* Versions[p]: what file p may contain, NoBody if unreadable
  NoBody,      \* parseIRFile returned null, or nothing is loaded
  NoFunc,      \* null in GlobalFuncMap
  MaxUpdates   \* bound: how many commits are analysed

(* One version of a bitcode file. *)
Body == [ defs    : SUBSET Name,                \* functions with a body
          statics : SUBSET Name,                \* those with internal linkage
          direct  : SUBSET (Name \X Name),      \* direct calls
          icalls  : SUBSET (Name \X Sig \X (Slot \cup {NoSlot})),
          taken   : SUBSET Name,                \* address-taken functions
          stores  : SUBSET (Name \X Slot),      \* addresses put in a field
          escapes : SUBSET Slot ]               \* fields that escape

WellFormed(b) ==
  /\ b.statics \subseteq b.defs
  /\ \A e \in b.direct : e[1] \in b.defs
  /\ \A i \in b.icalls : i[1] \in b.defs

ASSUME ConstantsAssumption ==
  /\ IsFiniteSet(Path)
  /\ SigOf \in [Name -> Sig]
  /\ NoSlot \notin Slot
  /\ Versions \in [Path -> SUBSET (Body \cup {NoBody})]
  /\ NoBody \notin Body
  /\ \A p \in Path : \A b \in Versions[p] \ {NoBody} : WellFormed(b)
  /\ MaxUpdates \in Nat

Func == [path : Path, gen : Nat, name : Name, def : BOOLEAN]

ASSUME NoFuncAssumption == NoFunc \notin Func

VARIABLES
  body,             \* Modules, ModuleMaps, ModuleRevMaps: the loaded versions
  gen,              \* loads of each path so far (identity of the pointers)
  Callees, Callers, \* sets of pairs <<caller, callee>>
  CallerPaths,      \* pairs <<callee path, caller path>>
  CandCallerPaths,  \* pairs <<signature, caller path>>
  BCFuncs,          \* the definitions of the loaded modules
  GlobalFuncMap,    \* exported name -> its definition
  sigFuncsMap,      \* signature -> address-taken functions
  typeIdxFuncsMap,  \* pairs <<slot, function>>
  funcTypeIdxsMap,  \* the same pairs, as confineTargetFunction records them
  typeEscapeSet,    \* escaped slots
  MIdx,             \* "Index of the module"
  mlist, aff_set,   \* modules of this run, and those only affected by it
  pending,          \* modules of mlist that await doInitialization
  phase,            \* where the driver is
  updates           \* UpdateModules calls so far

loadVars  == <<body, gen>>
edgeVars  == <<Callees, Callers, CallerPaths, CandCallerPaths, BCFuncs>>
tableVars == <<GlobalFuncMap, sigFuncsMap, typeIdxFuncsMap, funcTypeIdxsMap,
               typeEscapeSet>>
runVars   == <<MIdx, mlist, aff_set, pending, phase, updates>>
vars      == <<loadVars, edgeVars, tableVars, runVars>>

-----------------------------------------------------------------------------
(* The functions of the loaded modules. *)

Loaded == {p \in Path : body[p] # NoBody}

\* Names a module mentions: its definitions and its declarations.
Mentioned(b) == b.defs \cup {e[2] : e \in b.direct} \cup b.taken
                  \cup {s[1] : s \in b.stores}

\* The llvm::Function named n of the loaded version of p.
FuncAt(p, n) == [path |-> p, gen |-> gen[p], name |-> n,
                 def |-> n \in body[p].defs]

FuncsOf(p) == IF body[p] = NoBody
              THEN {}
              ELSE {FuncAt(p, n) : n \in Mentioned(body[p])}

DefsOf(p) == {f \in FuncsOf(p) : f.def}

Exported(p) == IF body[p] = NoBody
               THEN {}
               ELSE body[p].defs \ body[p].statics

LiveFuncs == UNION {FuncsOf(p) : p \in Path}
LiveDefs  == {f \in LiveFuncs : f.def}

-----------------------------------------------------------------------------
TypeOK ==
  /\ body \in [Path -> Body \cup {NoBody}]
  /\ gen \in [Path -> Nat]
  /\ Callees \subseteq Func \X Func
  /\ Callers \subseteq Func \X Func
  /\ CallerPaths \subseteq Path \X Path
  /\ CandCallerPaths \subseteq Sig \X Path
  /\ BCFuncs \subseteq Func
  /\ GlobalFuncMap \in [Name -> Func \cup {NoFunc}]
  /\ sigFuncsMap \in [Sig -> SUBSET Func]
  /\ typeIdxFuncsMap \subseteq Slot \X Func
  /\ funcTypeIdxsMap \subseteq Slot \X Func
  /\ typeEscapeSet \subseteq Slot
  /\ MIdx \in Nat
  /\ mlist \subseteq Path /\ aff_set \subseteq mlist /\ pending \subseteq mlist
  /\ phase \in {"start", "init", "post", "ready", "crashed"}
  /\ updates \in 0 .. MaxUpdates

Init ==
  /\ body = [p \in Path |-> NoBody]
  /\ gen = [p \in Path |-> 0]
  /\ Callees = {} /\ Callers = {}
  /\ CallerPaths = {} /\ CandCallerPaths = {} /\ BCFuncs = {}
  /\ GlobalFuncMap = [n \in Name |-> NoFunc]
  /\ sigFuncsMap = [s \in Sig |-> {}]
  /\ typeIdxFuncsMap = {} /\ funcTypeIdxsMap = {} /\ typeEscapeSet = {}
  /\ MIdx = 0
  /\ mlist = {} /\ aff_set = {} /\ pending = {}
  /\ phase = "start"
  /\ updates = 0

(* What the environment can put on disk: a version for each path of U. *)
Contents(U) == {new \in [U -> UNION {Versions[p] : p \in U}] :
                  \A p \in U : new[p] \in Versions[p]}

-----------------------------------------------------------------------------
(* TypeDive::Initialize up to CGPass->run: unreadable files are skipped.   *)
Initialize ==
  /\ phase = "start"
  /\ \E new \in Contents(Path) :
       /\ body' = new
       /\ gen' = [p \in Path |-> IF new[p] = NoBody THEN 0 ELSE 1]
       /\ mlist' = {p \in Path : new[p] # NoBody}
       /\ pending' = {p \in Path : new[p] # NoBody}
  /\ aff_set' = {}
  /\ phase' = "init"
  /\ UNCHANGED <<edgeVars, tableVars, MIdx, updates>>

\* A slip: the known direct callers are forgotten.
AffectedNoCallers(U, new) ==
  {q \in Path \ U : \E p \in {r \in U : new[r] # NoBody} :
     \E n \in new[p].taken : <<SigOf[n], q>> \in CandCallerPaths}

(* AddAff: the loaded modules outside U that are known to call a module    *)
(* of U, or to make indirect calls of the signature of a function whose    *)
(* address a new version takes.  Null modules pull nothing in.             *)
Affected(U, new) ==
  LET read == {p \in U : new[p] # NoBody}
  IN  {q \in Path \ U :
         \E p \in read :
           \/ <<p, q>> \in CallerPaths
           \/ \E n \in new[p].taken : <<SigOf[n], q>> \in CandCallerPaths}

\* A slip: the callers of the callees are not updated.
InvalidatePostCalleesOnly(list) ==
  LET gone == {f \in BCFuncs : f.path \in list}
  IN  /\ Callees' = {e \in Callees : e[1] \notin gone}
      /\ BCFuncs' = BCFuncs \ gone
      /\ UNCHANGED Callers

(* "Invalidate post-analysis results": the edges that leave the functions  *)
(* of the listed modules, in both maps, and the list of those functions.   *)
InvalidatePost(list) ==
  LET gone == {f \in BCFuncs : f.path \in list}
  IN  /\ Callers' = Callers \ {e \in Callees : e[1] \in gone}
      /\ Callees' = {e \in Callees : e[1] \notin gone}
      /\ BCFuncs' = BCFuncs \ gone

\* Slips: the GUIDs of the definitions, or the signatures, are not erased.
InvalidatePreKeepGuids(list) ==
  LET dropped == UNION {FuncsOf(p) : p \in list}
      typed   == {t \in funcTypeIdxsMap : t[2] \in dropped}
  IN  /\ sigFuncsMap' = [s \in Sig |-> IF \E f \in dropped : f.def /\ SigOf[f.name] = s
                                       THEN {} ELSE sigFuncsMap[s]]
      /\ typeIdxFuncsMap' = typeIdxFuncsMap \ typed
      /\ funcTypeIdxsMap' = funcTypeIdxsMap \ typed
      /\ UNCHANGED GlobalFuncMap

InvalidatePreKeepSigs(list) ==
  LET guids == UNION {Exported(p) : p \in list}
      typed == {t \in funcTypeIdxsMap : t[2] \in UNION {FuncsOf(p) : p \in list}}
  IN  /\ GlobalFuncMap' = [n \in Name |-> IF n \in guids THEN NoFunc
                                          ELSE GlobalFuncMap[n]]
      /\ typeIdxFuncsMap' = typeIdxFuncsMap \ typed
      /\ funcTypeIdxsMap' = funcTypeIdxsMap \ typed
      /\ UNCHANGED sigFuncsMap

(* "Invalidate pre-analysis states", read from the versions still loaded:  *)
(* invalidateStates, the GUIDs of the definitions, and every bucket of     *)
(* sigFuncsMap that holds the signature of a definition.                   *)
InvalidatePre(list) ==
  LET dropped == UNION {FuncsOf(p) : p \in list}
      sigs    == {SigOf[f.name] : f \in {g \in dropped : g.def}}
      guids   == UNION {Exported(p) : p \in list}
      typed   == {t \in funcTypeIdxsMap : t[2] \in dropped}
  IN  /\ GlobalFuncMap' = [n \in Name |-> IF n \in guids THEN NoFunc
                                          ELSE GlobalFuncMap[n]]
      /\ sigFuncsMap' = [s \in Sig |-> IF s \in sigs THEN {}
                                       ELSE sigFuncsMap[s]]
      /\ typeIdxFuncsMap' = typeIdxFuncsMap \ typed
      /\ funcTypeIdxsMap' = funcTypeIdxsMap \ typed

(* TypeDive::UpdateModules up to CGPass->run, for the paths U.             *)
UpdateModules(U, new) ==
  LET aff  == Affected(U, new)
      read == {p \in U : new[p] # NoBody}
  IN  /\ phase = "ready"
      /\ updates < MaxUpdates
      /\ InvalidatePost(U \cup aff)
      /\ InvalidatePre(U \cup aff)
      /\ CallerPaths' = {e \in CallerPaths : e[1] \notin read /\ e[2] \notin read}
      /\ CandCallerPaths' = {e \in CandCallerPaths : e[2] \notin read}
      /\ body' = [p \in Path |-> IF p \in U THEN new[p] ELSE body[p]]
      /\ gen' = [p \in Path |-> IF p \in read THEN gen[p] + 1 ELSE gen[p]]
      /\ mlist' = U \cup aff
      /\ aff_set' = aff
      /\ pending' = U \cup aff
      /\ phase' = "init"
      /\ updates' = updates + 1
      /\ UNCHANGED <<typeEscapeSet, MIdx>>

-----------------------------------------------------------------------------
(* CallGraphPass::doInitialization(p): the tables after module p's         *)
(* functions and globals were scanned.                                     *)

SigsAfter(p) == [s \in Sig |->
  sigFuncsMap[s] \cup {FuncAt(p, n) : n \in {m \in body[p].taken : SigOf[m] = s}}]

GuidsAfter(p) == [n \in Name |->
  IF n \in Exported(p) THEN FuncAt(p, n) ELSE GlobalFuncMap[n]]

StoresOf(p) == {<<s[2], FuncAt(p, s[1])>> : s \in body[p].stores}

\* A slip: affected modules are listed, but never scanned.
InTurnUnaffected(p) ==
  /\ phase = "init"
  /\ p \in pending
  /\ p \notin aff_set

(* Modules enter mlist in the order of up_paths, each followed by the      *)
(* affected ones it pulls in: an affected module is never the first.       *)
InTurn(p) ==
  /\ phase = "init"
  /\ p \in pending
  /\ p \in aff_set => mlist \ (aff_set \cup pending) # {}

IsLastModule == Cardinality(Loaded) = MIdx + 1

Scanned(p) ==
  /\ pending' = pending \ {p}
  /\ funcTypeIdxsMap' = funcTypeIdxsMap \cup StoresOf(p)
  /\ typeEscapeSet' = typeEscapeSet \cup body[p].escapes
  /\ GlobalFuncMap' = GuidsAfter(p)
  /\ UNCHANGED <<loadVars, edgeVars, mlist, aff_set, phase, updates>>

InitModule(p) ==
  /\ InTurn(p)
  /\ body[p] # NoBody
  /\ ~IsLastModule
  /\ Scanned(p)
  /\ sigFuncsMap' = SigsAfter(p)
  /\ typeIdxFuncsMap' = typeIdxFuncsMap \cup StoresOf(p)
  /\ MIdx' = MIdx + 1

\* A slip: a declaration without a definition is mapped to null.
ResolvedToNull(S, reached, guids) == (S \ reached) \cup {guids[f.name] : f \in reached}

(* "Map the declaration functions to actual ones": the declarations of S   *)
(* that the loop reaches are replaced by their definition, if there is one.*)
Resolved(S, reached, guids) ==
  (S \ reached) \cup {guids[f.name] : f \in {g \in reached : guids[g.name] # NoFunc}}

(* The same when Ctx->Modules.size() == MIdx.  The loops erase from a      *)
(* std::set they iterate by range-for, which is undefined: they reach some *)
(* of the declarations.  funcTypeIdxsMap is not told.                      *)
InitLastModule(p) ==
  /\ InTurn(p)
  /\ body[p] # NoBody
  /\ IsLastModule
  /\ Scanned(p)
  /\ LET sigs   == SigsAfter(p)
         types  == typeIdxFuncsMap \cup StoresOf(p)
         decls  == {f \in UNION {sigs[s] : s \in Sig} : ~f.def}
         tdecls == {t \in types : ~t[2].def}
     IN  \E reached \in SUBSET decls, treached \in SUBSET tdecls :
           /\ sigFuncsMap' =
                [s \in Sig |-> Resolved(sigs[s], reached \cap sigs[s], GuidsAfter(p))]
           /\ typeIdxFuncsMap' =
                (types \ treached) \cup
                {<<t[1], GuidsAfter(p)[t[2].name]>> :
                   t \in {u \in treached : GuidsAfter(p)[u[2].name] # NoFunc}}
  /\ MIdx' = 0

(* doInitialization(nullptr): "in case of delete files, M can be nullptr". *)
InitNullModule(p) ==
  /\ InTurn(p)
  /\ body[p] = NoBody
  /\ phase' = "crashed"
  /\ UNCHANGED <<loadVars, edgeVars, tableVars, MIdx, mlist, aff_set, pending,
                 updates>>

-----------------------------------------------------------------------------
(* doModulePass / doMLTA. *)

(* A direct call of n in module p: its own definition, the exported        *)
(* definition, or the bare declaration.                                    *)
Link(p, n) == IF n \in body[p].defs \/ GlobalFuncMap[n] = NoFunc
              THEN FuncAt(p, n)
              ELSE GlobalFuncMap[n]

(* findCalleesWithMLTA: first layer by signature, second by struct field.  *)
Targets(s, slot) ==
  IF slot = NoSlot \/ slot \in typeEscapeSet
  THEN sigFuncsMap[s]
  ELSE {f \in sigFuncsMap[s] : <<slot, f>> \in typeIdxFuncsMap}

DirectEdges(p) == {<<FuncAt(p, e[1]), Link(p, e[2])>> : e \in body[p].direct}

IndirectEdges(p) ==
  UNION {{<<FuncAt(p, i[1]), f>> : f \in Targets(i[2], i[3])} : i \in body[p].icalls}

(* doModulePass of every module of mlist: no module's pass reads what      *)
(* another's writes, so their order does not matter.                       *)
ModulePass ==
  LET edges == UNION {DirectEdges(p) \cup IndirectEdges(p) : p \in mlist}
  IN  /\ phase = "init"
      /\ pending = {}
      /\ Callees' = Callees \cup edges
      /\ Callers' = Callers \cup edges
      /\ BCFuncs' = BCFuncs \cup UNION {DefsOf(p) : p \in mlist}
      /\ CallerPaths' = CallerPaths \cup
           UNION {{<<Link(p, e[2]).path, p>> : e \in body[p].direct} : p \in mlist}
      /\ CandCallerPaths' = CandCallerPaths \cup
           UNION {{<<i[2], p>> : i \in body[p].icalls} : p \in mlist}
      /\ MIdx' = MIdx + Cardinality(mlist)
      /\ phase' = "post"
      /\ UNCHANGED <<loadVars, tableVars, mlist, aff_set, pending, updates>>

\* A slip: static definitions are mapped like declarations.
MappedAll(e, misread) ==
  IF GlobalFuncMap[e[2].name] = NoFunc
  THEN {f \in {e} : e[2].def}
  ELSE {<<e[1], GlobalFuncMap[e[2].name]>>}

(* What doFinalization leaves of a callee: a definition, or a freed        *)
(* declaration whose memory now reads as one, stays; a declaration becomes *)
(* its definition or disappears.                                           *)
Mapped(e, misread) ==
  IF e[2].def \/ e[2] \in misread
  THEN {e}
  ELSE IF GlobalFuncMap[e[2].name] = NoFunc
       THEN {}
       ELSE {<<e[1], GlobalFuncMap[e[2].name]>>}

(* doFinalization: Callees of the functions of mlist; Callers stays.       *)
Finalize ==
  /\ phase = "post"
  /\ \E misread \in SUBSET {f \in {e[2] : e \in Callees} \ LiveFuncs : ~f.def} :
       Callees' = {e \in Callees : e[1].path \notin mlist} \cup
                  UNION {Mapped(e, misread) : e \in {d \in Callees : d[1].path \in mlist}}
  /\ phase' = "ready"
  /\ UNCHANGED <<loadVars, Callers, CallerPaths, CandCallerPaths, BCFuncs,
                 tableVars, MIdx, mlist, aff_set, pending, updates>>

-----------------------------------------------------------------------------
Run == \/ \E p \in Path : InitModule(p) \/ InitLastModule(p) \/ InitNullModule(p)
       \/ ModulePass
       \/ Finalize

Next == \/ Initialize
        \/ \E U \in (SUBSET Path) \ {{}} : \E new \in Contents(U) : UpdateModules(U, new)
        \/ Run

Spec == Init /\ [][Next]_vars

-----------------------------------------------------------------------------
(* Properties *)

\* A caller with no indirect call in the version that is loaded.
PlainCaller(c) ==
  body[c.path] # NoBody /\ \A i \in body[c.path].icalls : i[1] # c.name

\* No unreadable file is part of the run.
AllRead == \A p \in mlist : body[p] # NoBody

\* GlobalContext::Callers is never stale for a live definition: each caller
\* it lists is a loaded function, and lists the definition as its callee,
\* however modules were replaced before (the two maps are invalidated by
\* different loops over different keys).
CallersInverse ==
  \A e \in Callers : e[2] \in LiveDefs => e \in Callees /\ e[1] \in BCFuncs

\* A function that makes direct calls only never has a freed callee: the
\* modules that call a replaced module are always re-analysed with it
\* (CallerPaths is pruned and rebuilt at each update).
DirectEdgesLive ==
  AllRead => \A e \in Callees : PlainCaller(e[1]) => e[2] \in LiveFuncs

\* For direct calls Dump never prints "[!]": the callee's Callers entry has
\* the caller, though doFinalization rewrites Callees only.
DirectCallersAgree ==
  AllRead => \A e \in Callees : PlainCaller(e[1]) => e \in Callers

\* GlobalFuncMap, from which doMLTA and doFinalization take pointers they
\* dereference, only holds exported definitions of loaded modules, although
\* entries are overwritten when two modules export a name.
GlobalFuncMapLive ==
  \A n \in Name : GlobalFuncMap[n] # NoFunc =>
    /\ GlobalFuncMap[n] \in LiveDefs
    /\ GlobalFuncMap[n].name = n
    /\ n \in Exported(GlobalFuncMap[n].path)

\* A freed function that is still in sigFuncsMap is a declaration: freed
\* definitions never become targets of an indirect call again, although
\* typeIdxFuncsMap may keep them.
SigDefsLive ==
  \A s \in Sig : \A f \in sigFuncsMap[s] : f.def => f \in LiveDefs

(* Statements of the source that the code does not keep *)

\* TypeDive.cc:118: the list is extended by the modules that "can" call it;
\* so no edge may lead to a freed function when the run is over.
CalleesLive == phase = "ready" => \A e \in Callees : e[2] \in LiveFuncs

\* TypeDive.cc:85: only results from BCs in the list are invalidated.
OthersKept ==
  [][phase = "ready" =>
       \A s \in Sig : \A f \in sigFuncsMap[s] :
         f \in LiveFuncs /\ f.path \notin mlist' => f \in sigFuncsMap'[s]]_vars
=============================================================================
