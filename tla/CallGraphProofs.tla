-------------------------- MODULE CallGraphProofs --------------------------
(***************************************************************************)
(* Theorems about CallGraph, for every set of files, every set of versions *)
(* and any number of updates: its invariants, and, in the second half,     *)
(* that it implements LinkedCalls, its liveness apart, for programs that   *)
(* link: the graph repaired module by module is the graph of the current   *)
(* program.                                                                *)
(***************************************************************************)
EXTENDS CallGraphLinked, FiniteSetTheorems, TLAPS

(* Every loaded version is well formed. *)
BodiesWellFormed == \A p \in Path : body[p] # NoBody => WellFormed(body[p])

(* No table knows a version of a file that was not loaded yet. *)
Known(f) == f.gen <= gen[f.path]

Fresh ==
  /\ \A e \in Callees \cup Callers : Known(e[1]) /\ Known(e[2])
  /\ \A s \in Sig : \A f \in sigFuncsMap[s] : Known(f)

(* Only definitions of loaded modules are listed in BCFuncs, and only they *)
(* have callees.                                                           *)
BCFuncsLive  == BCFuncs \subseteq LiveDefs
SourcesListed == \A e \in Callees : e[1] \in BCFuncs

(* Where the driver is: nothing is known at the start; before the pass the *)
(* modules of mlist have no listed function; after it none is pending; an  *)
(* unreadable module is never initialised.                                 *)
DriverInv ==
  /\ phase = "start" =>
       /\ Callees = {} /\ Callers = {} /\ BCFuncs = {}
       /\ GlobalFuncMap = [n \in Name |-> NoFunc]
       /\ sigFuncsMap = [s \in Sig |-> {}]
  /\ phase = "init" => \A f \in BCFuncs : f.path \notin mlist
  /\ phase \in {"post", "ready"} => pending = {}
  /\ \A p \in mlist \ pending : body[p] # NoBody

(* A function stands in the bucket of its signature. *)
SigSorted == \A s \in Sig : \A f \in sigFuncsMap[s] : SigOf[f.name] = s

(* Every direct edge is registered, so that an update finds its source. *)
Registered ==
  AllRead => \A e \in Callees :
    PlainCaller(e[1]) => <<e[2].path, e[1].path>> \in CallerPaths

(* Before doFinalization runs, it has nothing to map for direct calls. *)
PlainResolved ==
  phase = "post" /\ AllRead =>
    \A e \in Callees : PlainCaller(e[1]) /\ e[1].path \in mlist =>
      e[2].def \/ GlobalFuncMap[e[2].name] = NoFunc

IInv ==
  /\ TypeOK
  /\ BodiesWellFormed
  /\ Fresh
  /\ BCFuncsLive
  /\ SourcesListed
  /\ DriverInv
  /\ SigSorted
  /\ CallersInverse
  /\ GlobalFuncMapLive
  /\ SigDefsLive
  /\ Registered
  /\ PlainResolved
  /\ DirectEdgesLive
  /\ DirectCallersAgree

-----------------------------------------------------------------------------
(* Lemmas about the functions of a module *)

\* The functions a version mentions have names, its definitions among them.
LEMMA MentionedNames ==
  ASSUME NEW b \in Body
  PROVE  /\ Mentioned(b) \subseteq Name
         /\ b.defs \subseteq Mentioned(b)
         /\ \A e \in b.direct : e \in Name \X Name /\ e[2] \in Mentioned(b)
         /\ b.taken \subseteq Mentioned(b)
         /\ \A i \in b.icalls : i[1] \in Name /\ i[2] \in Sig
  BY DEF Body, Mentioned

\* FuncAt names a function object.
LEMMA FuncAtType ==
  ASSUME gen \in [Path -> Nat], NEW p \in Path, NEW n \in Name
  PROVE  /\ FuncAt(p, n) \in Func
         /\ FuncAt(p, n).path = p
         /\ FuncAt(p, n).name = n
         /\ FuncAt(p, n).gen = gen[p]
         /\ FuncAt(p, n).def = (n \in body[p].defs)
         /\ Known(FuncAt(p, n))
  BY DEF FuncAt, Func, Known

\* What a live function is.
LEMMA LiveFuncsChar ==
  ASSUME gen \in [Path -> Nat], body \in [Path -> Body \cup {NoBody}], NEW f
  PROVE  f \in LiveFuncs <=>
           \E p \in Path : body[p] # NoBody /\
             \E n \in Mentioned(body[p]) : f = FuncAt(p, n)
  BY DEF LiveFuncs, FuncsOf

\* Live functions are function objects of the loaded version of their file.
LEMMA LiveFuncsType ==
  ASSUME gen \in [Path -> Nat], body \in [Path -> Body \cup {NoBody}],
         NEW f \in LiveFuncs
  PROVE  /\ f \in Func
         /\ body[f.path] # NoBody
         /\ f.gen = gen[f.path]
         /\ Known(f)
         /\ f \in FuncsOf(f.path)
         /\ f.def => f \in DefsOf(f.path) /\ f.name \in body[f.path].defs
<1>1. PICK p \in Path : body[p] # NoBody /\
             \E n \in Mentioned(body[p]) : f = FuncAt(p, n)
  BY LiveFuncsChar
<1>2. PICK n \in Mentioned(body[p]) : f = FuncAt(p, n)
  BY <1>1
<1>3. n \in Name
  BY <1>1, <1>2, MentionedNames
<1>4. f \in Func /\ f.path = p /\ f.name = n /\ f.gen = gen[p] /\ Known(f)
       /\ f.def = (n \in body[p].defs)
  BY <1>1, <1>2, <1>3, FuncAtType
<1>5. f \in FuncsOf(p)
  BY <1>1, <1>2 DEF FuncsOf
<1>6. f.def => f \in DefsOf(p) /\ n \in body[p].defs
  BY <1>4, <1>5 DEF DefsOf
<1>7. QED
  BY <1>1, <1>4, <1>5, <1>6

\* A mentioned name of a loaded module is a live function; a defined one is
\* a live definition.
LEMMA FuncAtLive ==
  ASSUME gen \in [Path -> Nat], body \in [Path -> Body \cup {NoBody}],
         NEW p \in Path, body[p] # NoBody, NEW n \in Mentioned(body[p])
  PROVE  /\ FuncAt(p, n) \in LiveFuncs
         /\ n \in body[p].defs => FuncAt(p, n) \in LiveDefs
<1>1. n \in Name
  BY MentionedNames
<1>2. FuncAt(p, n) \in LiveFuncs
  BY DEF LiveFuncs, FuncsOf
<1>3. QED
  BY <1>1, <1>2, FuncAtType DEF LiveDefs

\* While no module is loaded or unloaded, the live functions stay the same.
LEMMA LiveUnchanged ==
  ASSUME UNCHANGED loadVars
  PROVE  /\ LiveFuncs' = LiveFuncs
         /\ LiveDefs' = LiveDefs
         /\ \A q : Exported(q)' = Exported(q)
  BY DEF loadVars, LiveFuncs, LiveDefs, FuncsOf, FuncAt, Exported

-----------------------------------------------------------------------------
(* The invariant holds initially and after loading the first program *)

LEMMA InitIInv == Init => IInv
<1> SUFFICES ASSUME Init PROVE IInv
  OBVIOUS
<1> USE DEF Init
<1>1. TypeOK
  BY ConstantsAssumption DEF TypeOK
<1>2. LiveFuncs = {}
  BY DEF LiveFuncs, FuncsOf
<1>3. BodiesWellFormed /\ Fresh /\ BCFuncsLive /\ SourcesListed /\ DriverInv
  BY DEF BodiesWellFormed, Fresh, BCFuncsLive, SourcesListed, DriverInv
<1>4. SigSorted /\ CallersInverse /\ GlobalFuncMapLive /\ SigDefsLive
  BY DEF SigSorted, CallersInverse, GlobalFuncMapLive, SigDefsLive
<1>5. Registered /\ PlainResolved /\ DirectEdgesLive /\ DirectCallersAgree
  BY DEF Registered, PlainResolved, DirectEdgesLive, DirectCallersAgree
<1>6. QED
  BY <1>1, <1>3, <1>4, <1>5 DEF IInv

\* What the environment puts on disk is a well-formed version per path.
LEMMA ContentsType ==
  ASSUME NEW U \in SUBSET Path, NEW new \in Contents(U)
  PROVE  /\ \A p \in U : new[p] \in Body \cup {NoBody}
         /\ \A p \in U : new[p] # NoBody => WellFormed(new[p])
         /\ DOMAIN new = U
<1>1. \A p \in U : new[p] \in Versions[p]
  BY DEF Contents
<1>2. \A p \in U : Versions[p] \subseteq Body \cup {NoBody}
  BY ConstantsAssumption
<1>3. DOMAIN new = U
  BY DEF Contents
<1>4. QED
  BY <1>1, <1>2, <1>3, ConstantsAssumption

LEMMA InitializeStep ==
  ASSUME IInv, Initialize
  PROVE  IInv'
<1> USE DEF IInv
<1>1. PICK new \in Contents(Path) :
        /\ body' = new
        /\ gen' = [p \in Path |-> IF new[p] = NoBody THEN 0 ELSE 1]
        /\ mlist' = {p \in Path : new[p] # NoBody}
        /\ pending' = {p \in Path : new[p] # NoBody}
  BY DEF Initialize
<1>2. /\ phase = "start" /\ phase' = "init"
      /\ UNCHANGED <<edgeVars, tableVars, MIdx, updates>>
      /\ aff_set' = {}
  BY DEF Initialize
<1>3. /\ \A p \in Path : new[p] \in Body \cup {NoBody}
      /\ \A p \in Path : new[p] # NoBody => WellFormed(new[p])
      /\ new \in [Path -> Body \cup {NoBody}]
  BY ContentsType DEF Contents
<1>4. /\ Callees' = {} /\ Callers' = {} /\ BCFuncs' = {}
      /\ GlobalFuncMap' = [n \in Name |-> NoFunc]
      /\ sigFuncsMap' = [s \in Sig |-> {}]
  BY <1>2 DEF DriverInv, edgeVars, tableVars
<1>5. TypeOK'
  <2>1. /\ body' \in [Path -> Body \cup {NoBody}]
        /\ gen' \in [Path -> Nat]
        /\ mlist' \subseteq Path /\ pending' \subseteq mlist'
        /\ aff_set' \subseteq mlist'
    BY <1>1, <1>2, <1>3
  <2>2. UNCHANGED <<CallerPaths, CandCallerPaths, typeIdxFuncsMap,
                    funcTypeIdxsMap, typeEscapeSet, MIdx, updates>>
    BY <1>2 DEF edgeVars, tableVars
  <2>3. QED
    BY <1>2, <1>4, <2>1, <2>2 DEF TypeOK
<1>6. BodiesWellFormed'
  BY <1>1, <1>3 DEF BodiesWellFormed
<1>7. Fresh' /\ BCFuncsLive' /\ SourcesListed' /\ SigSorted'
  BY <1>4 DEF Fresh, BCFuncsLive, SourcesListed, SigSorted
<1>8. DriverInv'
  BY <1>1, <1>2, <1>4 DEF DriverInv
<1>9. CallersInverse' /\ GlobalFuncMapLive' /\ SigDefsLive'
  BY <1>4 DEF CallersInverse, GlobalFuncMapLive, SigDefsLive
<1>10. Registered' /\ PlainResolved' /\ DirectEdgesLive' /\ DirectCallersAgree'
  BY <1>4 DEF Registered, PlainResolved, DirectEdgesLive, DirectCallersAgree
<1>11. QED
  BY <1>5, <1>6, <1>7, <1>8, <1>9, <1>10

-----------------------------------------------------------------------------
(* doInitialization *)

\* The definitions a module exports are live, under their own name.
LEMMA ExportedLive ==
  ASSUME IInv, NEW p \in Path, body[p] # NoBody, NEW n \in Exported(p)
  PROVE  FuncAt(p, n) \in LiveDefs /\ FuncAt(p, n) \in Func
         /\ FuncAt(p, n).name = n /\ FuncAt(p, n).path = p
<1>1. n \in body[p].defs /\ body[p] \in Body
  BY DEF Exported, IInv, TypeOK
<1>2. n \in Mentioned(body[p]) /\ n \in Name
  BY <1>1, MentionedNames
<1>3. QED
  BY <1>1, <1>2, FuncAtLive, FuncAtType DEF IInv, TypeOK

\* GlobalFuncMap after a module was scanned.
LEMMA GuidsAfterLive ==
  ASSUME IInv, NEW p \in Path, body[p] # NoBody
  PROVE  /\ GuidsAfter(p) \in [Name -> Func \cup {NoFunc}]
         /\ \A n \in Name : GuidsAfter(p)[n] # NoFunc =>
              /\ GuidsAfter(p)[n] \in LiveDefs /\ GuidsAfter(p)[n].name = n
              /\ n \in Exported(GuidsAfter(p)[n].path)
<1>1. \A n \in Name : GuidsAfter(p)[n] # NoFunc =>
        /\ GuidsAfter(p)[n] \in LiveDefs /\ GuidsAfter(p)[n].name = n
        /\ GuidsAfter(p)[n] \in Func
        /\ n \in Exported(GuidsAfter(p)[n].path)
  BY ExportedLive DEF GuidsAfter, IInv, TypeOK, GlobalFuncMapLive
<1>2. QED
  BY <1>1 DEF GuidsAfter

\* What a table of functions by signature must satisfy.
GoodSigs(m) ==
  /\ m \in [Sig -> SUBSET Func]
  /\ \A s \in Sig : \A x \in m[s] :
       Known(x) /\ SigOf[x.name] = s /\ (x.def => x \in LiveDefs)

LEMMA SigsAfterGood ==
  ASSUME IInv, NEW p \in Path, body[p] # NoBody
  PROVE  GoodSigs(SigsAfter(p))
<1>1. ASSUME NEW s \in Sig, NEW n \in body[p].taken, SigOf[n] = s
      PROVE  /\ FuncAt(p, n) \in Func /\ Known(FuncAt(p, n))
             /\ FuncAt(p, n).name = n
             /\ FuncAt(p, n).def => FuncAt(p, n) \in LiveDefs
  <2>1. body[p] \in Body
    BY DEF IInv, TypeOK
  <2>2. n \in Mentioned(body[p]) /\ n \in Name
    BY <2>1, MentionedNames
  <2>3. FuncAt(p, n) \in LiveFuncs
    BY <2>2, FuncAtLive DEF IInv, TypeOK
  <2>4. FuncAt(p, n).def => FuncAt(p, n) \in LiveDefs
    BY <2>3 DEF LiveDefs
  <2>5. QED
    BY <2>2, <2>4, FuncAtType DEF IInv, TypeOK
<1>2. ASSUME NEW s \in Sig, NEW x \in SigsAfter(p)[s]
      PROVE  /\ x \in Func /\ Known(x) /\ SigOf[x.name] = s
             /\ x.def => x \in LiveDefs
  <2>1. CASE x \in sigFuncsMap[s]
    BY <2>1 DEF IInv, TypeOK, Fresh, SigSorted, SigDefsLive
  <2>2. CASE x \notin sigFuncsMap[s]
    <3>1. PICK n \in {m \in body[p].taken : SigOf[m] = s} : x = FuncAt(p, n)
      BY <2>2 DEF SigsAfter
    <3>2. QED
      BY <1>1, <3>1
  <2>3. QED
    BY <2>1, <2>2
<1>3. SigsAfter(p) \in [Sig -> SUBSET Func]
  BY <1>2 DEF SigsAfter
<1>4. QED
  BY <1>2, <1>3 DEF GoodSigs

\* The addresses a module stores are those of its function objects.
LEMMA StoresOfType ==
  ASSUME IInv, NEW p \in Path, body[p] # NoBody
  PROVE  StoresOf(p) \subseteq Slot \X Func
<1>1. body[p] \in Body
  BY DEF IInv, TypeOK
<1>2. \A s \in body[p].stores : s[1] \in Name /\ s[2] \in Slot
  BY <1>1 DEF Body
<1>3. QED
  BY <1>2, FuncAtType DEF StoresOf, IInv, TypeOK

\* A module that is scanned keeps the invariant if it leaves good tables.
LEMMA ScannedStep ==
  ASSUME IInv, NEW p \in Path, InTurn(p), body[p] # NoBody, Scanned(p),
         GoodSigs(sigFuncsMap'), typeIdxFuncsMap' \subseteq Slot \X Func,
         MIdx' \in Nat
  PROVE  IInv'
<1> USE DEF IInv
<1>1. /\ UNCHANGED <<body, gen, Callees, Callers, CallerPaths, CandCallerPaths,
                     BCFuncs, mlist, aff_set, phase, updates>>
      /\ UNCHANGED loadVars
      /\ pending' = pending \ {p}
      /\ phase = "init"
  BY DEF Scanned, loadVars, edgeVars, InTurn
<1>2. LiveFuncs' = LiveFuncs /\ LiveDefs' = LiveDefs
      /\ \A q : Exported(q)' = Exported(q)
  BY <1>1, LiveUnchanged
<1>3. TypeOK'
  <2>1. StoresOf(p) \subseteq Slot \X Func
    BY StoresOfType
  <2>2. body[p].escapes \subseteq Slot
    BY DEF TypeOK, Body
  <2>3. /\ funcTypeIdxsMap' \subseteq Slot \X Func
        /\ typeEscapeSet' \subseteq Slot
        /\ GlobalFuncMap' \in [Name -> Func \cup {NoFunc}]
    BY <2>1, <2>2, GuidsAfterLive DEF Scanned, TypeOK
  <2>4. QED
    BY <1>1, <2>3 DEF TypeOK, GoodSigs
<1>4. BodiesWellFormed' /\ BCFuncsLive' /\ SourcesListed'
  BY <1>1, <1>2 DEF BodiesWellFormed, BCFuncsLive, SourcesListed
<1>5. Fresh' /\ SigSorted' /\ SigDefsLive'
  BY <1>1, <1>2 DEF Fresh, SigSorted, SigDefsLive, GoodSigs, Known
<1>6. DriverInv'
  BY <1>1 DEF DriverInv
<1>7. GlobalFuncMapLive'
  BY <1>2, GuidsAfterLive DEF Scanned, GlobalFuncMapLive
<1>8. CallersInverse'
  BY <1>1, <1>2 DEF CallersInverse
<1>9. AllRead' = AllRead /\ \A c : PlainCaller(c)' = PlainCaller(c)
  BY <1>1 DEF AllRead, PlainCaller
<1>10. Registered' /\ PlainResolved' /\ DirectEdgesLive' /\ DirectCallersAgree'
  BY <1>1, <1>2, <1>9
     DEF Registered, PlainResolved, DirectEdgesLive, DirectCallersAgree
<1>11. QED
  BY <1>3, <1>4, <1>5, <1>6, <1>7, <1>8, <1>10

LEMMA InitModuleStep ==
  ASSUME IInv, NEW p \in Path, InitModule(p)
  PROVE  IInv'
<1>1. typeIdxFuncsMap' \subseteq Slot \X Func
  BY StoresOfType DEF InitModule, IInv, TypeOK
<1>2. QED
  BY <1>1, SigsAfterGood, ScannedStep DEF InitModule, IInv, TypeOK

\* Mapping declarations to definitions keeps a bucket good.
LEMMA ResolvedGood ==
  ASSUME IInv, NEW p \in Path, body[p] # NoBody,
         NEW reached, NEW s \in Sig,
         NEW x \in Resolved(SigsAfter(p)[s], reached \cap SigsAfter(p)[s],
                            GuidsAfter(p))
  PROVE  /\ x \in Func /\ Known(x) /\ SigOf[x.name] = s
         /\ x.def => x \in LiveDefs
<1> DEFINE S == SigsAfter(p)[s]
<1>1. \A y \in S : /\ y \in Func /\ Known(y) /\ SigOf[y.name] = s
                   /\ y.def => y \in LiveDefs
  BY SigsAfterGood DEF GoodSigs
<1>2. CASE x \in S
  BY <1>1, <1>2
<1>3. CASE x \notin S
  <2>1. PICK y \in S : x = GuidsAfter(p)[y.name]
                       /\ GuidsAfter(p)[y.name] # NoFunc
    BY <1>3 DEF Resolved
  <2>2. y.name \in Name /\ SigOf[y.name] = s
    BY <1>1 DEF Func
  <2>3. x \in LiveDefs /\ x.name = y.name
    BY <2>1, <2>2, GuidsAfterLive
  <2>4. x \in LiveFuncs
    BY <2>3 DEF LiveDefs
  <2>5. x \in Func /\ Known(x)
    BY <2>4, LiveFuncsType DEF IInv, TypeOK
  <2>6. QED
    BY <2>2, <2>3, <2>5
<1>4. QED
  BY <1>2, <1>3

LEMMA InitLastModuleStep ==
  ASSUME IInv, NEW p \in Path, InitLastModule(p)
  PROVE  IInv'
<1> DEFINE sigs   == SigsAfter(p)
           types  == typeIdxFuncsMap \cup StoresOf(p)
           decls  == {f \in UNION {sigs[s] : s \in Sig} : ~f.def}
           tdecls == {t \in types : ~t[2].def}
<1>1. InTurn(p) /\ body[p] # NoBody /\ Scanned(p) /\ MIdx' = 0
  BY DEF InitLastModule
<1>2. PICK reached \in SUBSET decls, treached \in SUBSET tdecls :
        /\ sigFuncsMap' =
             [s \in Sig |-> Resolved(sigs[s], reached \cap sigs[s], GuidsAfter(p))]
        /\ typeIdxFuncsMap' =
             (types \ treached) \cup
             {<<t[1], GuidsAfter(p)[t[2].name]>> :
                t \in {u \in treached : GuidsAfter(p)[u[2].name] # NoFunc}}
  BY DEF InitLastModule
<1>3. GoodSigs(sigFuncsMap')
  <2>1. \A s \in Sig : \A x \in sigFuncsMap'[s] :
          /\ x \in Func /\ Known(x) /\ SigOf[x.name] = s
          /\ x.def => x \in LiveDefs
    BY <1>1, <1>2, ResolvedGood
  <2>2. sigFuncsMap' \in [Sig -> SUBSET Func]
    BY <1>2, <2>1
  <2>3. QED
    BY <2>1, <2>2 DEF GoodSigs
<1>4. typeIdxFuncsMap' \subseteq Slot \X Func
  <2>1. types \subseteq Slot \X Func
    BY <1>1, StoresOfType DEF IInv, TypeOK
  <2>2. \A t \in treached : GuidsAfter(p)[t[2].name] # NoFunc =>
          <<t[1], GuidsAfter(p)[t[2].name]>> \in Slot \X Func
    <3>1. ASSUME NEW t \in treached
          PROVE  t[1] \in Slot /\ t[2].name \in Name
      BY <2>1 DEF Func
    <3>2. QED
      BY <1>1, <3>1, GuidsAfterLive
  <2>3. QED
    BY <1>2, <2>1, <2>2
<1>5. QED
  BY <1>1, <1>3, <1>4, ScannedStep

LEMMA InitNullModuleStep ==
  ASSUME IInv, NEW p \in Path, InitNullModule(p)
  PROVE  IInv'
<1> USE DEF IInv
<1>1. /\ UNCHANGED <<body, gen, Callees, Callers, CallerPaths, CandCallerPaths,
                     BCFuncs, GlobalFuncMap, sigFuncsMap, typeIdxFuncsMap,
                     funcTypeIdxsMap, typeEscapeSet, MIdx, mlist, aff_set,
                     pending, updates>>
      /\ UNCHANGED loadVars
      /\ phase = "init" /\ phase' = "crashed"
  BY DEF InitNullModule, InTurn, loadVars, edgeVars, tableVars
<1>2. LiveFuncs' = LiveFuncs /\ LiveDefs' = LiveDefs
      /\ \A q : Exported(q)' = Exported(q)
  BY <1>1, LiveUnchanged
<1>3. TypeOK' /\ BodiesWellFormed' /\ DriverInv'
  BY <1>1 DEF TypeOK, BodiesWellFormed, DriverInv
<1>4. /\ Fresh' /\ BCFuncsLive' /\ SourcesListed' /\ SigSorted'
      /\ CallersInverse' /\ GlobalFuncMapLive' /\ SigDefsLive'
  BY <1>1, <1>2 DEF Fresh, BCFuncsLive, SourcesListed, SigSorted, Known,
     CallersInverse, GlobalFuncMapLive, SigDefsLive
<1>5. AllRead' = AllRead /\ \A c : PlainCaller(c)' = PlainCaller(c)
  BY <1>1 DEF AllRead, PlainCaller
<1>6. Registered' /\ PlainResolved' /\ DirectEdgesLive' /\ DirectCallersAgree'
  BY <1>1, <1>2, <1>5
     DEF Registered, PlainResolved, DirectEdgesLive, DirectCallersAgree
<1>7. QED
  BY <1>3, <1>4, <1>6

-----------------------------------------------------------------------------
(* doModulePass *)

\* The sources of a module's calls are its definitions.
LEMMA SourceFacts ==
  ASSUME IInv, NEW p \in Path, body[p] # NoBody, NEW n \in body[p].defs
  PROVE  /\ FuncAt(p, n) \in DefsOf(p) /\ FuncAt(p, n) \in LiveDefs
         /\ FuncAt(p, n) \in Func /\ Known(FuncAt(p, n))
         /\ FuncAt(p, n).path = p /\ FuncAt(p, n).name = n
<1>1. body[p] \in Body
  BY DEF IInv, TypeOK
<1>2. n \in Name /\ n \in Mentioned(body[p])
  BY <1>1, MentionedNames
<1>3. FuncAt(p, n) \in LiveDefs
  BY <1>2, FuncAtLive DEF IInv, TypeOK
<1>4. FuncAt(p, n) \in LiveFuncs /\ FuncAt(p, n).def
  BY <1>3 DEF LiveDefs
<1>5. FuncAt(p, n).path = p /\ FuncAt(p, n).name = n /\ FuncAt(p, n) \in Func
      /\ Known(FuncAt(p, n))
  BY <1>2, FuncAtType DEF IInv, TypeOK
<1>6. FuncAt(p, n) \in DefsOf(p)
  BY <1>4, <1>5, LiveFuncsType DEF IInv, TypeOK
<1>7. QED
  BY <1>3, <1>5, <1>6

\* A linked call leads to a live function; to a declaration only if nothing
\* exports the name.
LEMMA LinkFacts ==
  ASSUME IInv, NEW p \in Path, body[p] # NoBody, NEW n \in Name,
         n \in Mentioned(body[p])
  PROVE  /\ Link(p, n) \in LiveFuncs /\ Link(p, n) \in Func
         /\ Known(Link(p, n)) /\ Link(p, n).path \in Path
         /\ Link(p, n).def \/ GlobalFuncMap[Link(p, n).name] = NoFunc
<1>1. Link(p, n) \in LiveFuncs
  <2>1. CASE n \in body[p].defs \/ GlobalFuncMap[n] = NoFunc
    BY <2>1, FuncAtLive DEF Link, IInv, TypeOK
  <2>2. CASE ~(n \in body[p].defs \/ GlobalFuncMap[n] = NoFunc)
    BY <2>2 DEF Link, IInv, GlobalFuncMapLive, LiveDefs
  <2>3. QED
    BY <2>1, <2>2
<1>2. Link(p, n) \in Func /\ Known(Link(p, n))
  BY <1>1, LiveFuncsType DEF IInv, TypeOK
<1>3. Link(p, n).def \/ GlobalFuncMap[Link(p, n).name] = NoFunc
  <2>1. CASE n \in body[p].defs
    <3>1. Link(p, n) = FuncAt(p, n)
      BY <2>1 DEF Link
    <3>2. FuncAt(p, n) \in LiveDefs
      BY <2>1, SourceFacts
    <3>3. QED
      BY <3>1, <3>2 DEF LiveDefs
  <2>2. CASE n \notin body[p].defs /\ GlobalFuncMap[n] = NoFunc
    <3>1. Link(p, n) = FuncAt(p, n)
      BY <2>2 DEF Link
    <3>2. FuncAt(p, n).name = n
      BY FuncAtType DEF IInv, TypeOK
    <3>3. QED
      BY <2>2, <3>1, <3>2
  <2>3. CASE n \notin body[p].defs /\ GlobalFuncMap[n] # NoFunc
    BY <2>3 DEF Link, IInv, GlobalFuncMapLive, LiveDefs
  <2>4. QED
    BY <2>1, <2>2, <2>3
<1>4. QED
  BY <1>1, <1>2, <1>3 DEF Func

\* What a direct edge of the pass is.
LEMMA DirectEdgeFacts ==
  ASSUME IInv, NEW p \in Path, body[p] # NoBody, NEW e \in DirectEdges(p)
  PROVE  /\ e \in Func \X Func
         /\ e[1] \in DefsOf(p) /\ e[1].path = p
         /\ Known(e[1]) /\ Known(e[2]) /\ e[2] \in LiveFuncs
         /\ e[2].def \/ GlobalFuncMap[e[2].name] = NoFunc
         /\ <<e[2].path, p>> \in {<<Link(p, x[2]).path, p>> : x \in body[p].direct}
<1>1. PICK x \in body[p].direct : e = <<FuncAt(p, x[1]), Link(p, x[2])>>
  BY DEF DirectEdges
<1>2. body[p] \in Body /\ WellFormed(body[p])
  BY DEF IInv, TypeOK, BodiesWellFormed
<1>3. x[1] \in body[p].defs /\ x[2] \in Name /\ x[2] \in Mentioned(body[p])
  BY <1>2, MentionedNames DEF WellFormed
<1>4. e[1] = FuncAt(p, x[1]) /\ e[2] = Link(p, x[2])
  BY <1>1
<1>5. e[1] \in Func /\ e[1] \in DefsOf(p) /\ e[1].path = p /\ Known(e[1])
  BY <1>3, <1>4, SourceFacts
<1>6. /\ e[2] \in Func /\ Known(e[2]) /\ e[2] \in LiveFuncs
      /\ e[2].def \/ GlobalFuncMap[e[2].name] = NoFunc
  BY <1>3, <1>4, LinkFacts
<1>7. e \in Func \X Func
  BY <1>1, <1>4, <1>5, <1>6
<1>8. QED
  BY <1>4, <1>5, <1>6, <1>7

\* What an indirect edge of the pass is.
LEMMA IndirectEdgeFacts ==
  ASSUME IInv, NEW p \in Path, body[p] # NoBody, NEW e \in IndirectEdges(p)
  PROVE  /\ e \in Func \X Func
         /\ e[1] \in DefsOf(p) /\ e[1].path = p
         /\ Known(e[1]) /\ Known(e[2])
         /\ ~PlainCaller(e[1])
<1>1. PICK i \in body[p].icalls :
        \E x \in Targets(i[2], i[3]) : e = <<FuncAt(p, i[1]), x>>
  BY DEF IndirectEdges
<1>1_1. PICK x \in Targets(i[2], i[3]) : e = <<FuncAt(p, i[1]), x>>
  BY <1>1
<1>2. body[p] \in Body /\ WellFormed(body[p])
  BY DEF IInv, TypeOK, BodiesWellFormed
<1>3. i[1] \in body[p].defs /\ i[2] \in Sig
  BY <1>2, MentionedNames DEF WellFormed
<1>4. x \in sigFuncsMap[i[2]]
  BY DEF Targets
<1>5. x \in Func /\ Known(x)
  BY <1>3, <1>4 DEF IInv, TypeOK, Fresh
<1>6. /\ FuncAt(p, i[1]) \in Func /\ FuncAt(p, i[1]) \in DefsOf(p)
      /\ FuncAt(p, i[1]).path = p /\ Known(FuncAt(p, i[1]))
      /\ FuncAt(p, i[1]).name = i[1]
  BY <1>3, SourceFacts
<1>7. ~PlainCaller(FuncAt(p, i[1]))
  BY <1>6 DEF PlainCaller
<1>8. QED
  BY <1>1_1, <1>5, <1>6, <1>7

LEMMA ModulePassStep ==
  ASSUME IInv, ModulePass
  PROVE  IInv'
<1> USE DEF IInv
<1> DEFINE edges == UNION {DirectEdges(p) \cup IndirectEdges(p) : p \in mlist}
           regs  == UNION {{<<Link(p, e[2]).path, p>> : e \in body[p].direct} : p \in mlist}
           cands == UNION {{<<i[2], p>> : i \in body[p].icalls} : p \in mlist}
<1>1. /\ phase = "init" /\ phase' = "post" /\ pending = {}
      /\ Callees' = Callees \cup edges
      /\ Callers' = Callers \cup edges
      /\ BCFuncs' = BCFuncs \cup UNION {DefsOf(p) : p \in mlist}
      /\ CallerPaths' = CallerPaths \cup regs
      /\ CandCallerPaths' = CandCallerPaths \cup cands
      /\ MIdx' = MIdx + Cardinality(mlist)
      /\ UNCHANGED <<body, gen, GlobalFuncMap, sigFuncsMap, typeIdxFuncsMap,
                     funcTypeIdxsMap, typeEscapeSet, mlist, aff_set, pending,
                     updates>>
      /\ UNCHANGED loadVars
  BY DEF ModulePass, loadVars, tableVars
<1>2. LiveFuncs' = LiveFuncs /\ LiveDefs' = LiveDefs
      /\ \A q : Exported(q)' = Exported(q)
  BY <1>1, LiveUnchanged
<1>3. \A p \in mlist : p \in Path /\ body[p] # NoBody
  BY <1>1 DEF TypeOK, DriverInv
<1>4. \A e \in edges :
        /\ e \in Func \X Func
        /\ \E p \in mlist : e[1] \in DefsOf(p)
        /\ Known(e[1]) /\ Known(e[2])
        /\ PlainCaller(e[1]) =>
             /\ e[2] \in LiveFuncs
             /\ e[2].def \/ GlobalFuncMap[e[2].name] = NoFunc
             /\ <<e[2].path, e[1].path>> \in regs
  <2> TAKE e \in edges
  <2>1. PICK p \in mlist : e \in DirectEdges(p) \/ e \in IndirectEdges(p)
    OBVIOUS
  <2>2. CASE e \in DirectEdges(p)
    <3>1. /\ e \in Func \X Func
          /\ e[1] \in DefsOf(p) /\ e[1].path = p
          /\ Known(e[1]) /\ Known(e[2]) /\ e[2] \in LiveFuncs
          /\ e[2].def \/ GlobalFuncMap[e[2].name] = NoFunc
          /\ <<e[2].path, p>> \in {<<Link(p, x[2]).path, p>> : x \in body[p].direct}
      BY <1>3, <2>2, DirectEdgeFacts
    <3>2. <<e[2].path, e[1].path>> \in regs
      BY <3>1
    <3>3. QED
      BY <3>1, <3>2
  <2>3. CASE e \in IndirectEdges(p)
    <3>1. /\ e \in Func \X Func
          /\ e[1] \in DefsOf(p)
          /\ Known(e[1]) /\ Known(e[2]) /\ ~PlainCaller(e[1])
      BY <1>3, <2>3, IndirectEdgeFacts
    <3>2. QED
      BY <3>1
  <2>4. QED
    BY <2>1, <2>2, <2>3
<1>5. \A p \in mlist : DefsOf(p) \subseteq LiveDefs /\ DefsOf(p) \subseteq Func
  <2>1. \A p \in mlist : DefsOf(p) \subseteq LiveDefs
    BY <1>3 DEF DefsOf, LiveDefs, LiveFuncs
  <2>2. LiveDefs \subseteq Func
    BY LiveFuncsType DEF LiveDefs, TypeOK
  <2>3. QED
    BY <2>1, <2>2
<1>6. TypeOK'
  <2>1. regs \subseteq Path \X Path
    <3>1. ASSUME NEW p \in mlist, NEW e \in body[p].direct
          PROVE  Link(p, e[2]).path \in Path
      <4>1. body[p] \in Body
        BY <1>3 DEF TypeOK
      <4>2. e[2] \in Name /\ e[2] \in Mentioned(body[p])
        BY <4>1, MentionedNames
      <4>3. QED
        BY <1>3, <4>2, LinkFacts
    <3>2. QED
      BY <1>3, <3>1
  <2>2. cands \subseteq Sig \X Path
    <3>1. ASSUME NEW p \in mlist, NEW i \in body[p].icalls
          PROVE  i[2] \in Sig
      BY <1>3, MentionedNames DEF TypeOK
    <3>2. QED
      BY <1>3, <3>1
  <2>3. /\ Callees' \subseteq Func \X Func /\ Callers' \subseteq Func \X Func
        /\ BCFuncs' \subseteq Func
    BY <1>1, <1>4, <1>5 DEF TypeOK
  <2>4. MIdx' \in Nat
    <3>1. IsFiniteSet(mlist)
      BY ConstantsAssumption, FS_Subset DEF TypeOK
    <3>2. QED
      BY <1>1, <3>1, FS_CardinalityType DEF TypeOK
  <2>5. QED
    BY <1>1, <2>1, <2>2, <2>3, <2>4 DEF TypeOK
<1>7. BodiesWellFormed' /\ SigSorted' /\ SigDefsLive' /\ GlobalFuncMapLive'
  BY <1>1, <1>2
     DEF BodiesWellFormed, SigSorted, SigDefsLive, GlobalFuncMapLive
<1>8. Fresh'
  BY <1>1, <1>4 DEF Fresh, Known
<1>9. BCFuncsLive' /\ SourcesListed' /\ DriverInv'
  BY <1>1, <1>2, <1>4, <1>5 DEF BCFuncsLive, SourcesListed, DriverInv
<1>10. CallersInverse'
  BY <1>1, <1>2, <1>4 DEF CallersInverse
<1>11. AllRead' = AllRead /\ \A c : PlainCaller(c)' = PlainCaller(c)
  BY <1>1 DEF AllRead, PlainCaller
<1>12. Registered' /\ DirectEdgesLive' /\ DirectCallersAgree'
  BY <1>1, <1>2, <1>4, <1>11
     DEF Registered, DirectEdgesLive, DirectCallersAgree
<1>13. PlainResolved'
  BY <1>1, <1>4, <1>11 DEF PlainResolved, SourcesListed, DriverInv
<1>14. QED
  BY <1>6, <1>7, <1>8, <1>9, <1>10, <1>12, <1>13

-----------------------------------------------------------------------------
(* doFinalization *)

LEMMA FinalizeStep ==
  ASSUME IInv, Finalize
  PROVE  IInv'
<1> USE DEF IInv
<1>1. PICK misread \in SUBSET {f \in {e[2] : e \in Callees} \ LiveFuncs : ~f.def} :
        Callees' = {e \in Callees : e[1].path \notin mlist} \cup
                   UNION {Mapped(e, misread) : e \in {d \in Callees : d[1].path \in mlist}}
  BY DEF Finalize
<1>2. /\ phase = "post" /\ phase' = "ready"
      /\ UNCHANGED <<body, gen, Callers, CallerPaths, CandCallerPaths, BCFuncs,
                     GlobalFuncMap, sigFuncsMap, typeIdxFuncsMap,
                     funcTypeIdxsMap, typeEscapeSet, MIdx, mlist, aff_set,
                     pending, updates>>
      /\ UNCHANGED loadVars
  BY DEF Finalize, loadVars, tableVars
<1>3. LiveFuncs' = LiveFuncs /\ LiveDefs' = LiveDefs
      /\ \A q : Exported(q)' = Exported(q)
  BY <1>2, LiveUnchanged
<1>4. ASSUME NEW x \in Callees'
      PROVE  \/ x \in Callees
             \/ \E e \in Callees :
                  /\ e[1].path \in mlist /\ ~e[2].def /\ e[2].name \in Name
                  /\ GlobalFuncMap[e[2].name] # NoFunc
                  /\ x = <<e[1], GlobalFuncMap[e[2].name]>>
  <2>1. CASE x \in {e \in Callees : e[1].path \notin mlist}
    BY <2>1
  <2>2. CASE x \notin {e \in Callees : e[1].path \notin mlist}
    <3>1. PICK e \in Callees : e[1].path \in mlist /\ x \in Mapped(e, misread)
      BY <1>1, <2>2
    <3>2. e[2].name \in Name
      BY DEF TypeOK, Func
    <3>3. QED
      BY <3>1, <3>2 DEF Mapped
  <2>3. QED
    BY <2>1, <2>2
<1>5. \A x \in Callees' :
        /\ x \in Func \X Func
        /\ x[1] \in BCFuncs /\ Known(x[1]) /\ Known(x[2])
  <2> TAKE x \in Callees'
  <2>1. CASE x \in Callees
    BY <2>1 DEF TypeOK, SourcesListed, Fresh
  <2>2. CASE x \notin Callees
    <3>1. PICK e \in Callees :
            /\ e[2].name \in Name
            /\ GlobalFuncMap[e[2].name] # NoFunc
            /\ x = <<e[1], GlobalFuncMap[e[2].name]>>
      BY <1>4, <2>2
    <3>2. x[2] \in LiveFuncs
      BY <3>1 DEF GlobalFuncMapLive, LiveDefs
    <3>3. x[2] \in Func /\ Known(x[2])
      BY <3>2, LiveFuncsType DEF TypeOK
    <3>4. x[1] \in Func /\ x[1] \in BCFuncs /\ Known(x[1])
      BY <3>1 DEF TypeOK, SourcesListed, Fresh
    <3>5. QED
      BY <3>1, <3>3, <3>4
  <2>3. QED
    BY <2>1, <2>2
<1>6. \A e \in Callees : e[2].def => e \in Callees'
  BY <1>1 DEF Mapped
<1>7. AllRead => \A x \in Callees' : PlainCaller(x[1]) => x \in Callees
  <2> SUFFICES ASSUME AllRead, NEW x \in Callees', PlainCaller(x[1]), x \notin Callees
               PROVE  FALSE
    OBVIOUS
  <2>1. PICK e \in Callees :
          /\ e[1].path \in mlist /\ ~e[2].def
          /\ GlobalFuncMap[e[2].name] # NoFunc
          /\ x = <<e[1], GlobalFuncMap[e[2].name]>>
    BY <1>4
  <2>2. QED
    BY <1>2, <2>1 DEF PlainResolved
<1>8. TypeOK' /\ SourcesListed'
  BY <1>2, <1>5 DEF TypeOK, SourcesListed
<1>9. /\ BodiesWellFormed' /\ SigSorted' /\ SigDefsLive' /\ GlobalFuncMapLive'
      /\ BCFuncsLive' /\ DriverInv'
  BY <1>2, <1>3 DEF BodiesWellFormed, SigSorted, SigDefsLive, GlobalFuncMapLive,
     BCFuncsLive, DriverInv
<1>10. Fresh'
  BY <1>2, <1>5 DEF Fresh, Known
<1>11. CallersInverse'
  BY <1>2, <1>3, <1>6 DEF CallersInverse, LiveDefs
<1>12. AllRead' = AllRead /\ \A c : PlainCaller(c)' = PlainCaller(c)
  BY <1>2 DEF AllRead, PlainCaller
<1>13. Registered' /\ PlainResolved' /\ DirectEdgesLive' /\ DirectCallersAgree'
  BY <1>2, <1>3, <1>7, <1>12
     DEF Registered, PlainResolved, DirectEdgesLive, DirectCallersAgree
<1>14. QED
  BY <1>8, <1>9, <1>10, <1>11, <1>13

-----------------------------------------------------------------------------
(* UpdateModules *)

\* The files of the update that could be read.
ReadOf(U, new) == {p \in U : new[p] # NoBody}

LEMMA UpdateModulesStep ==
  ASSUME IInv, NEW U \in SUBSET Path, NEW new \in Contents(U),
         UpdateModules(U, new)
  PROVE  IInv'
<1> USE DEF IInv
<1> DEFINE aff  == Affected(U, new)
           read == ReadOf(U, new)
           list == U \cup aff
           gone == {f \in BCFuncs : f.path \in list}
           dropped == UNION {FuncsOf(p) : p \in list}
           sigs    == {SigOf[f.name] : f \in {g \in dropped : g.def}}
           guids   == UNION {Exported(p) : p \in list}
           typed   == {t \in funcTypeIdxsMap : t[2] \in dropped}
<1>1. /\ phase = "ready" /\ phase' = "init"
      /\ Callers' = Callers \ {e \in Callees : e[1] \in gone}
      /\ Callees' = {e \in Callees : e[1] \notin gone}
      /\ BCFuncs' = BCFuncs \ gone
  BY DEF UpdateModules, InvalidatePost, ReadOf
<1>2. /\ GlobalFuncMap' = [n \in Name |-> IF n \in guids THEN NoFunc
                                          ELSE GlobalFuncMap[n]]
      /\ sigFuncsMap' = [s \in Sig |-> IF s \in sigs THEN {} ELSE sigFuncsMap[s]]
      /\ typeIdxFuncsMap' = typeIdxFuncsMap \ typed
      /\ funcTypeIdxsMap' = funcTypeIdxsMap \ typed
  BY DEF UpdateModules, InvalidatePre
<1>3. /\ CallerPaths' = {e \in CallerPaths : e[1] \notin read /\ e[2] \notin read}
      /\ CandCallerPaths' = {e \in CandCallerPaths : e[2] \notin read}
      /\ body' = [p \in Path |-> IF p \in U THEN new[p] ELSE body[p]]
      /\ gen' = [p \in Path |-> IF p \in read THEN gen[p] + 1 ELSE gen[p]]
      /\ mlist' = list /\ aff_set' = aff /\ pending' = list
      /\ updates < MaxUpdates /\ updates' = updates + 1
      /\ UNCHANGED <<typeEscapeSet, MIdx>>
  BY DEF UpdateModules, ReadOf
<1>4. /\ list \subseteq Path /\ aff \subseteq list /\ read \subseteq U
      /\ \A p \in U : new[p] \in Body \cup {NoBody}
      /\ \A p \in U : new[p] # NoBody => WellFormed(new[p])
  BY ContentsType DEF Affected, ReadOf
<1>5. TypeOK'
  <2>1. /\ body' \in [Path -> Body \cup {NoBody}]
        /\ gen' \in [Path -> Nat]
    BY <1>3, <1>4 DEF TypeOK
  <2>2. GlobalFuncMap' \in [Name -> Func \cup {NoFunc}]
        /\ sigFuncsMap' \in [Sig -> SUBSET Func]
    BY <1>2 DEF TypeOK
  <2>3. updates' \in 0 .. MaxUpdates
    BY <1>3, ConstantsAssumption DEF TypeOK
  <2>4. QED
    BY <1>1, <1>2, <1>3, <1>4, <2>1, <2>2, <2>3 DEF TypeOK
<1>6. BodiesWellFormed'
  BY <1>3, <1>4 DEF BodiesWellFormed
<1>7. /\ \A f \in LiveFuncs : f.path \notin U => f \in LiveFuncs'
      /\ \A f \in LiveFuncs' : f.path \notin U => f \in LiveFuncs
      /\ \A f \in LiveFuncs' : f.path \in U => f.gen = gen[f.path] + 1
  <2>1. \A p \in Path \ U : FuncsOf(p)' = FuncsOf(p)
    BY <1>3, <1>4 DEF FuncsOf, FuncAt, TypeOK
  <2>2. \A f \in LiveFuncs : f \in FuncsOf(f.path) /\ f.path \in Path
    BY LiveFuncsType DEF TypeOK, Func
  <2>3. ASSUME NEW f \in LiveFuncs'
        PROVE  \E p \in Path : f \in FuncsOf(p)' /\ f.path = p
    BY DEF LiveFuncs, FuncsOf, FuncAt
  <2>4. ASSUME NEW p \in U, NEW f \in FuncsOf(p)'
        PROVE  f.gen = gen[p] + 1 /\ f.path = p
    <3>1. body'[p] # NoBody /\ f.gen = gen'[p] /\ f.path = p
      BY DEF FuncsOf, FuncAt
    <3>2. p \in read
      BY <1>3, <3>1 DEF ReadOf
    <3>3. QED
      BY <1>3, <3>1, <3>2
  <2>5. \A f \in LiveFuncs : f.path \notin U => f \in LiveFuncs'
    BY <2>1, <2>2 DEF LiveFuncs
  <2>6. \A f \in LiveFuncs' : f.path \notin U => f \in LiveFuncs
    BY <2>1, <2>3 DEF LiveFuncs
  <2>7. \A f \in LiveFuncs' : f.path \in U => f.gen = gen[f.path] + 1
    BY <2>3, <2>4
  <2>8. QED
    BY <2>5, <2>6, <2>7
<1>8. \A f \in Func : Known(f) => Known(f)'
  BY <1>3 DEF Known, Func, TypeOK
<1>9. Fresh'
  BY <1>1, <1>2, <1>8 DEF Fresh, TypeOK
<1>10. \A f \in Func : f.path \in U /\ Known(f) => f \notin LiveFuncs'
  BY <1>7 DEF Known, Func, TypeOK
<1>11. BCFuncsLive' /\ SourcesListed'
  BY <1>1, <1>7 DEF BCFuncsLive, SourcesListed, LiveDefs
<1>12. DriverInv'
  BY <1>1, <1>3 DEF DriverInv
<1>13. SigSorted'
  BY <1>2 DEF SigSorted
<1>14. CallersInverse'
  <2> SUFFICES ASSUME NEW e \in Callers', e[2] \in LiveDefs'
               PROVE  e \in Callees' /\ e[1] \in BCFuncs'
    BY DEF CallersInverse
  <2>1. e \in Callers /\ e[2] \in LiveFuncs' /\ e[2].def
    BY <1>1 DEF LiveDefs
  <2>2. e[2] \in Func /\ Known(e[2])
    BY <2>1 DEF TypeOK, Fresh
  <2>3. e[2].path \notin U
    BY <1>10, <2>1, <2>2
  <2>4. e[2] \in LiveDefs
    BY <1>7, <2>1, <2>3 DEF LiveDefs
  <2>5. e \in Callees /\ e[1] \in BCFuncs
    BY <2>1, <2>4 DEF CallersInverse
  <2>6. QED
    BY <1>1, <2>5
<1>15. \A p \in Path \ U : Exported(p)' = Exported(p)
  BY <1>3, <1>4 DEF Exported, TypeOK
<1>16. GlobalFuncMapLive'
  <2>1. ASSUME NEW n \in Name, NEW d, d = GlobalFuncMap'[n], d # NoFunc
        PROVE  /\ d \in LiveDefs' /\ d.name = n
               /\ \E q \in Path : d.path = q /\ n \in Exported(q)'
    <3>1. d = GlobalFuncMap[n] /\ n \notin guids
      BY <1>2, <2>1
    <3>2. d \in LiveDefs /\ d.name = n /\ n \in Exported(d.path)
      BY <2>1, <3>1 DEF GlobalFuncMapLive
    <3>3. d.path \in Path /\ d.path \notin U
      BY <3>1, <3>2, LiveFuncsType DEF LiveDefs, TypeOK, Func
    <3>4. d \in LiveDefs'
      BY <1>7, <3>2, <3>3 DEF LiveDefs
    <3>5. PICK q \in Path : d.path = q /\ n \in Exported(q) /\ q \notin U
      BY <3>2, <3>3
    <3>6. n \in Exported(q)'
      BY <1>15, <3>5
    <3>7. QED
      BY <3>2, <3>4, <3>5, <3>6
  <2>2. QED
    BY <2>1 DEF GlobalFuncMapLive
<1>17. SigDefsLive'
  <2> SUFFICES ASSUME NEW s \in Sig, NEW f \in sigFuncsMap'[s], f.def
               PROVE  f \in LiveDefs'
    BY DEF SigDefsLive
  <2>1. f \in sigFuncsMap[s] /\ s \notin sigs
    BY <1>2
  <2>2. f \in LiveDefs /\ SigOf[f.name] = s
    BY <2>1 DEF SigDefsLive, SigSorted
  <2>3. f \in FuncsOf(f.path)
    BY <2>2, LiveFuncsType DEF LiveDefs, TypeOK
  <2>4. f.path \notin U
    BY <2>1, <2>2, <2>3
  <2>5. QED
    BY <1>7, <2>2, <2>4 DEF LiveDefs
<1>18. AllRead
  BY <1>1 DEF AllRead, DriverInv
<1>19. AllRead' => read = U
  BY <1>3, <1>4 DEF AllRead, ReadOf
<1>20. \A e \in Callees' :
         /\ e \in Callees /\ e[1] \in BCFuncs /\ e[1].path \notin list
         /\ e[1].path \in Path
         /\ body'[e[1].path] = body[e[1].path]
  BY <1>1, <1>3, <1>4 DEF SourcesListed, TypeOK, Func
<1>20_1. \A e \in Callees' : PlainCaller(e[1])' => PlainCaller(e[1])
  BY <1>20 DEF PlainCaller
<1>21. ASSUME NEW e \in Callees', PlainCaller(e[1])
       PROVE  e[2].path \notin read /\ <<e[2].path, e[1].path>> \in CallerPaths
  <2>1. <<e[2].path, e[1].path>> \in CallerPaths
    BY <1>18, <1>20, <1>21 DEF Registered
  <2>2. e[2].path \in read => e[1].path \in list
    BY <1>20, <2>1 DEF Affected, ReadOf
  <2>3. QED
    BY <1>20, <2>1, <2>2
<1>22. Registered'
  BY <1>3, <1>4, <1>20, <1>20_1, <1>21 DEF Registered
<1>23. PlainResolved'
  BY <1>1 DEF PlainResolved
<1>24. DirectEdgesLive'
  BY <1>7, <1>18, <1>19, <1>20, <1>20_1, <1>21 DEF DirectEdgesLive
<1>25. DirectCallersAgree'
  BY <1>1, <1>18, <1>20, <1>20_1 DEF DirectCallersAgree
<1>26. QED
  BY <1>5, <1>6, <1>9, <1>11, <1>12, <1>13, <1>14, <1>16, <1>17, <1>22,
     <1>23, <1>24, <1>25

-----------------------------------------------------------------------------
(* The invariant, and what follows from it *)

LEMMA StutterStep ==
  ASSUME IInv, UNCHANGED vars
  PROVE  IInv'
<1> USE DEF vars, loadVars, edgeVars, tableVars, runVars
<1>1. LiveFuncs' = LiveFuncs /\ LiveDefs' = LiveDefs
      /\ \A q : Exported(q)' = Exported(q)
  BY LiveUnchanged
<1>2. TypeOK' /\ BodiesWellFormed' /\ DriverInv' /\ SourcesListed' /\ SigSorted'
  BY DEF IInv, TypeOK, BodiesWellFormed, DriverInv, SourcesListed, SigSorted
<1>3. /\ Fresh' /\ BCFuncsLive' /\ CallersInverse' /\ GlobalFuncMapLive'
      /\ SigDefsLive'
  BY <1>1 DEF IInv, Fresh, Known, BCFuncsLive, CallersInverse,
     GlobalFuncMapLive, SigDefsLive
<1>4. AllRead' = AllRead /\ \A c : PlainCaller(c)' = PlainCaller(c)
  BY DEF AllRead, PlainCaller
<1>5. Registered' /\ PlainResolved' /\ DirectEdgesLive' /\ DirectCallersAgree'
  BY <1>1, <1>4
     DEF IInv, Registered, PlainResolved, DirectEdgesLive, DirectCallersAgree
<1>6. QED
  BY <1>2, <1>3, <1>5 DEF IInv

LEMMA NextIInv == IInv /\ [Next]_vars => IInv'
<1> SUFFICES ASSUME IInv, [Next]_vars PROVE IInv'
  OBVIOUS
<1>1. CASE Initialize
  BY <1>1, InitializeStep
<1>2. ASSUME NEW U \in (SUBSET Path) \ {{}}, NEW new \in Contents(U),
             UpdateModules(U, new)
      PROVE  IInv'
  BY <1>2, UpdateModulesStep
<1>3. ASSUME NEW p \in Path, InitModule(p) PROVE IInv'
  BY <1>3, InitModuleStep
<1>4. ASSUME NEW p \in Path, InitLastModule(p) PROVE IInv'
  BY <1>4, InitLastModuleStep
<1>5. ASSUME NEW p \in Path, InitNullModule(p) PROVE IInv'
  BY <1>5, InitNullModuleStep
<1>6. CASE ModulePass
  BY <1>6, ModulePassStep
<1>7. CASE Finalize
  BY <1>7, FinalizeStep
<1>8. CASE UNCHANGED vars
  BY <1>8, StutterStep
<1>9. QED
  BY <1>1, <1>2, <1>3, <1>4, <1>5, <1>6, <1>7, <1>8 DEF Next, Run

\* The strengthened invariant is inductive.
THEOREM Inductive == Spec => []IInv
BY InitIInv, NextIInv, PTL DEF Spec

\* Every table of GlobalContext and of the pass keeps its type.
THEOREM TypeCorrect == Spec => []TypeOK
<1>1. IInv => TypeOK
  BY DEF IInv
<1>2. QED
  BY <1>1, Inductive, PTL

\* Whatever versions the files go through, the callers that GlobalContext
\* lists for a live definition are live and have it as a callee.
THEOREM CallersInverseTheorem == Spec => []CallersInverse
<1>1. IInv => CallersInverse
  BY DEF IInv
<1>2. QED
  BY <1>1, Inductive, PTL

\* A function that makes direct calls only never has a freed callee.
THEOREM DirectEdgesTheorem == Spec => []DirectEdgesLive
<1>1. IInv => DirectEdgesLive
  BY DEF IInv
<1>2. QED
  BY <1>1, Inductive, PTL

\* Such a function is among the callers of each of its callees, so whoever
\* asks a callee for its callers finds it.
THEOREM DirectCallersTheorem == Spec => []DirectCallersAgree
<1>1. IInv => DirectCallersAgree
  BY DEF IInv
<1>2. QED
  BY <1>1, Inductive, PTL

\* Name lookups by GUID never return a freed definition.
THEOREM GuidLookupsLive == Spec => []GlobalFuncMapLive
<1>1. IInv => GlobalFuncMapLive
  BY DEF IInv
<1>2. QED
  BY <1>1, Inductive, PTL

\* Nor do lookups by signature: no freed definition is ever offered as the
\* target of an indirect call.
THEOREM SigLookupsLive == Spec => []SigDefsLive
<1>1. IInv => SigDefsLive
  BY DEF IInv
<1>2. QED
  BY <1>1, Inductive, PTL

-----------------------------------------------------------------------------
(* CallGraph implements LinkedCalls *)

\* The program links, and is one that the versions make up.
LinkedInv == L!Linked(body) /\ (phase # "start" => body \in Contents(Path))

\* GlobalFuncMap has all definitions of the modules that are not to be
\* scanned.
GuidsExact ==
  \A q \in Loaded \ pending : \A n \in Exported(q) : GlobalFuncMap[n] = FuncAt(q, n)

\* The definition that a call of n in p goes to.
IsTarget(p, n, f) ==
  IF n \in body[p].defs THEN f = FuncAt(p, n)
  ELSE \E q \in Loaded : n \in Exported(q) /\ f = FuncAt(q, n)

\* The direct calls of the modules in S by functions that make only such.
TrueEdges(S) ==
  {d \in Func \X Func :
     \E p \in S : \E e \in body[p].direct :
       /\ \A i \in body[p].icalls : i[1] # e[1]
       /\ d[1] = FuncAt(p, e[1])
       /\ IsTarget(p, e[2], d[2])}

PlainEdges == {e \in Callees : PlainCaller(e[1])}

\* Modules whose calls the graph has.
Done == IF phase = "init" THEN Loaded \ mlist ELSE Loaded

\* Unless the run is about to meet an unreadable module.
EdgesExact == AllRead => PlainEdges = TrueEdges(Done)

XInv == LinkedInv /\ GuidsExact /\ EdgesExact

-----------------------------------------------------------------------------
(* Definitions and their exporters. *)

\* No name is exported twice.
LEMMA OneExporter ==
  ASSUME L!Linked(body), body \in [Path -> Body \cup {NoBody}],
         NEW p \in Loaded, NEW q \in Loaded, NEW n \in Exported(p), n \in Exported(q)
  PROVE  p = q
<1>1. /\ p \in Path /\ q \in Path /\ body[p] # NoBody /\ body[q] # NoBody
      /\ n \in body[p].defs \ body[p].statics /\ n \in body[q].defs \ body[q].statics
  BY DEF Loaded, Exported
<1>2. p \in L!Loaded(body) /\ q \in L!Loaded(body)
  BY <1>1 DEF L!Loaded
<1>3. p \in L!Exports(body, n) /\ q \in L!Exports(body, n)
  BY <1>1, <1>2 DEF L!Exports
<1> QED
  BY <1>1, <1>2, <1>3 DEF L!Linked

\* A call has a definition to go to.
LEMMA HasExporter ==
  ASSUME L!Linked(body), NEW p \in Loaded, NEW e \in body[p].direct,
         e[2] \notin body[p].defs
  PROVE  \E q \in Loaded : e[2] \in Exported(q)
<1>1. p \in L!Loaded(body)
  BY DEF L!Loaded, Loaded
<1>2. L!Exports(body, e[2]) # {}
  BY <1>1 DEF L!Linked
<1>3. PICK q \in L!Exports(body, e[2]) : TRUE
  BY <1>2
<1>4. q \in Loaded /\ e[2] \in Exported(q)
  BY <1>3 DEF L!Exports, L!Loaded, Loaded, Exported
<1> QED
  BY <1>4

\* A call has one target, a live definition.
LEMMA OneTarget ==
  ASSUME IInv, L!Linked(body), NEW p \in Loaded, NEW e \in body[p].direct
  PROVE  \E f \in LiveDefs : IsTarget(p, e[2], f) /\ \A g : IsTarget(p, e[2], g) <=> g = f
<1>1. p \in Path /\ body[p] # NoBody
  BY DEF Loaded
<1>2. CASE e[2] \in body[p].defs
  <2>1. FuncAt(p, e[2]) \in LiveDefs
    BY <1>1, <1>2, SourceFacts
  <2> QED
    BY <1>2, <2>1 DEF IsTarget
<1>3. CASE e[2] \notin body[p].defs
  <2>1. PICK q \in Loaded : e[2] \in Exported(q)
    BY <1>3, HasExporter
  <2>2. \A r \in Loaded : e[2] \in Exported(r) => r = q
    BY <2>1, OneExporter DEF IInv, TypeOK
  <2>3. q \in Path /\ body[q] # NoBody
    BY DEF Loaded
  <2>4. FuncAt(q, e[2]) \in LiveDefs
    BY <2>1, <2>3, ExportedLive
  <2>5. \A g : IsTarget(p, e[2], g) <=> g = FuncAt(q, e[2])
    BY <1>3, <2>1, <2>2 DEF IsTarget
  <2> QED
    BY <2>4, <2>5
<1> QED
  BY <1>2, <1>3

\* A module's calls come from its own functions.
LEMMA SourceIsHere ==
  ASSUME IInv, NEW p \in Loaded, NEW e \in body[p].direct
  PROVE  /\ FuncAt(p, e[1]).path = p /\ FuncAt(p, e[1]).name = e[1]
         /\ FuncAt(p, e[1]) \in LiveFuncs /\ FuncAt(p, e[1]) \in Func
         /\ PlainCaller(FuncAt(p, e[1])) <=> \A i \in body[p].icalls : i[1] # e[1]
         /\ e[2] \in Name
<1>1. p \in Path /\ body[p] # NoBody /\ body[p] \in Body
  BY DEF Loaded, IInv, TypeOK
<1>2. e[1] \in body[p].defs /\ e[2] \in Name
  BY <1>1, MentionedNames DEF IInv, BodiesWellFormed, WellFormed
<1>3. /\ FuncAt(p, e[1]) \in LiveDefs /\ FuncAt(p, e[1]) \in Func
      /\ FuncAt(p, e[1]).path = p /\ FuncAt(p, e[1]).name = e[1]
  BY <1>1, <1>2, SourceFacts
<1> QED
  BY <1>1, <1>2, <1>3 DEF LiveDefs, PlainCaller

-----------------------------------------------------------------------------
(* Steps of a run. *)

\* A program does not change in a run.
LEMMA SameProgram ==
  ASSUME UNCHANGED loadVars
  PROVE  /\ Loaded' = Loaded /\ \A q : Exported(q)' = Exported(q)
         /\ \A q, n : FuncAt(q, n)' = FuncAt(q, n)
         /\ \A c : PlainCaller(c)' = PlainCaller(c)
         /\ \A S : TrueEdges(S)' = TrueEdges(S)
<1>1. body' = body /\ gen' = gen
  BY DEF loadVars
<1>2. /\ Loaded' = Loaded /\ \A q : Exported(q)' = Exported(q)
      /\ \A q, n : FuncAt(q, n)' = FuncAt(q, n)
      /\ \A c : PlainCaller(c)' = PlainCaller(c)
  BY <1>1 DEF Loaded, Exported, FuncAt, PlainCaller
<1>3. \A q, n, f : IsTarget(q, n, f)' = IsTarget(q, n, f)
  BY <1>1, <1>2 DEF IsTarget
<1>4. \A S : TrueEdges(S)' = TrueEdges(S)
  BY <1>1, <1>2, <1>3 DEF TrueEdges
<1> QED
  BY <1>2, <1>4

LEMMA SameLinked ==
  ASSUME LinkedInv, UNCHANGED body, phase = "start" <=> phase' = "start"
  PROVE  LinkedInv'
BY DEF LinkedInv, L!Linked, L!Loaded, L!Exports

LEMMA InitializeX ==
  ASSUME IInv, Initialize, L!Linked(body')
  PROVE  XInv'
<1>1. PICK new \in Contents(Path) :
        /\ body' = new
        /\ mlist' = {p \in Path : new[p] # NoBody}
        /\ pending' = {p \in Path : new[p] # NoBody}
  BY DEF Initialize
<1>2. Loaded' = mlist' /\ Loaded' = pending'
  BY <1>1 DEF Loaded
<1>3. phase = "start" /\ phase' = "init" /\ Callees' = Callees
  BY DEF Initialize, edgeVars
<1>4. LinkedInv'
  BY <1>1 DEF LinkedInv, L!Linked, L!Loaded, L!Exports
<1>5. GuidsExact'
  BY <1>2 DEF GuidsExact
<1>6. EdgesExact'
  <2>1. PlainEdges' = {}
    BY <1>3 DEF PlainEdges, IInv, DriverInv
  <2>2. Done' = {}
    BY <1>2, <1>3 DEF Done
  <2>3. TrueEdges({})' = {}
    BY DEF TrueEdges
  <2> QED
    BY <2>1, <2>2, <2>3 DEF EdgesExact
<1> QED
  BY <1>4, <1>5, <1>6 DEF XInv

LEMMA ExportedNames ==
  ASSUME IInv, NEW q \in Loaded
  PROVE  Exported(q) \subseteq Name /\ q \in Path
BY DEF Exported, Loaded, IInv, TypeOK, Body

LEMMA ScannedX ==
  ASSUME IInv, XInv, NEW p \in Path, InTurn(p), body[p] # NoBody, Scanned(p)
  PROVE  XInv'
<1> USE DEF XInv
<1>1. /\ phase = "init" /\ phase' = "init" /\ p \in Loaded
      /\ UNCHANGED loadVars /\ UNCHANGED edgeVars /\ mlist' = mlist
      /\ pending' = pending \ {p} /\ GlobalFuncMap' = GuidsAfter(p)
  BY DEF InTurn, Scanned, Loaded
<1>2. LinkedInv'
  BY <1>1, SameLinked DEF loadVars
<1>3. GuidsExact'
  <2>1. ASSUME NEW q \in Loaded \ (pending \ {p}), NEW n \in Exported(q)
        PROVE  GuidsAfter(p)[n] = FuncAt(q, n)
    <3>1. n \in Name
      BY ExportedNames
    <3>2. CASE n \in Exported(p)
      <4>1. p = q
        BY <1>1, <3>2, OneExporter DEF LinkedInv, IInv, TypeOK
      <4> QED
        BY <3>1, <3>2, <4>1 DEF GuidsAfter
    <3>3. CASE n \notin Exported(p)
      BY <3>1, <3>3 DEF GuidsAfter, GuidsExact
    <3> QED
      BY <3>2, <3>3
  <2> QED
    BY <1>1, <2>1, SameProgram DEF GuidsExact
<1>4. EdgesExact'
  <2>1. PlainEdges' = PlainEdges /\ Done' = Done
    BY <1>1, SameProgram DEF PlainEdges, Done, edgeVars
  <2>2. AllRead' = AllRead
    BY <1>1 DEF AllRead, loadVars
  <2> QED
    BY <1>1, <2>1, <2>2, SameProgram DEF EdgesExact
<1> QED
  BY <1>2, <1>3, <1>4

LEMMA InitNullModuleX ==
  ASSUME IInv, XInv, NEW p \in Path, InitNullModule(p)
  PROVE  XInv'
<1>1. /\ p \in mlist /\ body[p] = NoBody /\ phase = "init" /\ phase' = "crashed"
      /\ UNCHANGED loadVars /\ UNCHANGED <<mlist, pending, GlobalFuncMap>>
  BY DEF InitNullModule, InTurn, tableVars, IInv, TypeOK
<1>2. LinkedInv'
  BY <1>1, SameLinked DEF loadVars, XInv
<1>3. GuidsExact'
  BY <1>1, SameProgram DEF GuidsExact, XInv
<1>4. ~AllRead'
  BY <1>1 DEF AllRead, loadVars
<1> QED
  BY <1>2, <1>3, <1>4 DEF XInv, EdgesExact

\* The link that the pass gives a call is its target.
LEMMA LinkIsTarget ==
  ASSUME IInv, XInv, pending = {}, NEW p \in Loaded, NEW e \in body[p].direct
  PROVE  \A f : IsTarget(p, e[2], f) <=> f = Link(p, e[2])
<1>1. CASE e[2] \in body[p].defs
  BY <1>1 DEF IsTarget, Link
<1>2. CASE e[2] \notin body[p].defs
  <2>1. PICK q \in Loaded : e[2] \in Exported(q)
    BY <1>2, HasExporter DEF XInv, LinkedInv
  <2>2. \A r \in Loaded : e[2] \in Exported(r) => r = q
    BY <2>1, OneExporter DEF IInv, TypeOK, XInv, LinkedInv
  <2>3. GlobalFuncMap[e[2]] = FuncAt(q, e[2])
    BY <2>1 DEF XInv, GuidsExact
  <2>4. q \in Path /\ body[q] # NoBody
    BY DEF Loaded
  <2>5. FuncAt(q, e[2]) \in Func
    BY <2>1, <2>4, ExportedLive
  <2>6. Link(p, e[2]) = FuncAt(q, e[2])
    BY <1>2, <2>3, <2>5, NoFuncAssumption DEF Link
  <2> QED
    BY <1>2, <2>1, <2>2, <2>6 DEF IsTarget
<1> QED
  BY <1>1, <1>2

LEMMA TrueEdgesUnion ==
  ASSUME NEW S, NEW T
  PROVE  TrueEdges(S \cup T) = TrueEdges(S) \cup TrueEdges(T)
BY DEF TrueEdges

LEMMA ModulePassX ==
  ASSUME IInv, XInv, ModulePass
  PROVE  XInv'
<1> USE DEF XInv
<1> DEFINE edges == UNION {DirectEdges(p) \cup IndirectEdges(p) : p \in mlist}
<1>1. /\ phase = "init" /\ phase' = "post" /\ pending = {} /\ pending' = pending
      /\ Callees' = Callees \cup edges
      /\ UNCHANGED loadVars /\ UNCHANGED GlobalFuncMap /\ mlist' = mlist
  BY DEF ModulePass, tableVars
<1>2. AllRead /\ mlist \subseteq Loaded
  BY <1>1 DEF IInv, DriverInv, AllRead, TypeOK, Loaded
<1>3. LinkedInv' /\ GuidsExact'
  BY <1>1, SameLinked, SameProgram DEF GuidsExact, loadVars
<1>4. {e \in edges : PlainCaller(e[1])} \subseteq TrueEdges(mlist)
  <2>1. ASSUME NEW d \in edges, PlainCaller(d[1])
        PROVE  d \in TrueEdges(mlist)
    <3>1. PICK p \in mlist : d \in DirectEdges(p) \cup IndirectEdges(p)
      BY <2>1
    <3>2. p \in Loaded /\ p \in Path /\ body[p] # NoBody
      BY <1>2 DEF Loaded
    <3>3. d \in DirectEdges(p)
      BY <2>1, <3>1, <3>2, IndirectEdgeFacts
    <3>4. PICK e \in body[p].direct : d = <<FuncAt(p, e[1]), Link(p, e[2])>>
      BY <3>3 DEF DirectEdges
    <3>5. d \in Func \X Func
      BY <3>2, <3>3, DirectEdgeFacts
    <3>6. \A i \in body[p].icalls : i[1] # e[1]
      BY <2>1, <3>2, <3>4, SourceIsHere
    <3>7. IsTarget(p, e[2], d[2])
      BY <1>1, <3>2, <3>4, LinkIsTarget
    <3> QED
      BY <3>4, <3>5, <3>6, <3>7 DEF TrueEdges
  <2> QED
    BY <2>1
<1>5. TrueEdges(mlist) \subseteq {e \in edges : PlainCaller(e[1])}
  <2>1. ASSUME NEW d \in TrueEdges(mlist)
        PROVE  d \in edges /\ PlainCaller(d[1])
    <3>1. PICK p \in mlist : \E e \in body[p].direct :
            /\ \A i \in body[p].icalls : i[1] # e[1]
            /\ d[1] = FuncAt(p, e[1])
            /\ IsTarget(p, e[2], d[2])
      BY DEF TrueEdges
    <3>2. PICK e \in body[p].direct :
            /\ \A i \in body[p].icalls : i[1] # e[1]
            /\ d[1] = FuncAt(p, e[1])
            /\ IsTarget(p, e[2], d[2])
      BY <3>1
    <3>3. p \in Loaded
      BY <1>2
    <3>4. d[2] = Link(p, e[2])
      BY <1>1, <3>2, <3>3, LinkIsTarget
    <3>8. PlainCaller(d[1])
      <4>1. PlainCaller(FuncAt(p, e[1]))
        BY <3>2, <3>3, SourceIsHere
      <4> QED
        BY <3>2, <4>1
    <3>5. d \in Func \X Func
      BY DEF TrueEdges
    <3>6. d = <<FuncAt(p, e[1]), Link(p, e[2])>>
      BY <3>2, <3>4, <3>5
    <3>7. d \in DirectEdges(p)
      BY <3>6 DEF DirectEdges
    <3> QED
      BY <3>7, <3>8
  <2> QED
    BY <2>1
<1>6. EdgesExact'
  <2>1. PlainEdges' = PlainEdges \cup {e \in edges : PlainCaller(e[1])}
    BY <1>1, SameProgram DEF PlainEdges
  <2>2. PlainEdges = TrueEdges(Loaded \ mlist)
    BY <1>1, <1>2 DEF EdgesExact, Done
  <2>3. Done' = (Loaded \ mlist) \cup mlist
    BY <1>1, <1>2, SameProgram DEF Done
  <2>4. PlainEdges' = TrueEdges((Loaded \ mlist) \cup mlist)
    BY <1>4, <1>5, <2>1, <2>2, TrueEdgesUnion
  <2> QED
    BY <1>1, <2>3, <2>4, SameProgram DEF EdgesExact
<1> QED
  BY <1>3, <1>6

\* The targets of direct calls are definitions.
LEMMA TrueEdgesLive ==
  ASSUME IInv, L!Linked(body), NEW S \in SUBSET Loaded, NEW d \in TrueEdges(S)
  PROVE  d[1] \in LiveFuncs /\ d[2] \in LiveDefs /\ d[1].path \in S
<1>1. PICK p \in S : \E e \in body[p].direct :
        d[1] = FuncAt(p, e[1]) /\ IsTarget(p, e[2], d[2])
  BY DEF TrueEdges
<1>2. PICK e \in body[p].direct : d[1] = FuncAt(p, e[1]) /\ IsTarget(p, e[2], d[2])
  BY <1>1
<1>3. d[2] \in LiveDefs
  BY <1>2, OneTarget
<1> QED
  BY <1>2, <1>3, SourceIsHere

LEMMA FinalizeX ==
  ASSUME IInv, XInv, Finalize
  PROVE  XInv'
<1> USE DEF XInv
<1>1. PICK misread \in SUBSET {f \in {e[2] : e \in Callees} \ LiveFuncs : ~f.def} :
        Callees' = {e \in Callees : e[1].path \notin mlist} \cup
                   UNION {Mapped(e, misread) : e \in {d \in Callees : d[1].path \in mlist}}
  BY DEF Finalize
<1>2. /\ phase = "post" /\ phase' = "ready" /\ UNCHANGED loadVars
      /\ mlist' = mlist /\ pending' = pending /\ GlobalFuncMap' = GlobalFuncMap
      /\ pending = {}
  BY DEF Finalize, tableVars, IInv, DriverInv
<1>3. LinkedInv' /\ GuidsExact'
  BY <1>2, SameLinked, SameProgram DEF GuidsExact, loadVars
<1>4. AllRead /\ Done = Loaded /\ Done' = Loaded
  BY <1>2, SameProgram DEF AllRead, Done, IInv, DriverInv, TypeOK
<1>5. PlainEdges = TrueEdges(Loaded)
  BY <1>4 DEF EdgesExact
<1>6. \A e \in PlainEdges : e[2].def
  BY <1>5, TrueEdgesLive DEF LinkedInv, LiveDefs
<1>7. {e \in Callees' : PlainCaller(e[1])} \subseteq PlainEdges
  <2>1. ASSUME NEW x \in Callees', PlainCaller(x[1])
        PROVE  x \in PlainEdges
    <3>1. CASE x \in Callees
      BY <2>1, <3>1 DEF PlainEdges
    <3>2. CASE x \notin Callees
      <4>1. PICK e \in Callees : x \in Mapped(e, misread)
        BY <1>1, <3>2
      <4>2. x = <<e[1], GlobalFuncMap[e[2].name]>> /\ ~e[2].def
        BY <3>2, <4>1 DEF Mapped
      <4>3. e \in PlainEdges
        BY <2>1, <4>2 DEF PlainEdges
      <4> QED
        BY <1>6, <4>2, <4>3
    <3> QED
      BY <3>1, <3>2
  <2> QED
    BY <2>1
<1>8. PlainEdges \subseteq Callees'
  BY <1>1, <1>6 DEF PlainEdges, Mapped
<1>9. PlainEdges' = PlainEdges
  BY <1>2, <1>7, <1>8, SameProgram DEF PlainEdges
<1>10. EdgesExact'
  BY <1>2, <1>4, <1>5, <1>9, SameProgram DEF EdgesExact
<1> QED
  BY <1>3, <1>10

-----------------------------------------------------------------------------
(* Updates. *)

LEMMA UpdateModulesX ==
  ASSUME IInv, XInv, NEW U \in SUBSET Path, NEW new \in Contents(U),
         UpdateModules(U, new), L!Linked(body')
  PROVE  XInv'
<1> USE DEF XInv
<1> DEFINE aff   == Affected(U, new)
           list  == U \cup aff
           gone  == {f \in BCFuncs : f.path \in list}
           guids == UNION {Exported(p) : p \in list}
           kept  == Loaded \ list
<1>1. /\ phase = "ready" /\ phase' = "init"
      /\ Callees' = {e \in Callees : e[1] \notin gone}
      /\ GlobalFuncMap' = [n \in Name |-> IF n \in guids THEN NoFunc ELSE GlobalFuncMap[n]]
      /\ body' = [p \in Path |-> IF p \in U THEN new[p] ELSE body[p]]
      /\ gen' = [p \in Path |-> IF p \in {q \in U : new[q] # NoBody}
                                THEN gen[p] + 1 ELSE gen[p]]
      /\ mlist' = list /\ pending' = list
  BY DEF UpdateModules, InvalidatePost, InvalidatePre
<1>2. list \subseteq Path
  BY DEF Affected
<1>3. /\ \A p \in Path \ U : body'[p] = body[p] /\ gen'[p] = gen[p]
      /\ kept = Loaded' \ list
  BY <1>1 DEF Loaded
<1>4. \A p \in Path \ U : Exported(p)' = Exported(p) /\ \A n : FuncAt(p, n)' = FuncAt(p, n)
  BY <1>3 DEF Exported, FuncAt
<1>5. LinkedInv'
  <2>1. body' \in Contents(Path)
    BY <1>1 DEF LinkedInv, Contents
  <2> QED
    BY <1>1, <2>1 DEF LinkedInv, L!Linked, L!Loaded, L!Exports
<1>6. AllRead /\ pending = {}
  BY <1>1 DEF AllRead, IInv, DriverInv
<1>7. PlainEdges = TrueEdges(Loaded)
  BY <1>1, <1>6 DEF EdgesExact, Done
<1>8. GuidsExact'
  <2>1. ASSUME NEW q \in kept, NEW n \in Exported(q)
        PROVE  GlobalFuncMap'[n] = FuncAt(q, n)
    <3>1. n \in Name /\ GlobalFuncMap[n] = FuncAt(q, n)
      BY <1>6, ExportedNames DEF GuidsExact
    <3>2. ASSUME NEW r \in list, n \in Exported(r)
          PROVE  FALSE
      <4>1. r \in Loaded
        BY <1>2, <3>2 DEF Exported, Loaded
      <4>2. r = q
        BY <3>2, <4>1, OneExporter DEF IInv, TypeOK, LinkedInv
      <4> QED
        BY <4>2
    <3> QED
      BY <1>1, <3>1, <3>2
  <2>2. \A q \in kept : q \in Path \ U
    BY DEF Loaded
  <2> QED
    BY <1>1, <1>3, <1>4, <2>1, <2>2 DEF GuidsExact
<1>9. ASSUME AllRead'
      PROVE  PlainEdges' = TrueEdges(Done)'
  <2>1. \A p \in U : new[p] # NoBody
    BY <1>1, <1>9 DEF AllRead
  <2>2. Done' = kept
    BY <1>1, <1>3 DEF Done
  <2>3. ASSUME NEW p \in kept, NEW e \in body[p].direct,
               \A i \in body[p].icalls : i[1] # e[1], NEW f, IsTarget(p, e[2], f)
        PROVE  \A g : IsTarget(p, e[2], g)' <=> g = f
    <3>1. /\ p \in Loaded /\ p \in Path \ U /\ body[p] # NoBody
      BY DEF Loaded
    <3>2. CASE e[2] \in body[p].defs
      BY <1>3, <1>4, <2>3, <3>1, <3>2 DEF IsTarget
    <3>3. CASE e[2] \notin body[p].defs
      <4>1. PICK q \in Loaded : e[2] \in Exported(q) /\ f = FuncAt(q, e[2])
        BY <2>3, <3>3 DEF IsTarget
      <4>2. q \in Path /\ body[q] # NoBody
        BY DEF Loaded
      <4>3. f \in Func /\ f.path = q
        BY <4>1, <4>2, ExportedLive
      <4>4. <<FuncAt(p, e[1]), f>> \in TrueEdges(Loaded)
        BY <2>3, <3>1, <4>3, SourceIsHere DEF TrueEdges
      <4>5. <<q, p>> \in CallerPaths
        BY <1>6, <1>7, <3>1, <4>3, <4>4, SourceIsHere DEF PlainEdges, IInv, Registered
      <4>6. q \notin U
        BY <2>1, <3>1, <4>5 DEF Affected
      <4>7. q \in Loaded' /\ e[2] \in Exported(q)' /\ f = FuncAt(q, e[2])'
        BY <1>3, <1>4, <4>1, <4>2, <4>6 DEF Loaded
      <4>8. ASSUME NEW r \in Loaded', e[2] \in Exported(r)'
            PROVE  r = q
        <5>1. r \in L!Exports(body', e[2]) /\ q \in L!Exports(body', e[2])
          BY <4>7, <4>8 DEF L!Exports, L!Loaded, Loaded, Exported
        <5>2. r \in L!Loaded(body') /\ q \in L!Loaded(body') /\ e[2] \in body'[r].defs
          BY <5>1 DEF L!Exports
        <5> QED
          BY <5>1, <5>2 DEF L!Linked
      <4>9. e[2] \notin body'[p].defs
        BY <1>3, <3>1, <3>3
      <4> QED
        BY <4>7, <4>8, <4>9 DEF IsTarget
    <3> QED
      BY <3>2, <3>3
  <2>4. \A p \in kept : \A e \in body[p].direct :
          (\A i \in body[p].icalls : i[1] # e[1]) =>
            \A f : IsTarget(p, e[2], f)' <=> IsTarget(p, e[2], f)
    <3>1. ASSUME NEW p \in kept, NEW e \in body[p].direct,
                 \A i \in body[p].icalls : i[1] # e[1]
          PROVE  \A f : IsTarget(p, e[2], f)' <=> IsTarget(p, e[2], f)
      <4>1. PICK f : IsTarget(p, e[2], f) /\ \A g : IsTarget(p, e[2], g) <=> g = f
        BY OneTarget DEF LinkedInv
      <4>2. \A g : IsTarget(p, e[2], g)' <=> g = f
        BY <2>3, <3>1, <4>1
      <4> QED
        BY <4>1, <4>2
    <3> QED
      BY <3>1
  <2>0. PICK K : K = kept
    OBVIOUS
  <2>5. TrueEdges(K)' = TrueEdges(K)
    <3>1. \A p \in K : /\ body'[p] = body[p] /\ \A n : FuncAt(p, n)' = FuncAt(p, n)
      BY <1>3, <1>4, <2>0 DEF Loaded
    <3>2. \A p \in K : \A e \in body[p].direct :
            (\A i \in body[p].icalls : i[1] # e[1]) =>
              \A f : IsTarget(p, e[2], f)' <=> IsTarget(p, e[2], f)
      BY <2>0, <2>4
    <3>3. \A d : (\E p \in K : \E e \in body'[p].direct :
                   /\ \A i \in body'[p].icalls : i[1] # e[1]
                   /\ d[1] = FuncAt(p, e[1])'
                   /\ IsTarget(p, e[2], d[2])')
              <=> (\E p \in K : \E e \in body[p].direct :
                   /\ \A i \in body[p].icalls : i[1] # e[1]
                   /\ d[1] = FuncAt(p, e[1])
                   /\ IsTarget(p, e[2], d[2]))
      <4>1. ASSUME NEW d, NEW p \in K, NEW e \in body[p].direct,
                   \A i \in body[p].icalls : i[1] # e[1]
            PROVE  /\ FuncAt(p, e[1])' = FuncAt(p, e[1])
                   /\ IsTarget(p, e[2], d[2])' <=> IsTarget(p, e[2], d[2])
        BY <3>1, <3>2, <4>1
      <4> QED
        BY <3>1, <4>1
    <3> QED
      BY <3>3 DEF TrueEdges
  <2>6. PlainEdges' = {d \in PlainEdges : d[1].path \notin list}
    <3>1. \A d \in Callees : d[1] \in BCFuncs /\ d[1].path \in Path
      BY DEF IInv, SourcesListed, TypeOK, Func
    <3>2. \A d \in Callees : d[1].path \notin list => (PlainCaller(d[1])' <=> PlainCaller(d[1]))
      BY <1>3, <3>1 DEF PlainCaller
    <3> QED
      BY <1>1, <3>1, <3>2 DEF PlainEdges
  <2>7. {d \in TrueEdges(Loaded) : d[1].path \notin list} = TrueEdges(kept)
    <3>1. TrueEdges(Loaded) = TrueEdges(kept) \cup TrueEdges(Loaded \cap list)
      <4>1. Loaded = kept \cup (Loaded \cap list)
        OBVIOUS
      <4> HIDE DEF kept
      <4> QED
        BY <4>1, TrueEdgesUnion
    <3>2. /\ \A d \in TrueEdges(kept) : d[1].path \notin list
          /\ \A d \in TrueEdges(Loaded \cap list) : d[1].path \in list
      BY TrueEdgesLive DEF LinkedInv
    <3> QED
      BY <3>1, <3>2
  <2>8. PlainEdges' = TrueEdges(K)
    BY <1>7, <2>0, <2>6, <2>7
  <2>9. TrueEdges(Done)' = TrueEdges(K)'
    BY <2>0, <2>2 DEF TrueEdges
  <2> QED
    BY <2>5, <2>8, <2>9
<1> QED
  BY <1>5, <1>8, <1>9 DEF EdgesExact

LEMMA XInit == Init => XInv
<1> SUFFICES ASSUME Init PROVE XInv
  OBVIOUS
<1>1. Loaded = {} /\ L!Loaded(body) = {} /\ phase = "start" /\ Callees = {}
  BY DEF Init, Loaded, L!Loaded
<1>2. LinkedInv
  BY <1>1 DEF LinkedInv, L!Linked
<1>3. GuidsExact
  BY <1>1 DEF GuidsExact
<1>4. EdgesExact
  BY <1>1 DEF EdgesExact, PlainEdges, Done, TrueEdges
<1> QED
  BY <1>2, <1>3, <1>4 DEF XInv

LEMMA StutterX ==
  ASSUME XInv, UNCHANGED vars
  PROVE  XInv'
<1> USE DEF XInv
<1>1. UNCHANGED <<loadVars, GlobalFuncMap, pending, mlist, phase, Callees>>
  BY DEF vars, edgeVars, tableVars, runVars
<1>2. LinkedInv'
  BY <1>1, SameLinked DEF loadVars
<1>3. GuidsExact'
  BY <1>1, SameProgram DEF GuidsExact
<1>4. /\ PlainEdges' = PlainEdges /\ Done' = Done /\ AllRead' = AllRead
      /\ TrueEdges(Done)' = TrueEdges(Done)
  BY <1>1, SameProgram DEF PlainEdges, Done, AllRead, loadVars, TrueEdges, IsTarget
<1> QED
  BY <1>2, <1>3, <1>4 DEF EdgesExact

LEMMA XStep == IInv /\ XInv /\ [LinkedNext]_vars => XInv'
<1> SUFFICES ASSUME IInv, XInv, [LinkedNext]_vars PROVE XInv'
  OBVIOUS
<1>1. CASE Initialize /\ LinkedNext
  BY <1>1, InitializeX DEF LinkedNext
<1>2. ASSUME NEW U \in (SUBSET Path) \ {{}}, NEW new \in Contents(U),
             UpdateModules(U, new), LinkedNext
      PROVE  XInv'
  BY <1>2, UpdateModulesX DEF LinkedNext
<1>3. ASSUME NEW p \in Path, InitModule(p) \/ InitLastModule(p)
      PROVE  XInv'
  <2>1. InTurn(p) /\ body[p] # NoBody /\ Scanned(p)
    BY <1>3 DEF InitModule, InitLastModule
  <2> QED
    BY <2>1, ScannedX
<1>4. ASSUME NEW p \in Path, InitNullModule(p)
      PROVE  XInv'
  BY <1>4, InitNullModuleX
<1>5. CASE ModulePass
  BY <1>5, ModulePassX
<1>6. CASE Finalize
  BY <1>6, FinalizeX
<1>7. CASE UNCHANGED vars
  BY <1>7, StutterX
<1> QED
  BY <1>1, <1>2, <1>3, <1>4, <1>5, <1>6, <1>7 DEF LinkedNext, Next, Run

-----------------------------------------------------------------------------
(* What is shown is the graph of the program. *)

LEMMA NameOfDef ==
  ASSUME IInv, NEW p \in Path, body[p] # NoBody, NEW n \in body[p].defs
  PROVE  NameOf(FuncAt(p, n)) = <<p, n>>
BY SourceFacts DEF NameOf, LiveDefs

\* Both specifications agree on what is loaded and exported.
LEMMA SameExports ==
  /\ L!Loaded(body) = Loaded
  /\ \A n : L!Exports(body, n) = {q \in Loaded : n \in Exported(q)}
BY DEF L!Loaded, L!Exports, Loaded, Exported

\* The names of a call's targets are what it resolves to.
LEMMA TargetNames ==
  ASSUME IInv, NEW p \in Loaded, NEW e \in body[p].direct
  PROVE  /\ \A f : IsTarget(p, e[2], f) => NameOf(f) \in L!Resolve(body, p, e[2])
         /\ \A r \in L!Resolve(body, p, e[2]) :
              \E f \in Func : IsTarget(p, e[2], f) /\ NameOf(f) = r
<1>1. p \in Path /\ body[p] # NoBody
  BY DEF Loaded
<1>2. CASE e[2] \in body[p].defs
  <2>1. FuncAt(p, e[2]) \in Func /\ NameOf(FuncAt(p, e[2])) = <<p, e[2]>>
    BY <1>1, <1>2, SourceFacts, NameOfDef
  <2> QED
    BY <1>2, <2>1 DEF IsTarget, L!Resolve
<1>3. CASE e[2] \notin body[p].defs
  <2>1. ASSUME NEW q \in Loaded, e[2] \in Exported(q)
        PROVE  FuncAt(q, e[2]) \in Func /\ NameOf(FuncAt(q, e[2])) = <<q, e[2]>>
    <3>1. q \in Path /\ body[q] # NoBody /\ e[2] \in body[q].defs
      BY <2>1 DEF Loaded, Exported
    <3> QED
      BY <3>1, SourceFacts, NameOfDef
  <2>2. L!Resolve(body, p, e[2]) = {<<q, e[2]>> : q \in {r \in Loaded : e[2] \in Exported(r)}}
    BY <1>3, SameExports DEF L!Resolve
  <2>3. \A f : IsTarget(p, e[2], f) <=>
               \E q \in Loaded : e[2] \in Exported(q) /\ f = FuncAt(q, e[2])
    BY <1>3 DEF IsTarget
  <2> QED
    BY <2>1, <2>2, <2>3
<1> QED
  BY <1>2, <1>3

LEMMA EdgesChar ==
  ASSUME NEW t
  PROVE  t \in L!Edges(body) <=>
           \E p \in Loaded : \E e \in body[p].direct :
             /\ \A i \in body[p].icalls : i[1] # e[1]
             /\ \E r \in L!Resolve(body, p, e[2]) : t = <<<<p, e[1]>>, r>>
BY SameExports DEF L!Edges

\* The graph of the modules, by names, is the graph of the program.
LEMMA NamedTrueEdges ==
  ASSUME IInv
  PROVE  Named(TrueEdges(Loaded)) = L!Edges(body)
<1>1. ASSUME NEW p \in Loaded, NEW e \in body[p].direct
      PROVE  FuncAt(p, e[1]) \in Func /\ NameOf(FuncAt(p, e[1])) = <<p, e[1]>>
  <2>1. FuncAt(p, e[1]) \in LiveFuncs /\ FuncAt(p, e[1]) \in Func
        /\ FuncAt(p, e[1]).path = p /\ FuncAt(p, e[1]).name = e[1]
    BY SourceIsHere
  <2> QED
    BY <2>1 DEF NameOf
<1>2. ASSUME NEW d \in TrueEdges(Loaded)
      PROVE  <<NameOf(d[1]), NameOf(d[2])>> \in L!Edges(body)
  <2>1. PICK p \in Loaded : \E e \in body[p].direct :
          /\ \A i \in body[p].icalls : i[1] # e[1]
          /\ d[1] = FuncAt(p, e[1])
          /\ IsTarget(p, e[2], d[2])
    BY DEF TrueEdges
  <2>2. PICK e \in body[p].direct :
          /\ \A i \in body[p].icalls : i[1] # e[1]
          /\ d[1] = FuncAt(p, e[1])
          /\ IsTarget(p, e[2], d[2])
    BY <2>1
  <2>3. NameOf(d[2]) \in L!Resolve(body, p, e[2])
    BY <2>2, TargetNames
  <2>4. NameOf(d[1]) = <<p, e[1]>>
    BY <1>1, <2>2
  <2> QED
    BY <2>2, <2>3, <2>4, EdgesChar
<1>3. ASSUME NEW t \in L!Edges(body)
      PROVE  t \in Named(TrueEdges(Loaded))
  <2>1. PICK p \in Loaded : \E e \in body[p].direct :
          /\ \A i \in body[p].icalls : i[1] # e[1]
          /\ \E r \in L!Resolve(body, p, e[2]) : t = <<<<p, e[1]>>, r>>
    BY EdgesChar
  <2>2. PICK e \in body[p].direct :
          /\ \A i \in body[p].icalls : i[1] # e[1]
          /\ \E r \in L!Resolve(body, p, e[2]) : t = <<<<p, e[1]>>, r>>
    BY <2>1
  <2>3. PICK r \in L!Resolve(body, p, e[2]) : t = <<<<p, e[1]>>, r>>
    BY <2>2
  <2>4. PICK f \in Func : IsTarget(p, e[2], f) /\ NameOf(f) = r
    BY TargetNames
  <2>5. <<FuncAt(p, e[1]), f>> \in TrueEdges(Loaded)
    BY <1>1, <2>2, <2>4 DEF TrueEdges
  <2>6. t = <<NameOf(FuncAt(p, e[1])), NameOf(f)>>
    BY <1>1, <2>3, <2>4
  <2> QED
    BY <2>5, <2>6 DEF Named
<1> QED
  BY <1>2, <1>3 DEF Named

ShownExact ==
  phase = "ready" => Shown = [callees |-> L!Edges(body), callers |-> L!Edges(body)]

LEMMA ShownIsEdges == IInv /\ XInv => ShownExact
<1> SUFFICES ASSUME IInv, XInv, phase = "ready"
             PROVE  Shown = [callees |-> L!Edges(body), callers |-> L!Edges(body)]
  BY DEF ShownExact
<1>1. AllRead /\ Done = Loaded
  BY DEF AllRead, Done, IInv, DriverInv
<1>2. PlainEdges = TrueEdges(Loaded)
  BY <1>1 DEF XInv, EdgesExact
<1>3. {e \in Callers : PlainCaller(e[1]) /\ e[2] \in LiveDefs} = PlainEdges
  <2>1. \A e \in PlainEdges : e \in Callers /\ e[2] \in LiveDefs
    BY <1>1, <1>2, TrueEdgesLive
       DEF PlainEdges, IInv, DirectCallersAgree, XInv, LinkedInv
  <2>2. \A e \in Callers : e[2] \in LiveDefs => e \in Callees
    BY DEF IInv, CallersInverse
  <2> QED
    BY <2>1, <2>2 DEF PlainEdges
<1> QED
  BY <1>2, <1>3, NamedTrueEdges DEF Shown, PlainEdges

\* What is shown is an answer.
LEMMA ShownIsAnswer ==
  ASSUME IInv
  PROVE  Shown # NoAnswer
<1>1. \A f : NameOf(f) \in Function \cup {NoFunc}
  BY LiveFuncsType DEF NameOf, Function, Func, IInv, TypeOK
<1>2. \A E : Named(E) \subseteq (Function \cup {NoFunc}) \X (Function \cup {NoFunc})
  BY <1>1 DEF Named
<1> QED
  BY <1>2, NoAnswerAssumption DEF Shown

-----------------------------------------------------------------------------
(* Every step of an update is a change, an answer or nothing. *)

AnswerNow == IF phase \in {"start", "ready"} THEN Shown ELSE NoAnswer

LEMMA MapInit == Init => L!Init
<1> SUFFICES ASSUME Init PROVE L!Init
  OBVIOUS
<1>1. Shown = [callees |-> {}, callers |-> {}]
  BY DEF Init, Shown, Named
<1> QED
  BY <1>1 DEF Init, L!Init

LEMMA MapStep ==
  /\ IInv /\ XInv /\ [LinkedNext]_vars
  /\ XInv' /\ ShownExact'
  => [L!Next]_<<body, AnswerNow>>
<1> SUFFICES ASSUME IInv, XInv, [LinkedNext]_vars, XInv', ShownExact'
             PROVE  L!Next \/ UNCHANGED <<body, AnswerNow>>
  OBVIOUS
<1>1. ASSUME LinkedNext, phase \in {"start", "ready"}, phase' = "init"
      PROVE  L!Next
  <2>1. body' \in Contents(Path) /\ L!Linked(body')
    BY <1>1 DEF LinkedNext, XInv, LinkedInv
  <2> QED
    BY <1>1, <2>1, ShownIsAnswer DEF L!Next, L!Change
<1>2. CASE Initialize /\ LinkedNext
  BY <1>1, <1>2 DEF Initialize
<1>3. ASSUME NEW U \in (SUBSET Path) \ {{}}, NEW new \in Contents(U),
             UpdateModules(U, new), LinkedNext
      PROVE  L!Next
  BY <1>1, <1>3 DEF UpdateModules
<1>4. ASSUME NEW p \in Path, InitModule(p) \/ InitLastModule(p) \/ InitNullModule(p)
      PROVE  UNCHANGED <<body, AnswerNow>>
  BY <1>4 DEF InitModule, InitLastModule, InitNullModule, Scanned, InTurn,
              loadVars, AnswerNow
<1>5. CASE ModulePass
  BY <1>5 DEF ModulePass, loadVars, AnswerNow
<1>6. CASE Finalize
  <2>1. phase = "post" /\ phase' = "ready" /\ body' = body
    BY <1>6 DEF Finalize, loadVars
  <2>2. Shown' = [callees |-> L!Edges(body'), callers |-> L!Edges(body')]
    BY <2>1 DEF ShownExact
  <2> QED
    BY <2>1, <2>2 DEF L!Next, L!Answer
<1>7. CASE UNCHANGED vars
  <2>1. LiveFuncs' = LiveFuncs /\ LiveDefs' = LiveDefs
    BY <1>7, LiveUnchanged DEF vars
  <2>2. \A c : PlainCaller(c)' = PlainCaller(c)
    BY <1>7, SameProgram DEF vars
  <2>3. Shown' = Shown
    BY <1>7, <2>1, <2>2 DEF vars, edgeVars, Shown, Named, NameOf
  <2> QED
    BY <1>7, <2>3 DEF vars, loadVars, runVars, AnswerNow
<1> QED
  BY <1>2, <1>3, <1>4, <1>5, <1>6, <1>7 DEF LinkedNext, Next, Run

\* For every set of files, of versions that link and any number of updates,
\* what the incremental call graph shows between two updates is the graph of
\* the current program, in both directions.
THEOREM Refinement == LinkedSpec => ImplementsLinkedCalls
<1>1. IInv /\ [LinkedNext]_vars => IInv'
  BY NextIInv DEF LinkedNext
<1>2. LinkedSafety => [](IInv /\ XInv)
  BY <1>1, InitIInv, XInit, XStep, PTL DEF LinkedSafety
<1>3. LinkedSafety => L!Init /\ [][L!Next]_<<body, AnswerNow>>
  BY <1>2, MapInit, MapStep, ShownIsEdges, PTL DEF LinkedSafety
<1> QED
  BY <1>3, PTL DEF LinkedSpec, ImplementsLinkedCalls, L!Safety, AnswerNow
=============================================================================
