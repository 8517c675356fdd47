------------------------------- MODULE MLTA -------------------------------
(***************************************************************************)
(* Multi-layer type analysis (src/src/callgraph/MLTA.cc): the targets of   *)
(* an indirect call are the address-taken functions of its signature that  *)
(* were also stored at every layer the called pointer comes through.  The  *)
(* facts about stores are kept across commits and repaired module by       *)
(* module; a run of CallGraphPass first scans the modules of its list and  *)
(* then looks up their calls.                                              *)
(*                                                                         *)
(* Module CallGraph has the tables of the pass and what becomes of         *)
(* declarations; here a module stores the functions it defines, and all    *)
(* its versions define the same.                                           *)
(***************************************************************************)
EXTENDS ValueTypes

CONSTANTS
  Module, NoModule,
  Func,           \* functions, which are values
  ModuleOf,       \* the module that defines each function
  Const, NoConst, \* constants with operands: aggregates, globals
  TypesOf,        \* structTypeHash, or typeHash, of a constant's type
  Operands,       \* the operands of a constant, see Operand
  Call, NoCall,   \* indirect calls
  CallHash, CalledOperand,   \* of each call
  Versions,       \* Versions[m]: what module m may contain
  MaxTypeLayer,   \* MAX_TYPE_LAYER
  MaxUpdates      \* bound: updates after the first run

(* An operand of a constant: a function or a cast of one; a nested         *)
(* aggregate; a pointer to something, with the struct type it points to if *)
(* it is a global; a cast of a constant; null and plain data are not kept. *)
Operand == [kind : {"func", "nested", "pointer", "cast"},
            to : Func \cup Const, cap : Type \cup {NoType}]

(* One version of a module. *)
Body == [ taken  : SUBSET Func,             \* address-taken functions
          stores : SUBSET (Value \X Value), \* pairs <<pointer, value>>
          passed : SUBSET Func,             \* arguments that a callee stores
          init   : Const \cup {NoConst},    \* a global's initializer
          calls  : SUBSET Call ]

ASSUME ModulesAssumption ==
  /\ NoModule \notin Module /\ NoConst \notin Const /\ NoCall \notin Call
  /\ Func \subseteq Value /\ Func \cap Const = {}
  /\ ModuleOf \in [Func -> Module]
  /\ \A f \in Func : IR[f].fptr \in Type
  /\ TypesOf \in [Const -> SUBSET Type]
  /\ Operands \in [Const -> Seq(Operand)]
  /\ \A u \in Const : \A i \in DOMAIN Operands[u] :
       (Operands[u][i].kind = "func" <=> Operands[u][i].to \in Func) /\ i - 1 \in Index
  /\ CallHash \in [Call -> Type] /\ CalledOperand \in [Call -> Value]
  /\ Versions \in [Module -> SUBSET Body]
  /\ \A m \in Module : \A b \in Versions[m] :
       /\ \A f \in b.taken \cup b.passed : ModuleOf[f] = m
       /\ \A s \in b.stores : s[2] \in Func => ModuleOf[s[2]] = m
  /\ MaxTypeLayer \in Nat \ {0} /\ MaxUpdates \in Nat

\* What the walk over the IR returns, for any IR.
ASSUME LayersAssumption ==
  /\ \A v \in Value : /\ NextLayer[v, {}].types \in Seq(TypeIdx)
                      /\ NextLayer[v, {}].next \in Value \cup {NoValue}
                      /\ BaseTypeChain(v).types \in Seq(TypeIdx)
                      /\ BaseTypeChain(v).complete \in BOOLEAN
                      /\ BaseTypeOf[v, {}] \in Type \cup {NoType}

VARIABLES
  loaded,            \* the version of each module
  sigFuncsMap,       \* pairs <<signature, function>>
  typeIdxFuncsMap,   \* pairs <<layer, function>>
  funcTypeIdxsMap,   \* pairs <<function, layer>>
  typeIdxPropMap,    \* pairs <<layer, layer its functions may come from>>
  typeEscapeSet,     \* layers
  typeCapSet,        \* types
  MatchedFuncsMap,   \* layer -> functions, once looked up
  callees,           \* what the last run found for each call
  list, todo,        \* modules of this run, and those not scanned yet
  scan,              \* locals of typeConfineInInitializer
  asked, done,       \* calls of this run to look up, and looked up
  walk,              \* locals of findCalleesWithMLTA
  dep,               \* locals of getDependentTypes
  phase,             \* "scan", "calls", "ready"
  updates

factVars == <<sigFuncsMap, typeIdxFuncsMap, funcTypeIdxsMap, typeIdxPropMap,
              typeEscapeSet, typeCapSet>>
runVars  == <<loaded, list, phase, updates>>
callVars == <<callees, asked, done>>
vars     == <<factVars, runVars, callVars, MatchedFuncsMap, todo, scan, walk, dep>>

-----------------------------------------------------------------------------
ElementsOf(s) == {s[i] : i \in 1 .. Len(s)}

\* The constants that edges, tuples that begin with their ends, lead to from u.
Reach(edges, u) ==
  {w \in Const : \A S \in SUBSET Const :
     u \in S /\ (\A e \in edges : e[1] \in S => e[2] \in S) => w \in S}

\* sigFuncsMap[sig]
Bucket(sig) == {f \in Func : <<sig, f>> \in sigFuncsMap}

NoScan == [mod |-> NoModule, lu |-> <<>>, seen |-> {}, user |-> NoConst, oi |-> 0,
           containers |-> {}]

NoWalk == [call |-> NoCall, fs |-> {}, fs1 |-> {}, fs2 |-> {}, cv |-> NoValue,
           next |-> NoValue, types |-> <<>>, no |-> 0, prev |-> NoType]

NoDep == [of |-> <<>>, lt |-> {}, visited |-> {}, props |-> {}]

\* What confineTargetFunction, propagateType and escapeType make of a store.
IsConfined(s)   == s[2] \in Func
ConfinedBy(s)   == IF IsConfined(s)
                   THEN ElementsOf(BaseTypeChain(s[1]).types) \X {s[2]} ELSE {}

(* typePropInFunction: the layers a value comes from: those of its next    *)
(* layer, or its base type, or the function pointer type it has.           *)
SourcesOf(v, types, base) ==
  IF types # <<>> THEN ElementsOf(types)
  ELSE IF base # NoType THEN {<<base, AnyIndex>>}
  ELSE IF IR[v].fptr # NoType /\ v \notin Func THEN {<<IR[v].fptr, AnyIndex>>}
  ELSE {}

Sources(v) == SourcesOf(v, NextLayer[v, {}].types, BaseTypeOf[v, {}])

Escapes(v) == /\ NextLayer[v, {}].types = <<>> /\ BaseTypeOf[v, {}] = NoType
              /\ IR[v].fptr = NoType /\ IR[v].ptr

PropagatedBy(s) ==
  {p \in ElementsOf(BaseTypeChain(s[1]).types) \X Sources(s[2]) : p[1] # p[2]}

EscapedBy(s) == IF Escapes(s[2]) THEN ElementsOf(BaseTypeChain(s[1]).types) ELSE {}

\* A slip: only what is copied behind an incomplete chain caps its type.
CappedByCopies(c, s) ==
  IF c.complete THEN {}
  ELSE IF c.types = <<>> THEN IF IsConfined(s) THEN {IR[s[2]].fptr} ELSE {}
  ELSE IF Sources(s[2]) # {} THEN {c.types[Len(c.types)][1]} ELSE {}

\* An incomplete chain caps the type it ends at, an empty one the signature.
Capped(c, s) ==
  IF c.complete THEN {}
  ELSE IF c.types = <<>> THEN IF IsConfined(s) THEN {IR[s[2]].fptr} ELSE {}
  ELSE IF IsConfined(s) \/ Sources(s[2]) # {} \/ Escapes(s[2])
       THEN {c.types[Len(c.types)][1]} ELSE {}

CappedBy(s) == Capped(BaseTypeChain(s[1]), s)

-----------------------------------------------------------------------------
Init ==
  /\ loaded \in {b \in [Module -> UNION {Versions[m] : m \in Module}] :
                   \A m \in Module : b[m] \in Versions[m]}
  /\ sigFuncsMap = {} /\ typeIdxFuncsMap = {} /\ funcTypeIdxsMap = {}
  /\ typeIdxPropMap = {} /\ typeEscapeSet = {} /\ typeCapSet = {}
  /\ MatchedFuncsMap = [t \in {} |-> {}]
  /\ callees = [c \in Call |-> {}]
  /\ list = Module /\ todo = Module
  /\ scan = NoScan /\ walk = NoWalk /\ dep = NoDep
  /\ asked = {} /\ done = {}
  /\ phase = "scan"
  /\ updates = 0

\* A slip: only the map that says what to erase is erased.
InvalidateForward(U) ==
  /\ typeIdxFuncsMap' = typeIdxFuncsMap
  /\ funcTypeIdxsMap' = {x \in funcTypeIdxsMap : ModuleOf[x[1]] \notin U}

(* invalidateStates, of every module of the list. *)
Invalidate(U) ==
  LET gone == {x \in funcTypeIdxsMap : ModuleOf[x[1]] \in U}
  IN  /\ typeIdxFuncsMap' = {x \in typeIdxFuncsMap : <<x[2], x[1]>> \notin gone}
      /\ funcTypeIdxsMap' = funcTypeIdxsMap \ gone

\* A slip: the cache outlives the run.
KeepTempStates == UNCHANGED MatchedFuncsMap

InitTempStates == MatchedFuncsMap' = [t \in {} |-> {}]

\* sigFuncsMap.erase(funcHash(F, false)), of every function of the modules.
SigsKept(U) == {x \in sigFuncsMap : \A f \in Func : ModuleOf[f] \in U => IR[f].fptr # x[1]}

(* An update loads new versions; modules that are only affected are        *)
(* scanned again as they are.                                              *)
Update(U, new) ==
  /\ phase = "ready"
  /\ updates < MaxUpdates
  /\ Invalidate(U)
  /\ sigFuncsMap' = SigsKept(U)
  /\ InitTempStates
  /\ loaded' = [m \in Module |-> IF m \in U THEN new[m] ELSE loaded[m]]
  /\ list' = U /\ todo' = U
  /\ done' = {}
  /\ phase' = "scan"
  /\ updates' = updates + 1
  /\ UNCHANGED <<typeIdxPropMap, typeEscapeSet, typeCapSet, callees, asked, scan, walk, dep>>

-----------------------------------------------------------------------------
(* doInitialization of a module: typeConfineInInitializer, then the        *)
(* functions.                                                              *)

ScanGlobal(m) ==
  /\ phase = "scan" /\ scan.mod = NoModule
  /\ m \in todo
  /\ scan' = [NoScan EXCEPT !.mod = m,
                !.lu = IF loaded[m].init = NoConst THEN <<>> ELSE <<loaded[m].init>>]
  /\ UNCHANGED <<factVars, runVars, callVars, MatchedFuncsMap, todo, walk, dep>>

PopUser ==
  /\ scan.mod # NoModule /\ scan.user = NoConst
  /\ scan.lu # <<>>
  /\ LET u == Head(scan.lu)
     IN  scan' = IF u \in scan.seen
                 THEN [scan EXCEPT !.lu = Tail(@)]
                 ELSE [scan EXCEPT !.lu = Tail(@), !.seen = @ \cup {u}, !.user = u, !.oi = 1]
  /\ UNCHANGED <<factVars, runVars, callVars, MatchedFuncsMap, todo, walk, dep>>

\* The containers above u: the last container of each, as the map keeps it.
Above(u) == Reach(scan.containers, u)

\* "Add the function type to all containers"
Holders(u, i) == {<<u, i>>} \cup {<<c[2], c[3]>> : c \in {d \in scan.containers :
                                                           d[1] \in Above(u)}}

\* ContainersMap[O] = make_pair(U, operand number): one container each.
Contained(o) == {c \in scan.containers : c[1] # o.to} \cup {<<o.to, scan.user, scan.oi - 1>>}

ScanOperand ==
  /\ scan.user # NoConst
  /\ scan.oi <= Len(Operands[scan.user])
  /\ LET o      == Operands[scan.user][scan.oi]
         layers == {l \in TypeIdx : \E h \in Holders(scan.user, scan.oi - 1) :
                                      l[1] \in TypesOf[h[1]] /\ l[2] = h[2]}
     IN  \/ /\ o.kind = "func"
            /\ typeIdxFuncsMap' = typeIdxFuncsMap \cup (layers \X {o.to})
            /\ funcTypeIdxsMap' = funcTypeIdxsMap \cup ({o.to} \X layers)
            /\ scan' = [scan EXCEPT !.oi = @ + 1]
            /\ UNCHANGED typeCapSet
         \/ /\ o.kind # "func"
            /\ scan' = [scan EXCEPT !.oi = @ + 1, !.lu = Append(@, o.to),
                          !.containers = IF o.kind = "cast" THEN @ ELSE Contained(o)]
            /\ typeCapSet' = typeCapSet \cup ({o.cap} \ {NoType})
            /\ UNCHANGED <<typeIdxFuncsMap, funcTypeIdxsMap>>
  /\ UNCHANGED <<sigFuncsMap, typeIdxPropMap, typeEscapeSet, runVars, callVars,
                 MatchedFuncsMap, todo, walk, dep>>

NextUser ==
  /\ scan.user # NoConst
  /\ scan.oi > Len(Operands[scan.user])
  /\ scan' = [scan EXCEPT !.user = NoConst]
  /\ UNCHANGED <<factVars, runVars, callVars, MatchedFuncsMap, todo, walk, dep>>

Flows(b) == UNION {PropagatedBy(s) : s \in b.stores}

(* The loop over the functions: those with their address taken, then       *)
(* typeConfineInFunction and typePropInFunction.                           *)
ScanFunctions ==
  LET b   == loaded[scan.mod]
      new == UNION {ConfinedBy(s) : s \in b.stores}
  IN  /\ scan.mod # NoModule /\ scan.user = NoConst /\ scan.lu = <<>>
      /\ sigFuncsMap' = sigFuncsMap \cup {<<IR[f].fptr, f>> : f \in b.taken}
      /\ typeIdxFuncsMap' = typeIdxFuncsMap \cup new
      /\ funcTypeIdxsMap' = funcTypeIdxsMap \cup {<<x[2], x[1]>> : x \in new}
      /\ typeIdxPropMap' = typeIdxPropMap \cup Flows(b)
      /\ typeEscapeSet' = typeEscapeSet \cup UNION {EscapedBy(s) : s \in b.stores}
      /\ typeCapSet' = typeCapSet \cup {IR[f].fptr : f \in b.passed}
                         \cup UNION {CappedBy(s) : s \in b.stores}
      /\ scan' = NoScan
      /\ todo' = todo \ {scan.mod}
      /\ phase' = IF todo = {scan.mod} THEN "calls" ELSE "scan"
      /\ asked' = IF todo = {scan.mod} THEN UNION {loaded[m].calls : m \in list} ELSE {}
      /\ UNCHANGED <<loaded, list, updates, callees, done, MatchedFuncsMap, walk, dep>>

-----------------------------------------------------------------------------
(* findCalleesWithMLTA *)

Answer(c, fs) ==
  /\ callees' = [callees EXCEPT ![c] = fs]
  /\ done' = done \cup {c}
  /\ asked' = asked \ {c}

FindCallees(c) ==
  LET fs == Bucket(CallHash[c])
  IN  /\ phase = "calls" /\ walk.call = NoCall
      /\ c \in asked
      /\ \/ /\ fs = {}
            /\ Answer(c, {})
            /\ UNCHANGED walk
         \/ /\ fs # {}
            /\ walk' = [NoWalk EXCEPT !.call = c, !.fs = fs, !.cv = CalledOperand[c],
                          !.no = 1, !.prev = CallHash[c]]
            /\ UNCHANGED callVars
      /\ UNCHANGED <<factVars, runVars, MatchedFuncsMap, todo, scan, dep>>

\* A slip: the length of the walk is not limited.
UnderLimitAlways == TRUE

UnderLimit == walk.no < MaxTypeLayer

Cached(t) == t \in DOMAIN MatchedFuncsMap

\* A slip: a cached layer does not count.
CountedUncached(t) == IF ~Cached(t) THEN walk.no + 1 ELSE walk.no

\* ++LayerNo
Counted(t) == walk.no + 1

\* The head of the outer loop.
AtHead == walk.call # NoCall /\ walk.types = <<>>

MoreLayers == /\ UnderLimit
              /\ walk.prev \notin typeCapSet
              /\ walk.cv # NoValue
              /\ NextLayer[walk.cv, {}].types # <<>>

EnterLayers ==
  /\ AtHead
  /\ MoreLayers
  /\ walk' = [walk EXCEPT !.types = NextLayer[walk.cv, {}].types,
                          !.next = NextLayer[walk.cv, {}].next]
  /\ UNCHANGED <<factVars, runVars, callVars, MatchedFuncsMap, todo, scan, dep>>

Return ==
  /\ AtHead
  /\ ~MoreLayers
  /\ Answer(walk.call, walk.fs)
  /\ walk' = NoWalk
  /\ UNCHANGED <<factVars, runVars, MatchedFuncsMap, todo, scan, dep>>

\* The inner loop is at layer t.
AtLayer(t) == walk.types # <<>> /\ t = Head(walk.types) /\ dep = NoDep

LimitReached ==
  /\ walk.types # <<>> /\ dep = NoDep
  /\ ~UnderLimit
  /\ walk' = [walk EXCEPT !.types = <<>>]
  /\ UNCHANGED <<factVars, runVars, callVars, MatchedFuncsMap, todo, scan, dep>>

\* The rest of a turn, from the intersection on: either the type is capped
\* and the walk is over, or it goes on to the next layer.
Intersected(t, fs1) ==
  LET fs == walk.fs \cap fs1
  IN  \/ /\ t[1] \in typeCapSet
         /\ Answer(walk.call, fs)
         /\ walk' = NoWalk
      \/ /\ t[1] \notin typeCapSet
         /\ walk' = [walk EXCEPT !.fs = fs, !.fs1 = fs1, !.fs2 = fs, !.cv = walk.next,
                       !.prev = t[1], !.types = Tail(@),
                       !.no = IF dep = NoDep THEN Counted(t) ELSE @]
         /\ UNCHANGED callVars

LookUpCached(t) ==
  /\ AtLayer(t) /\ UnderLimit
  /\ Cached(t)
  /\ Intersected(t, MatchedFuncsMap[t])
  /\ UNCHANGED <<factVars, runVars, MatchedFuncsMap, todo, scan, dep>>

Escaped(t) == t \in typeEscapeSet \/ <<t[1], AnyIndex>> \in typeEscapeSet

\* The break leaves the inner loop only: the outer one goes on from cv.
MeetEscaped(t) ==
  /\ AtLayer(t) /\ UnderLimit
  /\ ~Cached(t)
  /\ Escaped(t)
  /\ walk' = [walk EXCEPT !.types = <<>>, !.no = Counted(t)]
  /\ UNCHANGED <<factVars, runVars, callVars, MatchedFuncsMap, todo, scan, dep>>

(* getTargetsWithLayerType: the functions at index i of the type, or at    *)
(* any.  For any index it adds to the set that it is given.                *)
TargetsAt(t) ==
  {f \in Func : \E x \in typeIdxFuncsMap :
     /\ x[2] = f /\ x[1][1] = t[1]
     /\ t[2] = AnyIndex \/ x[1][2] \in {t[2], AnyIndex}}

LookUp(t) ==
  /\ AtLayer(t) /\ UnderLimit
  /\ ~Cached(t)
  /\ ~Escaped(t)
  /\ walk' = [walk EXCEPT !.no = Counted(t),
                !.fs1 = TargetsAt(t) \cup (IF t[2] = AnyIndex THEN @ ELSE {})]
  /\ dep' = [of |-> t, lt |-> {t}, visited |-> {}, props |-> {}]
  /\ UNCHANGED <<factVars, runVars, callVars, MatchedFuncsMap, todo, scan>>

\* A slip: only what any field depends on is followed.
PropsIndexed(t) == {p[2] : p \in {q \in typeIdxPropMap : q[1] = t}}

\* typeIdxPropMap[TI.first][TI.second] and typeIdxPropMap[TI.first][-1]
PropsOf(t) == {p[2] : p \in {q \in typeIdxPropMap :
                               q[1][1] = t[1] /\ q[1][2] \in {t[2], AnyIndex}}}

(* A turn of the worklist of getDependentTypes.  The list is worked off in *)
(* any order here.                                                         *)
FollowProps(t) ==
  /\ dep # NoDep
  /\ t \in dep.lt
  /\ dep' = IF t \in dep.visited
            THEN [dep EXCEPT !.lt = @ \ {t}]
            ELSE [dep EXCEPT !.lt = (@ \ {t}) \cup (PropsOf(t) \ (dep.visited \cup {t})),
                             !.visited = @ \cup {t},
                             !.props = @ \cup PropsOf(t)]
  /\ UNCHANGED <<factVars, runVars, callVars, MatchedFuncsMap, todo, scan, walk>>

(* The union over PropSet.  FS2 still holds what the last layer left in it,*)
(* and a Prop of any index adds to that: it stays when all of PropSet or   *)
(* its first element is such a Prop.                                       *)
LeftOver == IF \A p \in dep.props : p[2] # AnyIndex THEN {{}}
            ELSE IF \A p \in dep.props : p[2] = AnyIndex THEN {walk.fs2}
            ELSE {{}, walk.fs2}

Matched ==
  /\ dep # NoDep
  /\ dep.lt = {}
  /\ \E left \in LeftOver :
       LET fs1 == walk.fs1 \cup left \cup UNION {TargetsAt(p) : p \in dep.props}
       IN  /\ MatchedFuncsMap' = [t \in DOMAIN MatchedFuncsMap \cup {dep.of} |->
                                   IF t = dep.of THEN fs1 ELSE MatchedFuncsMap[t]]
           /\ Intersected(dep.of, fs1)
  /\ dep' = NoDep
  /\ UNCHANGED <<factVars, runVars, todo, scan>>

EndRun ==
  /\ phase = "calls" /\ walk.call = NoCall
  /\ asked = {}
  /\ phase' = "ready"
  /\ UNCHANGED <<factVars, loaded, list, updates, callVars, MatchedFuncsMap, todo, scan,
                 walk, dep>>

-----------------------------------------------------------------------------
Scan == \/ \E m \in Module : ScanGlobal(m)
        \/ PopUser \/ ScanOperand \/ NextUser \/ ScanFunctions

Walk == \/ EnterLayers \/ Return \/ LimitReached \/ Matched
        \/ \E t \in TypeIdx : LookUpCached(t) \/ MeetEscaped(t) \/ LookUp(t) \/ FollowProps(t)

Next == \/ \E U \in (SUBSET Module) \ {{}} : \E new \in [U -> UNION {Versions[m] : m \in U}] :
             (\A m \in U : new[m] \in Versions[m]) /\ Update(U, new)
        \/ Scan
        \/ \E c \in Call : FindCallees(c)
        \/ Walk
        \/ EndRun

Spec     == Init /\ [][Next]_vars
FairSpec == Spec /\ WF_vars(Walk)

-----------------------------------------------------------------------------
(* Properties *)

Layer == TypeIdx

\* TypeOK: what the tables and the locals hold; MAX_TYPE_LAYER bounds the
\* layers that the walk counts (MLTA.cc:1138).
TypeOK ==
  /\ \A m \in Module : loaded[m] \in Versions[m]
  /\ sigFuncsMap \subseteq Type \X Func
  /\ typeIdxFuncsMap \subseteq Layer \X Func /\ funcTypeIdxsMap \subseteq Func \X Layer
  /\ typeIdxPropMap \subseteq Layer \X Layer
  /\ typeEscapeSet \subseteq Layer /\ typeCapSet \subseteq Type
  /\ DOMAIN MatchedFuncsMap \subseteq Layer
  /\ MatchedFuncsMap \in [DOMAIN MatchedFuncsMap -> SUBSET Func]
  /\ callees \in [Call -> SUBSET Func]
  /\ list \subseteq Module /\ todo \subseteq list
  /\ asked \subseteq Call /\ done \subseteq Call /\ asked \cap done = {}
  /\ walk.call \in Call \cup {NoCall} /\ walk.fs \subseteq Func /\ walk.fs1 \subseteq Func
  /\ walk.fs2 \subseteq Func /\ walk.cv \in Value \cup {NoValue}
  /\ walk.next \in Value \cup {NoValue} /\ walk.types \in Seq(Layer)
  /\ walk.no \in 0 .. MaxTypeLayer
  /\ dep.lt \cup dep.visited \cup dep.props \subseteq Layer
  /\ phase \in {"scan", "calls", "ready"}
  /\ updates \in 0 .. MaxUpdates

\* The operands of u that are constants; those that are not cast belong to u.
Parts(u) == {i \in DOMAIN Operands[u] : Operands[u][i].kind # "func"}
Held(u)  == {i \in Parts(u) : Operands[u][i].kind # "cast"}

\* The constants that an initializer leads to, and those in an aggregate.
Nested(root) == Reach(UNION {{<<u, Operands[u][i].to>> : i \in Parts(u)} : u \in Const}, root)
Within(u)    == Reach(UNION {{<<w, Operands[w][i].to>> : i \in Held(w)} : w \in Const}, u)

\* The functions at operand i of u, in whatever depth.
FuncsWithin(u, i) ==
  IF i \notin Parts(u) THEN {Operands[u][i].to}
  ELSE IF i \notin Held(u) THEN {}
  ELSE UNION {{Operands[w][k].to : k \in DOMAIN Operands[w] \ Parts(w)} : w \in Within(Operands[u][i].to)}

\* What an initializer confines: to each operand the functions within.
Inside(root) ==
  UNION {UNION {(TypesOf[u] \X {i - 1}) \X FuncsWithin(u, i) : i \in DOMAIN Operands[u]}
         : u \in Nested(root)}

\* Initializers are trees of functions of their own module: no constant is an
\* operand twice, and none leads back to the root.
InitializersAreTrees ==
  \A m \in Module : \A b \in Versions[m] : b.init # NoConst =>
    LET N == Nested(b.init) IN
    /\ \A u \in N : \A i \in DOMAIN Operands[u] \ Parts(u) : ModuleOf[Operands[u][i].to] = m
    /\ \A u, w \in N : \A i \in Parts(u), j \in Parts(w) :
         Operands[u][i].to = Operands[w][j].to => u = w /\ i = j
    /\ \A u \in N : \A i \in Parts(u) : Operands[u][i].to # b.init

\* What a scan of the modules as they are, and of nothing else, confines.
FactsOf(b) ==
  (UNION {ConfinedBy(s) : s \in b.stores}) \cup (IF b.init = NoConst THEN {} ELSE Inside(b.init))

FactsNow == UNION {FactsOf(loaded[m]) : m \in Module}

\* FactsCurrent: after any updates, the facts about stores, and the map of
\* the other direction by which invalidateStates finds them, are those of
\* the program as it is: none is left of a replaced version, and the
\* worklist over an initializer adds a function to all its containers.
FactsCurrent ==
  phase # "scan" =>
    /\ typeIdxFuncsMap = FactsNow
    /\ funcTypeIdxsMap = {<<x[2], x[1]>> : x \in typeIdxFuncsMap}

\* What the stores bring to layer t: functions put there, at any index or
\* while t is of any index, and layers from which values are copied there.
PutAt(t)  == {x[2] : x \in {y \in typeIdxFuncsMap :
                /\ y[1][1] = t[1]
                /\ y[1][2] = t[2] \/ AnyIndex \in {y[1][2], t[2]}}}
Copied(t) == {p[2] : p \in {q \in typeIdxPropMap : q[1] \in {t, <<t[1], AnyIndex>>}}}

\* The layers that functions at layer t may come from, t among them.
DependsOn(t) ==
  LET all == {t} \cup {p[2] : p \in typeIdxPropMap}
  IN  {u \in all : \A S \in SUBSET all :
                     t \in S /\ (\A s \in S : Copied(s) \subseteq S) => u \in S}

\* The functions confined at t: put there, or at a layer t depends on.
ConfinedAt(t) == UNION {PutAt(u) : u \in DependsOn(t)}

\* CacheExact: what a run caches for a layer (MLTA.cc:1191) is what is
\* confined there now; a layer of any index, or one that depends on such,
\* may be cached with functions that the locals FS1 and FS2 held before.
CacheExact ==
  \A t \in DOMAIN MatchedFuncsMap :
    /\ ConfinedAt(t) \subseteq MatchedFuncsMap[t]
    /\ (\A u \in DependsOn(t) : u[2] # AnyIndex) => MatchedFuncsMap[t] = ConfinedAt(t)

\* The next layer of each value.
Step == [v \in Value |-> NextLayer[v, {}]]
Ends == {Step[v].next : v \in Value} \ {NoValue}

\* The values of X that a walk from v comes to that ends at those in cut.
From(v, X, cut) ==
  {w \in X : \A S \in SUBSET X :
     v \in S /\ (\A x \in S : x \in cut \/ Step[x].next \in S \cup {NoValue}) => w \in S}

Below == [v \in Value |-> From(v, {v} \cup Ends, {})]

\* A walk ends at a layer of a capped type, unless an escaped one is first.
Cut(types, caps, escapes) ==
  \E i \in DOMAIN types : types[i][1] \in caps /\ \A j \in 1 .. i : types[j] \notin escapes

WalkedIn(v, X, caps, escapes) == From(v, X, {w \in X : Cut(Step[w].types, caps, escapes)})
Walked(v, caps, escapes)      == WalkedIn(v, Below[v], caps, escapes)

\* The layers as far as the first of a capped type.
Uncapped(types, caps) ==
  {types[i] : i \in {k \in DOMAIN types : \A j \in 1 .. k - 1 : types[j][1] \notin caps}}

\* The layers that a walk from v meets.
Met(v, caps, escapes) == UNION {Uncapped(Step[w].types, caps) : w \in Walked(v, caps, escapes)}

LookedUp(c) ==
  IF CallHash[c] \in typeCapSet THEN {}
  ELSE Met(CalledOperand[c], typeCapSet, {t \in Layer : Escaped(t)})

\* TargetsKept: a function of the call's signature that is confined at every
\* layer behind the called pointer, as far as the first of a capped type, is
\* found, whatever was looked up and cached before (MLTA.cc:1114-1206).
TargetsKept ==
  \A c \in done :
    LET layers == LookedUp(c)
    IN  \A f \in Bucket(CallHash[c]) : (\A t \in layers : f \in ConfinedAt(t)) => f \in callees[c]

\* Two pointers lead along the same fields from values of the same kind.
SamePath[p \in Value, q \in Value, depth \in Nat] ==
  \/ p = q
  \/ /\ [IR[p] EXCEPT !.ops = <<>>, !.stored = FALSE] = [IR[q] EXCEPT !.ops = <<>>, !.stored = FALSE]
     /\ Len(IR[p].ops) = Len(IR[q].ops)
     /\ depth > 0 => \A i \in 1 .. Len(IR[p].ops) : SamePath[IR[p].ops[i], IR[q].ops[i], depth - 1]
     /\ p \notin Func

\* A walk that ends at an argument of a function, which may point into what
\* another comes from: the layers of the one are the first of the other.
EndsWithin(inner, outer) ==
  /\ inner.next # NoValue
  /\ IR[inner.next].kind = "arg" /\ IR[inner.next].ptr
  /\ inner.types # <<>> /\ Len(inner.types) <= Len(outer.types)
  /\ inner.types = SubSeq(outer.types, 1, Len(inner.types))

ThroughArgument(p, q) == EndsWithin(LayersFrom[p, {}], LayersFrom[q, {}])

\* The pointers that may be p.
Aliases == [p \in Value |-> {q \in Value : \/ SamePath[p, q, Cardinality(Value)]
                                           \/ ThroughArgument(p, q)}]

\* The values that a field behind pointer p or an alias is loaded to.
LoadedFrom == [p \in Value |-> {v \in Value : /\ IR[v].kind = "load"
                                             /\ Step[v].types # <<>>
                                             /\ IR[v].ops[1] \in Aliases[p]}]

\* The stores that copy a value from there.
CopiesOf(stores, p) == {s \in stores : s[2] \in LoadedFrom[p]}

\* The stores that bring on what store s puts behind its pointer, s among them.
PassedOn(stores, s) ==
  {x \in stores : \A S \in SUBSET stores :
     s \in S /\ (\A y \in S : CopiesOf(stores, y[1]) \subseteq S) => x \in S}

\* The functions that the stores of the program bring behind a pointer: put
\* there, or loaded from a field behind another one and put there.
Behind ==
  LET stores == UNION {loaded[m].stores : m \in Module}
  IN  UNION {UNION {Aliases[x[1]] \X {s[2]} : x \in PassedOn(stores, s)}
             : s \in {t \in stores : t[2] \in Func}}

\* SoundCalls: a call through what it loads from a pointer finds the
\* functions that the program stores there, directly or by copies through
\* other fields or through pointers that functions are passed, unless a layer
\* behind the pointer escapes.
SoundCalls ==
  \A c \in {d \in done : IR[CalledOperand[d]].kind = "load"} :
    (\A v \in Below[CalledOperand[c]] : \A t \in ElementsOf(Step[v].types) : ~Escaped(t)) =>
      \A x \in Behind : x[1] = IR[CalledOperand[c]].ops[1] /\ x[2] \in Bucket(CallHash[c])
                       => x[2] \in callees[c]

\* The type that a store behind p caps.
LastOf(c) == IF c.complete \/ c.types = <<>> THEN {} ELSE {c.types[Len(c.types)][1]}
CapAt(p)  == LastOf(BaseTypeChain(p))

\* The walks over the IR agree: from what is loaded behind a pointer a
\* look-up meets the layers that a store behind an alias records, and no
\* other before the type that this store caps.
WalksAgree ==
  \A p, v \in Value :
    IR[v].kind = "load" /\ IR[v].ops[1] \in Aliases[p] =>
      Met(v, CapAt(p), {}) \subseteq ElementsOf(BaseTypeChain(p).types)

\* WalkEnds: the look-up of a call ends, also behind a pointer that a loop
\* leads back to (MLTA.cc:1138).
WalkEnds == walk.call # NoCall ~> walk.call = NoCall
=============================================================================
