----------------------------- MODULE MLTAProofs -----------------------------
(***************************************************************************)
(* Proofs about MLTA, for any modules, any IR and any number of updates:   *)
(* what a run caches is what is confined, no look-up loses a function that *)
(* is confined at every layer that it meets, the facts about stores are    *)
(* those of the loaded modules, and a call finds what the stores bring     *)
(* behind its pointer.  Of the walks over the IR they use LayersAssumption,*)
(* of the initializers that they are trees, and for what the stores bring  *)
(* that the walks of the scan and of the look-up agree.                    *)
(***************************************************************************)
EXTENDS MLTA, TLAPS

-----------------------------------------------------------------------------
(* The inductive invariant. *)

ScanType == [mod : Module \cup {NoModule}, lu : Seq(Const), seen : SUBSET Const,
             user : Const \cup {NoConst}, oi : Nat,
             containers : SUBSET (Const \X Const \X Int)]

WalkType == [call : Call \cup {NoCall}, fs : SUBSET Func, fs1 : SUBSET Func,
             fs2 : SUBSET Func, cv : Value \cup {NoValue}, next : Value \cup {NoValue},
             types : Seq(Layer), no : 0 .. MaxTypeLayer, prev : Type \cup {NoType}]

DepType  == [of : Layer \cup {<<>>}, lt : SUBSET Layer, visited : SUBSET Layer,
             props : SUBSET Layer]

TypeInv == TypeOK /\ scan \in ScanType /\ walk \in WalkType /\ dep \in DepType

\* A run scans, then looks up, and leaves nothing begun.
PhaseInv ==
  /\ scan.user # NoConst => scan.mod # NoModule /\ scan.oi > 0
  /\ scan.mod # NoModule => phase = "scan"
  /\ phase = "scan" => done = {} /\ DOMAIN MatchedFuncsMap = {}
  /\ walk.call # NoCall => phase = "calls"
  /\ walk.call = NoCall => walk.types = <<>>
  /\ walk.types = <<>> => dep = NoDep

\* The worklist of getDependentTypes: it reaches nothing that the layer does
\* not depend on, and forgets nothing that is copied to what it has visited.
DepInv ==
  dep # NoDep =>
    LET reached == dep.visited \cup dep.lt
    IN  /\ dep.of = Head(walk.types)
        /\ dep.of \in reached
        /\ \A u \in dep.visited : Copied(u) \subseteq dep.props \cap reached
        /\ reached \subseteq {dep.of} \cup dep.props
        /\ reached \cup dep.props \subseteq DependsOn(dep.of)
        /\ TargetsAt(dep.of) \subseteq walk.fs1
        /\ dep.of[2] # AnyIndex => walk.fs1 = TargetsAt(dep.of)

\* What a call of c must find.
Confined(c) == {f \in Bucket(CallHash[c]) : \A t \in LookedUp(c) : f \in ConfinedAt(t)}

\* The values that the look-up of c comes to.
ComesTo(c) == Walked(CalledOperand[c], typeCapSet, {t \in Layer : Escaped(t)})

\* The walk w has k layers of value v behind it, none of them of a capped
\* type, and goes on with the others.
Among(w, v, k) ==
  /\ Len(Step[v].types) = k + Len(w.types)
  /\ \A i \in 1 .. Len(w.types) : w.types[i] = Step[v].types[k + i]
  /\ \A j \in 1 .. k : Step[v].types[j][1] \notin typeCapSet
  /\ w.next = Step[v].next
  /\ w.cv \in {v, w.next}

\* At the head of the outer loop the walk is over or at a value that it may
\* come to, in the inner one among the layers of such a value.
Placed(w) ==
  /\ CallHash[w.call] \in typeCapSet => w.types = <<>> /\ w.prev \in typeCapSet
  /\ w.types = <<>> => \/ w.no >= MaxTypeLayer
                       \/ w.prev \in typeCapSet
                       \/ w.cv \in ComesTo(w.call) \cup {NoValue}
  /\ w.types # <<>> => \E v \in ComesTo(w.call) : \E k \in Nat : Among(w, v, k)

\* The look-up has kept what is confined.
WalkInv ==
  walk.call # NoCall => Placed(walk) /\ Confined(walk.call) \subseteq walk.fs

LookUpInv == DepInv /\ CacheExact /\ WalkInv /\ TargetsKept

IInv == TypeInv /\ PhaseInv /\ LookUpInv

-----------------------------------------------------------------------------
(* What a scan makes of a store is well-typed. *)

LEMMA ElementsOfSeq ==
  ASSUME NEW X, NEW s \in Seq(X)
  PROVE  /\ ElementsOf(s) \subseteq X
         /\ s # <<>> => Head(s) \in ElementsOf(s) /\ Tail(s) \in Seq(X)
                        /\ ElementsOf(Tail(s)) \subseteq ElementsOf(s)
BY DEF ElementsOf

LEMMA Layers ==
  ASSUME NEW v \in Value
  PROVE  /\ NextLayer[v, {}].types \in Seq(Layer)
         /\ NextLayer[v, {}].next \in Value \cup {NoValue}
         /\ BaseTypeChain(v).types \in Seq(Layer)
         /\ BaseTypeOf[v, {}] \in Type \cup {NoType}
BY LayersAssumption DEF Layer

LEMMA Nodes ==
  ASSUME NEW v \in Value
  PROVE  /\ IR[v].fptr \in Type \cup {NoType}
         /\ v \in Func => IR[v].fptr \in Type
BY ValuesAssumption, ModulesAssumption DEF Node

LEMMA SourcesType ==
  ASSUME NEW v \in Value
  PROVE  Sources(v) \subseteq Layer
<1>1. ElementsOf(NextLayer[v, {}].types) \subseteq Layer
  BY Layers, ElementsOfSeq
<1>2. \A y \in Type : {<<y, AnyIndex>>} \subseteq Layer
  BY DEF Layer, TypeIdx
<1>3. BaseTypeOf[v, {}] # NoType => BaseTypeOf[v, {}] \in Type
  BY Layers
<1>4. IR[v].fptr # NoType => IR[v].fptr \in Type
  BY Nodes
<1>5. CASE NextLayer[v, {}].types # <<>>
  BY <1>1, <1>5 DEF Sources, SourcesOf
<1>6. CASE NextLayer[v, {}].types = <<>>
  BY <1>2, <1>3, <1>4, <1>6 DEF Sources, SourcesOf
<1> QED
  BY <1>5, <1>6

LEMMA StoreTypes ==
  ASSUME NEW s \in Value \X Value
  PROVE  /\ ConfinedBy(s) \subseteq Layer \X Func
         /\ PropagatedBy(s) \subseteq Layer \X Layer
         /\ EscapedBy(s) \subseteq Layer
         /\ CappedBy(s) \subseteq Type
<1> DEFINE c == BaseTypeChain(s[1])
<1>0. s[1] \in Value /\ s[2] \in Value
  OBVIOUS
<1>1. c.types \in Seq(Layer)
  BY <1>0, Layers
<1>2. ElementsOf(c.types) \subseteq Layer
  BY <1>1, ElementsOfSeq
<1>3. ConfinedBy(s) \subseteq Layer \X Func
  BY <1>2 DEF ConfinedBy, IsConfined
<1>4. PropagatedBy(s) \subseteq Layer \X Layer
  BY <1>0, <1>2, SourcesType DEF PropagatedBy
<1>5. EscapedBy(s) \subseteq Layer
  BY <1>2 DEF EscapedBy
<1>6. c.types # <<>> => c.types[Len(c.types)][1] \in Type
  <2>1. c.types # <<>> => c.types[Len(c.types)] \in Layer
    BY <1>1
  <2> QED
    BY <2>1 DEF Layer, TypeIdx
<1>7. IsConfined(s) => IR[s[2]].fptr \in Type
  BY <1>0, Nodes DEF IsConfined
<1>8. CappedBy(s) \subseteq Type
  BY <1>6, <1>7 DEF CappedBy, Capped
<1> QED
  BY <1>3, <1>4, <1>5, <1>8

-----------------------------------------------------------------------------
(* What a layer depends on, and what lies below a call. *)

LEMMA PropsCopied ==
  ASSUME TypeOK, NEW t \in Layer
  PROVE  PropsOf(t) = Copied(t) /\ PropsOf(t) \subseteq Layer
BY DEF PropsOf, Copied, TypeOK, Layer, TypeIdx

LEMMA TargetsPut ==
  ASSUME TypeOK, NEW t \in Layer
  PROVE  TargetsAt(t) = PutAt(t)
BY DEF TargetsAt, PutAt, TypeOK, Layer, TypeIdx

LEMMA DependsOnSelf ==
  ASSUME NEW t
  PROVE  t \in DependsOn(t)
BY DEF DependsOn

LEMMA DependsOnCopied ==
  ASSUME NEW t, NEW u \in DependsOn(t), NEW w \in Copied(u)
  PROVE  w \in DependsOn(t)
<1> DEFINE all == {t} \cup {p[2] : p \in typeIdxPropMap}
<1>1. w \in all
  BY DEF Copied
<1>2. ASSUME NEW S \in SUBSET all, t \in S, \A s \in S : Copied(s) \subseteq S
      PROVE  w \in S
  <2>1. u \in S
    BY <1>2 DEF DependsOn
  <2> QED
    BY <2>1, <1>2
<1> QED
  BY <1>1, <1>2 DEF DependsOn

\* A set that t is in and that copies do not leave has all t depends on.
LEMMA DependsOnLeast ==
  ASSUME NEW t, NEW V, t \in V, \A s \in V : Copied(s) \subseteq V
  PROVE  DependsOn(t) \subseteq V
<1> DEFINE all == {t} \cup {p[2] : p \in typeIdxPropMap}
           S   == V \cap all
<1>1. S \in SUBSET all /\ t \in S
  OBVIOUS
<1>2. \A s \in S : Copied(s) \subseteq S
  BY DEF Copied
<1>3. DependsOn(t) \subseteq S
  BY <1>1, <1>2 DEF DependsOn
<1> QED
  BY <1>3

LEMMA BelowStart ==
  ASSUME NEW v \in Value
  PROVE  v \in Below[v] /\ Below[v] \subseteq Value
<1>1. Ends \subseteq Value
  BY Layers DEF Ends, Step
<1> QED
  BY <1>1 DEF Below, From

LEMMA BelowNext ==
  ASSUME NEW v \in Value, NEW w \in Below[v]
  PROVE  Step[w].next \in Below[v] \cup {NoValue}
<1> DEFINE all == {v} \cup Ends
           x   == Step[w].next
<1> SUFFICES ASSUME x # NoValue PROVE x \in Below[v]
  OBVIOUS
<1>1. x \in all
  BY BelowStart DEF Ends
<1>2. ASSUME NEW S \in SUBSET all, v \in S, \A y \in S : Step[y].next \in S \cup {NoValue}
      PROVE  x \in S
  <2>1. w \in S
    BY <1>2 DEF Below, From
  <2> QED
    BY <2>1, <1>2
<1> QED
  BY <1>1, <1>2 DEF Below, From

LEMMA WalkedStart ==
  ASSUME NEW v \in Value, NEW caps, NEW escapes
  PROVE  v \in Walked(v, caps, escapes) /\ Walked(v, caps, escapes) \subseteq Value
BY BelowStart DEF Walked, WalkedIn, From

LEMMA WalkedNext ==
  ASSUME NEW v \in Value, NEW caps, NEW escapes, NEW w \in Walked(v, caps, escapes),
         ~Cut(Step[w].types, caps, escapes)
  PROVE  Step[w].next \in Walked(v, caps, escapes) \cup {NoValue}
<1> DEFINE x == Step[w].next
           Closed(S) == \A y \in S : Cut(Step[y].types, caps, escapes) \/ Step[y].next \in S \cup {NoValue}
<1> SUFFICES ASSUME x # NoValue PROVE x \in Walked(v, caps, escapes)
  OBVIOUS
<1>1. w \in Below[v] /\ x \in Below[v]
  BY BelowNext DEF Walked, WalkedIn, From
<1>2. ASSUME NEW S \in SUBSET Below[v], v \in S, Closed(S)
      PROVE  x \in S
  <2>1. w \in S
    BY <1>2 DEF Walked, WalkedIn, From
  <2> QED
    BY <2>1, <1>2
<1> QED
  BY <1>1, <1>2 DEF Walked, WalkedIn, From

\* A walk that more types cap, and that meets no escaped layer, meets less.
LEMMA MetLess ==
  ASSUME NEW v \in Value, NEW caps, NEW less \in SUBSET caps, NEW escapes,
         \A w \in Below[v] : \A t \in ElementsOf(Step[w].types) : t \notin escapes
  PROVE  Met(v, caps, escapes) \subseteq Met(v, less, {})
<1> DEFINE S == Walked(v, less, {})
<1>1. S \in SUBSET Below[v] /\ v \in S
  BY WalkedStart DEF Walked, WalkedIn, From
<1>2. ASSUME NEW w \in S
      PROVE  Cut(Step[w].types, caps, escapes) \/ Step[w].next \in S \cup {NoValue}
  <2>1. CASE ~Cut(Step[w].types, less, {})
    BY <2>1, WalkedNext
  <2>2. CASE Cut(Step[w].types, less, {})
    <3>1. w \in Value /\ w \in Below[v]
      BY <1>1, BelowStart
    <3>2. Step[w].types \in Seq(Layer)
      BY <3>1, Layers DEF Step
    <3>3. PICK i \in DOMAIN Step[w].types : Step[w].types[i][1] \in less
      BY <2>2 DEF Cut
    <3>4. i \in 1 .. Len(Step[w].types)
      BY <3>2
    <3>5. \A j \in 1 .. i : Step[w].types[j] \in ElementsOf(Step[w].types)
      BY <3>2, <3>4 DEF ElementsOf
    <3> QED
      BY <3>1, <3>3, <3>5 DEF Cut
  <2> QED
    BY <2>1, <2>2
<1>3. Walked(v, caps, escapes) \subseteq S
  <2> HIDE DEF S
  <2> QED
    BY <1>1, <1>2 DEF Walked, WalkedIn, From
<1>4. \A w \in S : Uncapped(Step[w].types, caps) \subseteq Uncapped(Step[w].types, less)
  BY DEF Uncapped
<1> QED
  BY <1>3, <1>4 DEF Met

\* All of this depends on the facts only.
LEMMA SameFacts ==
  ASSUME UNCHANGED factVars
  PROVE  /\ \A t : Copied(t)' = Copied(t) /\ PutAt(t)' = PutAt(t)
         /\ \A t : TargetsAt(t)' = TargetsAt(t) /\ PropsOf(t)' = PropsOf(t)
         /\ \A t : DependsOn(t)' = DependsOn(t) /\ ConfinedAt(t)' = ConfinedAt(t)
         /\ \A c : Confined(c)' = Confined(c) /\ Bucket(c)' = Bucket(c)
         /\ \A c : LookedUp(c)' = LookedUp(c) /\ ComesTo(c)' = ComesTo(c)
<1>1. \A t : Copied(t)' = Copied(t) /\ PutAt(t)' = PutAt(t)
  BY DEF factVars, Copied, PutAt
<1>2. \A t : TargetsAt(t)' = TargetsAt(t) /\ PropsOf(t)' = PropsOf(t)
  BY DEF factVars, TargetsAt, PropsOf
<1>3. \A t : DependsOn(t)' = DependsOn(t)
  BY <1>1 DEF factVars, DependsOn
<1>4. \A t : ConfinedAt(t)' = ConfinedAt(t)
  BY <1>1, <1>3 DEF ConfinedAt
<1>5. \A c : Bucket(c)' = Bucket(c)
  BY DEF factVars, Bucket
<1>6. {t \in Layer : Escaped(t)}' = {t \in Layer : Escaped(t)} /\ typeCapSet' = typeCapSet
  BY DEF factVars, Escaped
<1>7. \A c : LookedUp(c)' = LookedUp(c) /\ ComesTo(c)' = ComesTo(c)
  BY <1>6 DEF LookedUp, ComesTo
<1>8. \A c : Confined(c)' = Confined(c)
  BY <1>4, <1>5, <1>7 DEF Confined
<1> QED
  BY <1>1, <1>2, <1>3, <1>4, <1>5, <1>7, <1>8

-----------------------------------------------------------------------------
(* Initial states and types. *)

LEMMA InitInv == Init => IInv
<1> SUFFICES ASSUME Init PROVE IInv
  OBVIOUS
<1>1. TypeInv
  <2>1. scan \in ScanType
    BY DEF Init, ScanType, NoScan
  <2>2. walk \in WalkType
    BY ModulesAssumption DEF Init, WalkType, NoWalk
  <2>3. dep \in DepType
    BY DEF Init, DepType, NoDep
  <2>4. MatchedFuncsMap \in [DOMAIN MatchedFuncsMap -> SUBSET Func] /\ DOMAIN MatchedFuncsMap = {}
    BY DEF Init
  <2>5. TypeOK
    BY <2>4, ModulesAssumption DEF Init, TypeOK, NoWalk, NoDep
  <2> QED
    BY <2>1, <2>2, <2>3, <2>5 DEF TypeInv
<1>2. PhaseInv
  BY DEF Init, PhaseInv, NoScan, NoWalk
<1>3. LookUpInv
  BY DEF Init, LookUpInv, DepInv, CacheExact, WalkInv, TargetsKept, NoWalk
<1> QED
  BY <1>1, <1>2, <1>3 DEF IInv

\* What the scan of a module adds is well-typed.
LEMMA BodyTypes ==
  ASSUME TypeOK, NEW m \in Module
  PROVE  /\ loaded[m].stores \subseteq Value \X Value
         /\ loaded[m].taken \subseteq Func /\ loaded[m].passed \subseteq Func
         /\ loaded[m].init \in Const \cup {NoConst}
         /\ loaded[m].calls \subseteq Call
<1>1. loaded[m] \in Body
  BY ModulesAssumption DEF TypeOK
<1> QED
  BY <1>1 DEF Body

LEMMA ScanFunctionsTypes ==
  ASSUME TypeInv, PhaseInv, ScanFunctions
  PROVE  TypeInv'
<1> DEFINE b == loaded[scan.mod]
<1>1. scan.mod \in Module
  BY DEF ScanFunctions, TypeInv, ScanType
<1>2. /\ b.stores \subseteq Value \X Value /\ b.taken \subseteq Func /\ b.passed \subseteq Func
  BY <1>1, BodyTypes DEF TypeInv
<1>3. UNION {ConfinedBy(s) : s \in b.stores} \subseteq Layer \X Func
  BY <1>2, StoreTypes
<1>4. Flows(b) \subseteq Layer \X Layer
  BY <1>2, StoreTypes DEF Flows
<1>5. UNION {EscapedBy(s) : s \in b.stores} \subseteq Layer
  BY <1>2, StoreTypes
<1>6. UNION {CappedBy(s) : s \in b.stores} \subseteq Type
  BY <1>2, StoreTypes
<1>7. \A f \in Func : IR[f].fptr \in Type
  BY ModulesAssumption
<1>8. sigFuncsMap' \subseteq Type \X Func
  BY <1>2, <1>7 DEF ScanFunctions, TypeInv, TypeOK
<1>9. typeIdxFuncsMap' \subseteq Layer \X Func
  BY <1>3 DEF ScanFunctions, TypeInv, TypeOK
<1>10. funcTypeIdxsMap' \subseteq Func \X Layer
  BY <1>3 DEF ScanFunctions, TypeInv, TypeOK
<1>11. typeIdxPropMap' \subseteq Layer \X Layer
  BY <1>4 DEF ScanFunctions, TypeInv, TypeOK
<1>12. typeEscapeSet' \subseteq Layer
  BY <1>5 DEF ScanFunctions, TypeInv, TypeOK
<1>13. typeCapSet' \subseteq Type
  <2>1. ASSUME NEW y \in typeCapSet'
        PROVE  \/ y \in typeCapSet
               \/ \E s \in b.stores : y \in CappedBy(s)
               \/ \E f \in b.passed : y = IR[f].fptr
    BY DEF ScanFunctions
  <2>2. typeCapSet \subseteq Type
    BY DEF TypeInv, TypeOK
  <2> HIDE DEF b
  <2> QED
    BY <1>2, <1>6, <1>7, <2>1, <2>2
<1>14. asked' \subseteq Call /\ asked' \cap done' = {}
  <2>1. \A m \in list : loaded[m].calls \subseteq Call
    BY BodyTypes DEF TypeInv, TypeOK
  <2>2. done' = {}
    BY DEF ScanFunctions, PhaseInv
  <2> QED
    BY <2>1, <2>2 DEF ScanFunctions
<1>15. scan' \in ScanType
  BY DEF ScanFunctions, ScanType, NoScan
<1>16. phase' \in {"scan", "calls", "ready"} /\ todo' \subseteq list
  BY DEF ScanFunctions, TypeInv, TypeOK
<1>17. UNCHANGED <<loaded, list, updates, callees, done, MatchedFuncsMap, walk, dep>>
  BY DEF ScanFunctions
<1> QED
  BY <1>8, <1>9, <1>10, <1>11, <1>12, <1>13, <1>14, <1>15, <1>16, <1>17 DEF TypeInv, TypeOK

LEMMA UpdateTypes ==
  ASSUME TypeInv, NEW U \in SUBSET Module,
         NEW new \in [U -> UNION {Versions[m] : m \in U}],
         \A m \in U : new[m] \in Versions[m], Update(U, new)
  PROVE  TypeInv'
<1>1. sigFuncsMap' \subseteq sigFuncsMap /\ typeIdxFuncsMap' \subseteq typeIdxFuncsMap
  BY DEF Update, SigsKept, Invalidate
<1>2. funcTypeIdxsMap' \subseteq funcTypeIdxsMap
  BY DEF Update, Invalidate
<1>3. DOMAIN MatchedFuncsMap' = {} /\ MatchedFuncsMap' \in [{} -> SUBSET Func]
  BY DEF Update, InitTempStates
<1>4. \A m \in Module : loaded'[m] \in Versions[m]
  BY DEF Update, TypeInv, TypeOK
<1>5. /\ list' = U /\ todo' = U /\ done' = {} /\ phase' = "scan"
      /\ updates' \in 0 .. MaxUpdates
  BY ModulesAssumption DEF Update, TypeInv, TypeOK
<1>6. UNCHANGED <<typeIdxPropMap, typeEscapeSet, typeCapSet, callees, asked, scan, walk, dep>>
  BY DEF Update
<1> QED
  BY <1>1, <1>2, <1>3, <1>4, <1>5, <1>6 DEF TypeInv, TypeOK

\* The worklist over an initializer.
LEMMA ScanTypes ==
  ASSUME TypeInv, PhaseInv, Scan, ~ScanFunctions
  PROVE  TypeInv'
<1>1. ASSUME NEW m \in Module, ScanGlobal(m)
      PROVE  TypeInv'
  <2>1. loaded[m].init \in Const \cup {NoConst}
    BY BodyTypes DEF TypeInv
  <2> DEFINE lu == IF loaded[m].init = NoConst THEN <<>> ELSE <<loaded[m].init>>
  <2>2. lu \in Seq(Const)
    BY <2>1
  <2>3. scan' = [NoScan EXCEPT !.mod = m, !.lu = lu]
    BY <1>1 DEF ScanGlobal
  <2> HIDE DEF lu
  <2>4. scan' \in ScanType
    BY <2>2, <2>3 DEF ScanType, NoScan
  <2> QED
    BY <1>1, <2>4 DEF ScanGlobal, factVars, runVars, callVars, TypeInv, TypeOK
<1>2. CASE PopUser
  <2>1. scan.lu \in Seq(Const) /\ scan.lu # <<>>
    BY <1>2 DEF PopUser, TypeInv, ScanType
  <2>2. Head(scan.lu) \in Const /\ Tail(scan.lu) \in Seq(Const)
    BY <2>1
  <2>3. scan' \in ScanType
    BY <1>2, <2>2 DEF PopUser, TypeInv, ScanType
  <2> QED
    BY <1>2, <2>3 DEF PopUser, factVars, runVars, callVars, TypeInv, TypeOK
<1>3. CASE ScanOperand
  <2> DEFINE o      == Operands[scan.user][scan.oi]
             layers == {l \in TypeIdx : \E h \in Holders(scan.user, scan.oi - 1) :
                                      l[1] \in TypesOf[h[1]] /\ l[2] = h[2]}
  <2>1. scan.user \in Const /\ scan.oi \in Nat \ {0}
    BY <1>3 DEF ScanOperand, TypeInv, ScanType, PhaseInv
  <2>2. scan.oi \in DOMAIN Operands[scan.user] /\ o \in Operand
    BY <1>3, <2>1, ModulesAssumption DEF ScanOperand
  <2>3. o.kind = "func" <=> o.to \in Func
    BY <2>1, <2>2, ModulesAssumption
  <2>4. layers \subseteq Layer
    BY DEF Layer
  <2>5. UNCHANGED <<sigFuncsMap, typeIdxPropMap, typeEscapeSet, runVars, callVars,
                    MatchedFuncsMap, todo, walk, dep>>
    BY <1>3 DEF ScanOperand
  <2>6. \/ /\ o.kind = "func"
           /\ typeIdxFuncsMap' = typeIdxFuncsMap \cup (layers \X {o.to})
           /\ funcTypeIdxsMap' = funcTypeIdxsMap \cup ({o.to} \X layers)
           /\ scan' = [scan EXCEPT !.oi = @ + 1]
           /\ UNCHANGED typeCapSet
        \/ /\ o.kind # "func"
           /\ scan' = [scan EXCEPT !.oi = @ + 1, !.lu = Append(@, o.to),
                         !.containers = IF o.kind = "cast" THEN @ ELSE Contained(o)]
           /\ typeCapSet' = typeCapSet \cup ({o.cap} \ {NoType})
           /\ UNCHANGED <<typeIdxFuncsMap, funcTypeIdxsMap>>
    BY <1>3 DEF ScanOperand
  <2> HIDE DEF o, layers
  <2>7. CASE o.kind = "func"
    <3>1. o.to \in Func
      BY <2>3, <2>7
    <3>2. scan' \in ScanType
      BY <2>6, <2>7 DEF TypeInv, ScanType
    <3>3. typeIdxFuncsMap' \subseteq Layer \X Func /\ funcTypeIdxsMap' \subseteq Func \X Layer
      BY <2>4, <2>6, <2>7, <3>1 DEF TypeInv, TypeOK
    <3> QED
      BY <2>5, <2>6, <2>7, <3>2, <3>3 DEF runVars, callVars, TypeInv, TypeOK
  <2>8. CASE o.kind # "func"
    <3>1. o.to \in Const /\ o.cap \in Type \cup {NoType}
      BY <2>2, <2>3, <2>8 DEF Operand
    <3>2. Contained(o) \subseteq Const \X Const \X Int
      BY <2>1, <3>1 DEF Contained, TypeInv, ScanType
    <3>3. scan.lu \in Seq(Const) /\ Append(scan.lu, o.to) \in Seq(Const)
      BY <3>1 DEF TypeInv, ScanType
    <3> DEFINE cs == IF o.kind = "cast" THEN scan.containers ELSE Contained(o)
               lu == Append(scan.lu, o.to)
    <3>4. cs \subseteq Const \X Const \X Int
      BY <3>2 DEF TypeInv, ScanType
    <3>5. scan' = [scan EXCEPT !.oi = scan.oi + 1, !.lu = lu, !.containers = cs]
      BY <2>6, <2>8
    <3>6. lu \in Seq(Const) /\ scan.oi + 1 \in Nat
      BY <2>1, <3>3
    <3> HIDE DEF cs, lu
    <3>7. scan' \in ScanType
      BY <3>4, <3>5, <3>6 DEF TypeInv, ScanType
    <3>8. typeCapSet' \subseteq Type /\ UNCHANGED <<typeIdxFuncsMap, funcTypeIdxsMap>>
      BY <2>6, <2>8, <3>1 DEF TypeInv, TypeOK
    <3> QED
      BY <2>5, <3>7, <3>8 DEF runVars, callVars, TypeInv, TypeOK
  <2> QED
    BY <2>7, <2>8
<1>4. CASE NextUser
  <2>1. scan' \in ScanType
    BY <1>4 DEF NextUser, TypeInv, ScanType
  <2> QED
    BY <1>4, <2>1 DEF NextUser, factVars, runVars, callVars, TypeInv, TypeOK
<1> QED
  BY <1>1, <1>2, <1>3, <1>4 DEF Scan

\* The look-up of a call at layer t, which fs1 are the targets of.
LEMMA IntersectedTypes ==
  ASSUME TypeInv, NEW t \in Layer, NEW fs1 \in SUBSET Func, walk.call \in Call,
         walk.types # <<>>, dep = NoDep => UnderLimit, Intersected(t, fs1)
  PROVE  /\ walk' \in WalkType
         /\ callees' \in [Call -> SUBSET Func]
         /\ asked' \subseteq Call /\ done' \subseteq Call /\ asked' \cap done' = {}
<1>1. walk.types \in Seq(Layer) /\ Tail(walk.types) \in Seq(Layer) /\ t[1] \in Type
  BY DEF TypeInv, WalkType, Layer, TypeIdx
<1>2. walk.fs \cap fs1 \in SUBSET Func /\ walk.next \in Value \cup {NoValue}
  BY DEF TypeInv, WalkType
<1>3. (IF dep = NoDep THEN Counted(t) ELSE walk.no) \in 0 .. MaxTypeLayer
  BY ModulesAssumption DEF TypeInv, WalkType, UnderLimit, Counted
<1>4. CASE /\ t[1] \in typeCapSet
           /\ Answer(walk.call, walk.fs \cap fs1)
           /\ walk' = NoWalk
  <2>1. walk' \in WalkType
    BY <1>4, ModulesAssumption DEF WalkType, NoWalk
  <2> QED
    BY <1>2, <1>4, <2>1 DEF Answer, TypeInv, TypeOK
<1>5. CASE /\ walk' = [walk EXCEPT !.fs = walk.fs \cap fs1, !.fs1 = fs1,
                         !.fs2 = walk.fs \cap fs1, !.cv = walk.next, !.prev = t[1],
                         !.types = Tail(@), !.no = IF dep = NoDep THEN Counted(t) ELSE @]
           /\ UNCHANGED callVars
  <2>1. walk' \in WalkType
    BY <1>1, <1>2, <1>3, <1>5 DEF TypeInv, WalkType
  <2> QED
    BY <1>5, <2>1 DEF callVars, TypeInv, TypeOK
<1> QED
  BY <1>4, <1>5 DEF Intersected

\* What a look-up leaves as it is keeps its type.
LEMMA WalkStepTypes ==
  ASSUME TypeInv, UNCHANGED <<factVars, runVars, todo, scan>>,
         walk' \in WalkType, dep' \in DepType,
         callees' \in [Call -> SUBSET Func],
         asked' \subseteq Call, done' \subseteq Call, asked' \cap done' = {},
         DOMAIN MatchedFuncsMap' \subseteq Layer,
         MatchedFuncsMap' \in [DOMAIN MatchedFuncsMap' -> SUBSET Func]
  PROVE  TypeInv'
BY DEF factVars, runVars, TypeInv, TypeOK, WalkType, DepType

LEMMA Targets ==
  ASSUME NEW t
  PROVE  TargetsAt(t) \subseteq Func
BY DEF TargetsAt

\* The layer that a look-up is at.
LEMMA AtLayerTypes ==
  ASSUME TypeInv, PhaseInv, walk.types # <<>>
  PROVE  Head(walk.types) \in Layer /\ walk.call \in Call
<1>1. walk.types \in Seq(Layer)
  BY DEF TypeInv, WalkType
<1> QED
  BY <1>1 DEF PhaseInv, TypeInv, WalkType

LEMMA WalkTypes ==
  ASSUME TypeInv, PhaseInv, DepInv,
         Walk \/ \E c \in Call : FindCallees(c)
  PROVE  TypeInv'
<1> USE DEF Layer
<1>a. UNCHANGED callVars => /\ callees' \in [Call -> SUBSET Func] /\ asked' \subseteq Call
                            /\ done' \subseteq Call /\ asked' \cap done' = {}
  BY DEF callVars, TypeInv, TypeOK
<1>b. UNCHANGED MatchedFuncsMap =>
        /\ DOMAIN MatchedFuncsMap' \subseteq Layer
        /\ MatchedFuncsMap' \in [DOMAIN MatchedFuncsMap' -> SUBSET Func]
  BY DEF TypeInv, TypeOK
<1>c. /\ UNCHANGED dep => dep' \in DepType
      /\ UNCHANGED walk => walk' \in WalkType
  BY DEF TypeInv
<1>d. NoWalk \in WalkType /\ NoDep \in DepType
  BY ModulesAssumption DEF WalkType, NoWalk, DepType, NoDep
<1>e. UnderLimit => \A t : Counted(t) \in 0 .. MaxTypeLayer
  BY ModulesAssumption DEF TypeInv, WalkType, UnderLimit, Counted
<1>f. <<>> \in Seq(Layer)
  OBVIOUS
<1>1. ASSUME NEW c \in Call, FindCallees(c)
      PROVE  TypeInv'
  <2> DEFINE fs == Bucket(CallHash[c])
  <2>1. UNCHANGED <<factVars, runVars, MatchedFuncsMap, todo, scan, dep>>
    BY <1>1 DEF FindCallees
  <2>2. CASE Answer(c, {}) /\ UNCHANGED walk
    BY <1>b, <1>c, <2>1, <2>2, WalkStepTypes DEF Answer, TypeInv, TypeOK
  <2>3. CASE /\ walk' = [NoWalk EXCEPT !.call = c, !.fs = fs, !.cv = CalledOperand[c],
                           !.no = 1, !.prev = CallHash[c]]
             /\ UNCHANGED callVars
    <3>1. fs \in SUBSET Func
      BY DEF Bucket
    <3>2. /\ CalledOperand[c] \in Value /\ CallHash[c] \in Type
          /\ 1 \in 0 .. MaxTypeLayer
      BY ModulesAssumption
    <3> HIDE DEF fs
    <3>3. walk' \in WalkType
      BY <1>d, <2>3, <3>1, <3>2 DEF WalkType
    <3> QED
      BY <1>a, <1>b, <1>c, <2>1, <2>3, <3>3, WalkStepTypes
  <2> QED
    BY <1>1, <2>2, <2>3 DEF FindCallees
<1>2. CASE EnterLayers
  <2>1. walk.cv \in Value
    BY <1>2 DEF EnterLayers, MoreLayers, TypeInv, WalkType
  <2>2. walk' \in WalkType
    BY <1>2, <2>1, Layers DEF EnterLayers, TypeInv, WalkType
  <2> QED
    BY <1>2, <1>a, <1>b, <1>c, <2>2, WalkStepTypes DEF EnterLayers
<1>3. CASE Return
  <2>1. walk.call \in Call /\ walk.fs \subseteq Func
    BY <1>3 DEF Return, AtHead, TypeInv, WalkType
  <2>2. /\ callees' \in [Call -> SUBSET Func]
        /\ asked' \subseteq Call /\ done' \subseteq Call /\ asked' \cap done' = {}
    BY <1>3, <2>1 DEF Return, Answer, TypeInv, TypeOK
  <2> QED
    BY <1>3, <1>b, <1>c, <1>d, <2>2, WalkStepTypes DEF Return
<1>4. CASE LimitReached
  <2>1. walk' \in WalkType
    BY <1>4, <1>f DEF LimitReached, TypeInv, WalkType
  <2> QED
    BY <1>4, <1>a, <1>b, <1>c, <2>1, WalkStepTypes DEF LimitReached
<1>5. CASE Matched
  <2>1. walk.types # <<>>
    BY <1>5 DEF Matched, PhaseInv
  <2>2. dep.of \in Layer /\ walk.call \in Call
    BY <1>5, <2>1, AtLayerTypes DEF Matched, DepInv
  <2>3. PICK left \in LeftOver :
          LET fs1 == walk.fs1 \cup left \cup UNION {TargetsAt(p) : p \in dep.props}
          IN  /\ MatchedFuncsMap' = [t \in DOMAIN MatchedFuncsMap \cup {dep.of} |->
                                      IF t = dep.of THEN fs1 ELSE MatchedFuncsMap[t]]
              /\ Intersected(dep.of, fs1)
    BY <1>5 DEF Matched
  <2> DEFINE fs1 == walk.fs1 \cup left \cup UNION {TargetsAt(p) : p \in dep.props}
  <2>4. left \subseteq Func
    BY DEF LeftOver, TypeInv, WalkType
  <2>5. fs1 \in SUBSET Func
    BY <2>4, Targets DEF TypeInv, WalkType
  <2>6. /\ DOMAIN MatchedFuncsMap' \subseteq Layer
        /\ MatchedFuncsMap' \in [DOMAIN MatchedFuncsMap' -> SUBSET Func]
    BY <2>2, <2>3, <2>5 DEF TypeInv, TypeOK
  <2>7. Intersected(dep.of, fs1)
    BY <2>3
  <2>8. dep # NoDep /\ UNCHANGED <<factVars, runVars, todo, scan>> /\ dep' = NoDep
    BY <1>5 DEF Matched
  <2> HIDE DEF fs1
  <2>9. /\ walk' \in WalkType
        /\ callees' \in [Call -> SUBSET Func]
        /\ asked' \subseteq Call /\ done' \subseteq Call /\ asked' \cap done' = {}
    BY <2>1, <2>2, <2>5, <2>7, <2>8, IntersectedTypes
  <2> QED
    BY <1>d, <2>6, <2>8, <2>9, WalkStepTypes
<1>6. ASSUME NEW t \in TypeIdx, LookUpCached(t)
      PROVE  TypeInv'
  <2>1. /\ walk.types # <<>> /\ UnderLimit /\ t \in DOMAIN MatchedFuncsMap
        /\ Intersected(t, MatchedFuncsMap[t])
        /\ UNCHANGED <<factVars, runVars, MatchedFuncsMap, todo, scan, dep>>
    BY <1>6 DEF LookUpCached, AtLayer, Cached
  <2>2. walk.call \in Call
    BY <2>1, AtLayerTypes
  <2>3. MatchedFuncsMap[t] \in SUBSET Func
    BY <2>1 DEF TypeInv, TypeOK
  <2>4. /\ walk' \in WalkType
        /\ callees' \in [Call -> SUBSET Func]
        /\ asked' \subseteq Call /\ done' \subseteq Call /\ asked' \cap done' = {}
    BY <2>1, <2>2, <2>3, IntersectedTypes
  <2> QED
    BY <1>b, <1>c, <2>1, <2>4, WalkStepTypes
<1>7. ASSUME NEW t \in TypeIdx, MeetEscaped(t)
      PROVE  TypeInv'
  <2>0. Counted(t) \in 0 .. MaxTypeLayer
    BY <1>7, <1>e DEF MeetEscaped
  <2>1. walk' = [walk EXCEPT !.types = <<>>, !.no = Counted(t)]
    BY <1>7 DEF MeetEscaped
  <2>2. walk' \in WalkType
    BY <1>f, <2>0, <2>1 DEF TypeInv, WalkType
  <2> QED
    BY <1>7, <1>a, <1>b, <1>c, <2>2, WalkStepTypes DEF MeetEscaped
<1>8. ASSUME NEW t \in TypeIdx, LookUp(t)
      PROVE  TypeInv'
  <2> DEFINE fs1 == TargetsAt(t) \cup (IF t[2] = AnyIndex THEN walk.fs1 ELSE {})
  <2>1. fs1 \in SUBSET Func
    BY Targets DEF TypeInv, WalkType
  <2>2. walk' = [walk EXCEPT !.no = Counted(t), !.fs1 = fs1]
    BY <1>8 DEF LookUp
  <2>3. Counted(t) \in 0 .. MaxTypeLayer
    BY <1>8, <1>e DEF LookUp
  <2> HIDE DEF fs1
  <2>4. walk' \in WalkType
    BY <2>1, <2>2, <2>3 DEF TypeInv, WalkType
  <2>5. dep' \in DepType
    BY <1>8 DEF LookUp, DepType
  <2> QED
    BY <1>8, <1>a, <1>b, <2>4, <2>5, WalkStepTypes DEF LookUp
<1>9. ASSUME NEW t \in TypeIdx, FollowProps(t)
      PROVE  TypeInv'
  <2>1. PropsOf(t) \subseteq Layer
    BY PropsCopied DEF TypeInv
  <2>2. dep' \in DepType
    BY <1>9, <2>1 DEF FollowProps, TypeInv, DepType
  <2> QED
    BY <1>9, <1>a, <1>b, <1>c, <2>2, WalkStepTypes DEF FollowProps
<1> QED
  BY <1>1, <1>2, <1>3, <1>4, <1>5, <1>6, <1>7, <1>8, <1>9 DEF Walk

-----------------------------------------------------------------------------
(* The phases of a run. *)

\* A turn at a layer leaves the call, or answers it.
LEMMA IntersectedPhase ==
  ASSUME TypeInv, PhaseInv, NEW t, NEW fs1, walk.types # <<>>, Intersected(t, fs1)
  PROVE  \/ walk' = NoWalk
         \/ walk'.call = walk.call /\ walk.call # NoCall
BY DEF Intersected, TypeInv, WalkType, PhaseInv

LEMMA PhaseStep ==
  ASSUME TypeInv, PhaseInv, Next
  PROVE  PhaseInv'
<1>1. ASSUME NEW U \in (SUBSET Module) \ {{}},
             NEW new \in [U -> UNION {Versions[m] : m \in U}], Update(U, new)
      PROVE  PhaseInv'
  BY <1>1 DEF Update, InitTempStates, PhaseInv
<1>2. ASSUME NEW m \in Module, ScanGlobal(m)
      PROVE  PhaseInv'
  BY <1>2 DEF ScanGlobal, NoScan, factVars, runVars, callVars, PhaseInv
<1>3. CASE PopUser
  <2>1. /\ scan'.mod = scan.mod
        /\ scan'.user # NoConst => scan'.oi = 1
    BY <1>3 DEF PopUser, TypeInv, ScanType
  <2> QED
    BY <1>3, <2>1 DEF PopUser, factVars, runVars, callVars, PhaseInv
<1>4. CASE ScanOperand
  <2>1. /\ scan'.mod = scan.mod /\ scan'.user = scan.user /\ scan'.oi = scan.oi + 1
        /\ scan.oi \in Nat
    BY <1>4 DEF ScanOperand, TypeInv, ScanType
  <2> QED
    BY <1>4, <2>1 DEF ScanOperand, runVars, callVars, PhaseInv
<1>5. CASE NextUser
  <2>1. scan'.mod = scan.mod /\ scan'.user = NoConst
    BY <1>5 DEF NextUser, TypeInv, ScanType
  <2> QED
    BY <1>5, <2>1 DEF NextUser, factVars, runVars, callVars, PhaseInv
<1>6. CASE ScanFunctions
  BY <1>6 DEF ScanFunctions, NoScan, PhaseInv
<1>7. ASSUME NEW c \in Call, FindCallees(c)
      PROVE  PhaseInv'
  <2>1. walk'.types = <<>>
    BY <1>7 DEF FindCallees, NoWalk, PhaseInv
  <2>2. dep' = NoDep
    BY <1>7 DEF FindCallees, PhaseInv
  <2> QED
    BY <1>7, <2>1, <2>2 DEF FindCallees, factVars, runVars, PhaseInv
<1>8. CASE EnterLayers
  <2>1. walk'.call = walk.call /\ walk.call # NoCall /\ dep' = NoDep
    BY <1>8 DEF EnterLayers, AtHead, PhaseInv, TypeInv, WalkType
  <2> QED
    BY <1>8, <2>1 DEF EnterLayers, factVars, runVars, callVars, PhaseInv
<1>9. CASE Return
  <2>1. walk' = NoWalk /\ dep' = NoDep /\ phase = "calls"
    BY <1>9 DEF Return, AtHead, PhaseInv
  <2> QED
    BY <1>9, <2>1 DEF Return, NoWalk, factVars, runVars, PhaseInv
<1>10. CASE LimitReached
  <2>1. walk'.call = walk.call /\ walk'.types = <<>> /\ dep' = NoDep
    BY <1>10 DEF LimitReached, TypeInv, WalkType
  <2> QED
    BY <1>10, <2>1 DEF LimitReached, factVars, runVars, callVars, PhaseInv
<1>11. CASE Matched
  <2>1. walk.types # <<>> /\ dep' = NoDep /\ UNCHANGED <<factVars, runVars, todo, scan>>
    BY <1>11 DEF Matched, PhaseInv
  <2>2. PICK fs1 : Intersected(dep.of, fs1)
    BY <1>11 DEF Matched
  <2>3. phase = "calls"
    BY <2>1 DEF PhaseInv
  <2> QED
    BY <2>1, <2>2, <2>3, IntersectedPhase DEF NoWalk, runVars, PhaseInv
<1>12. ASSUME NEW t \in TypeIdx, LookUpCached(t)
       PROVE  PhaseInv'
  <2>1. /\ walk.types # <<>> /\ dep' = NoDep
        /\ UNCHANGED <<factVars, runVars, todo, scan>>
    BY <1>12 DEF LookUpCached, AtLayer
  <2>2. Intersected(t, MatchedFuncsMap[t])
    BY <1>12 DEF LookUpCached
  <2>3. phase = "calls"
    BY <2>1 DEF PhaseInv
  <2> QED
    BY <2>1, <2>2, <2>3, IntersectedPhase DEF NoWalk, runVars, PhaseInv
<1>13. ASSUME NEW t \in TypeIdx, MeetEscaped(t)
       PROVE  PhaseInv'
  <2>1. walk'.call = walk.call /\ walk'.types = <<>> /\ dep' = NoDep
    BY <1>13 DEF MeetEscaped, AtLayer, TypeInv, WalkType
  <2> QED
    BY <1>13, <2>1 DEF MeetEscaped, factVars, runVars, callVars, PhaseInv
<1>14. ASSUME NEW t \in TypeIdx, LookUp(t)
       PROVE  PhaseInv'
  <2>1. walk'.call = walk.call /\ walk'.types = walk.types /\ walk.types # <<>>
    BY <1>14 DEF LookUp, AtLayer, TypeInv, WalkType
  <2> QED
    BY <1>14, <2>1 DEF LookUp, factVars, runVars, callVars, PhaseInv
<1>15. ASSUME NEW t \in TypeIdx, FollowProps(t)
       PROVE  PhaseInv'
  BY <1>15 DEF FollowProps, factVars, runVars, callVars, PhaseInv
<1>16. CASE EndRun
  BY <1>16 DEF EndRun, factVars, callVars, PhaseInv
<1> QED
  BY <1>1, <1>2, <1>3, <1>4, <1>5, <1>6, <1>7, <1>8, <1>9, <1>10, <1>11, <1>12, <1>13,
     <1>14, <1>15, <1>16 DEF Next, Scan, Walk

-----------------------------------------------------------------------------
(* Look-ups. *)

\* Nothing is asked or cached while a run scans.
LEMMA ScanLookUp ==
  ASSUME PhaseInv, PhaseInv', phase' = "scan" \/ phase = "scan",
         UNCHANGED <<walk, dep>>, done' = {}, DOMAIN MatchedFuncsMap' = {},
         phase # "calls"
  PROVE  LookUpInv'
<1>1. walk.call = NoCall /\ dep = NoDep
  BY DEF PhaseInv
<1> QED
  BY <1>1 DEF LookUpInv, DepInv, CacheExact, WalkInv, TargetsKept

LEMMA TargetsKeptConfined ==
  TargetsKept <=> \A c \in done : Confined(c) \subseteq callees[c]
BY DEF TargetsKept, Confined

\* What is confined behind a call is among the functions of its signature.
LEMMA AnswerKeeps ==
  ASSUME TypeInv, TargetsKept, UNCHANGED factVars, NEW c \in Call, NEW fs,
         Confined(c) \subseteq fs, Answer(c, fs)
  PROVE  TargetsKept'
<1>1. ASSUME NEW d \in done'
      PROVE  Confined(d) \subseteq callees'[d]
  <2>1. CASE d = c
    BY <2>1 DEF Answer, TypeInv, TypeOK
  <2>2. CASE d # c
    BY <2>2, TargetsKeptConfined DEF Answer, TypeInv, TypeOK
  <2> QED
    BY <2>1, <2>2
<1>2. \A d : Confined(d)' = Confined(d)
  BY SameFacts
<1>3. \A d \in done' : Confined(d)' \subseteq callees'[d]
  BY <1>1, <1>2
<1> QED
  BY <1>3 DEF TargetsKept, Confined

\* Facts and answers as they were, the rest follows.
LEMMA KeptAnswers ==
  ASSUME TargetsKept, UNCHANGED <<factVars, callees, done>>
  PROVE  TargetsKept'
<1>1. \A d : Confined(d)' = Confined(d)
  BY SameFacts
<1>2. \A d \in done' : Confined(d)' \subseteq callees'[d]
  BY <1>1, TargetsKeptConfined
<1> QED
  BY <1>2 DEF TargetsKept, Confined

LEMMA KeptCache ==
  ASSUME CacheExact, UNCHANGED <<factVars, MatchedFuncsMap>>
  PROVE  CacheExact'
<1>1. \A t : ConfinedAt(t)' = ConfinedAt(t) /\ DependsOn(t)' = DependsOn(t)
  BY SameFacts
<1> QED
  BY <1>1 DEF CacheExact

\* WalkInv speaks of the walk and of the facts.
LEMMA WalkInvNext ==
  ASSUME UNCHANGED factVars,
         walk'.call # NoCall => Placed(walk') /\ Confined(walk'.call) \subseteq walk'.fs
  PROVE  WalkInv'
<1>1. \A c : Confined(c)' = Confined(c) /\ ComesTo(c)' = ComesTo(c)
  BY SameFacts
<1>2. Confined(walk.call)' = Confined(walk'.call) /\ ComesTo(walk.call)' = ComesTo(walk'.call)
  BY <1>1 DEF Confined, ComesTo
<1>3. typeCapSet' = typeCapSet
  BY DEF factVars
<1>4. Placed(walk)' <=> Placed(walk')
  BY <1>2, <1>3 DEF Placed, Among
<1> QED
  BY <1>2, <1>4 DEF WalkInv

LEMMA SumMoved ==
  ASSUME NEW k \in Nat, NEW n \in Nat
  PROVE  k + (n + 1) = (k + 1) + n
OBVIOUS

LEMMA FirstOfSeq ==
  ASSUME NEW X, NEW s \in Seq(X), s # <<>>
  PROVE  1 \in DOMAIN s /\ 1 \in 1 .. Len(s)
OBVIOUS

LEMMA EmptySeq ==
  ASSUME NEW X, NEW s \in Seq(X)
  PROVE  s = <<>> <=> Len(s) = 0
OBVIOUS

\* The layer that the inner loop is at.
LEMMA AmongHead ==
  ASSUME TypeInv, walk.call \in Call, walk.types # <<>>,
         NEW v \in ComesTo(walk.call), NEW k \in Nat, Among(walk, v, k)
  PROVE  /\ Step[v].types \in Seq(Layer) /\ Step[v].next \in Value \cup {NoValue}
         /\ walk.types \in Seq(Layer)
         /\ k + 1 \in DOMAIN Step[v].types
         /\ Head(walk.types) = Step[v].types[k + 1]
         /\ Head(walk.types) \in Uncapped(Step[v].types, typeCapSet)
<1>1. CalledOperand[walk.call] \in Value
  BY ModulesAssumption
<1>2. v \in Value
  BY <1>1, WalkedStart DEF ComesTo
<1>3. Step[v].types \in Seq(Layer) /\ Step[v].next \in Value \cup {NoValue}
  BY <1>2, Layers DEF Step
<1>4. walk.types \in Seq(Layer)
  BY DEF TypeInv, WalkType
<1>5. Len(walk.types) \in Nat \ {0} /\ Head(walk.types) = walk.types[1]
  BY <1>4
<1>6. k + 1 \in DOMAIN Step[v].types
  BY <1>3, <1>5 DEF Among
<1>7. Head(walk.types) = Step[v].types[k + 1]
  BY <1>5 DEF Among
<1>8. \A j \in 1 .. (k + 1) - 1 : Step[v].types[j][1] \notin typeCapSet
  BY DEF Among
<1>9. Head(walk.types) \in Uncapped(Step[v].types, typeCapSet)
  BY <1>6, <1>7, <1>8 DEF Uncapped
<1> QED
  BY <1>3, <1>4, <1>6, <1>7, <1>9

\* A function that is confined behind the call is at each layer it meets.
LEMMA ConfinedHere ==
  ASSUME TypeInv, WalkInv, walk.call \in Call, walk.types # <<>>
  PROVE  /\ Confined(walk.call) \subseteq walk.fs \cap ConfinedAt(Head(walk.types))
         /\ \E v \in ComesTo(walk.call) : \E k \in Nat : Among(walk, v, k)
         /\ CallHash[walk.call] \notin typeCapSet
<1>1. walk.call # NoCall
  BY ModulesAssumption
<1>2. Placed(walk) /\ Confined(walk.call) \subseteq walk.fs
  BY <1>1 DEF WalkInv
<1>3. PICK v \in ComesTo(walk.call) : \E k \in Nat : Among(walk, v, k)
  BY <1>2 DEF Placed
<1>4. PICK k \in Nat : Among(walk, v, k)
  BY <1>3
<1>5. Head(walk.types) \in Uncapped(Step[v].types, typeCapSet)
  BY <1>4, AmongHead
<1>6. CallHash[walk.call] \notin typeCapSet
  BY <1>2 DEF Placed
<1>7. Head(walk.types) \in LookedUp(walk.call)
  BY <1>5, <1>6 DEF LookedUp, Met, ComesTo
<1>8. Confined(walk.call) \subseteq ConfinedAt(Head(walk.types))
  BY <1>7 DEF Confined
<1> QED
  BY <1>2, <1>3, <1>6, <1>8

\* Past a layer of a type that is not capped the walk is among the others,
\* or at the next value.
LEMMA PastLayer ==
  ASSUME TypeInv, WalkInv, walk.call \in Call, walk.types # <<>>,
         Head(walk.types)[1] \notin typeCapSet,
         NEW w, w.call = walk.call, w.cv = walk.next, w.next = walk.next,
         w.types = Tail(walk.types)
  PROVE  Placed(w)
<1>1. PICK v \in ComesTo(walk.call) : \E k \in Nat : Among(walk, v, k)
  BY ConfinedHere
<1>2. PICK k \in Nat : Among(walk, v, k)
  BY <1>1
<1> DEFINE ts == Step[v].types
<1>3. /\ ts \in Seq(Layer) /\ walk.types \in Seq(Layer)
      /\ Step[v].next \in Value \cup {NoValue}
      /\ k + 1 \in DOMAIN ts /\ Head(walk.types) = ts[k + 1]
  BY <1>2, AmongHead
<1>4. /\ w.types \in Seq(Layer) /\ Len(walk.types) = Len(w.types) + 1
      /\ \A i \in 1 .. Len(w.types) : w.types[i] = walk.types[i + 1]
  BY <1>3
<1>5. /\ Len(ts) = k + Len(walk.types)
      /\ \A i \in 1 .. Len(walk.types) : walk.types[i] = ts[k + i]
      /\ \A j \in 1 .. k : ts[j][1] \notin typeCapSet
      /\ walk.next = Step[v].next
  BY <1>2 DEF Among
<1> HIDE DEF ts
<1>6. \A j \in 1 .. k + 1 : ts[j][1] \notin typeCapSet
  BY <1>3, <1>5
<1>7. Len(w.types) \in Nat /\ Len(ts) = (k + 1) + Len(w.types)
  <2>1. Len(w.types) \in Nat
    BY <1>4
  <2>2. Len(ts) = k + (Len(w.types) + 1)
    BY <1>4, <1>5
  <2> QED
    BY <2>1, <2>2, SumMoved
<1>8. \A i \in 1 .. Len(w.types) : w.types[i] = ts[(k + 1) + i]
  <2> TAKE i \in 1 .. Len(w.types)
  <2>1. i + 1 \in 1 .. Len(walk.types)
    BY <1>4, <1>7
  <2>2. w.types[i] = ts[k + (i + 1)]
    BY <1>4, <1>5, <2>1
  <2>3. k + (i + 1) = (k + 1) + i
    OBVIOUS
  <2> QED
    BY <2>2, <2>3
<1>9. Among(w, v, k + 1)
  BY <1>5, <1>6, <1>7, <1>8 DEF Among, ts
<1>10. CallHash[w.call] \notin typeCapSet
  BY ConfinedHere
<1>11. w.types = <<>> => w.cv \in ComesTo(w.call) \cup {NoValue}
  <2> SUFFICES ASSUME w.types = <<>> PROVE Step[v].next \in ComesTo(walk.call) \cup {NoValue}
    BY <1>5
  <2>a. Len(w.types) = 0
    BY <1>4, EmptySeq
  <2>b. Len(ts) = k + 1 /\ DOMAIN ts = 1 .. Len(ts)
    <3>1. Len(ts) = (k + 1) + 0
      BY <1>7, <2>a
    <3> QED
      BY <1>3, <3>1
  <2>1. \A i \in DOMAIN ts : ts[i][1] \notin typeCapSet
    BY <1>6, <2>b
  <2>2. ~Cut(Step[v].types, typeCapSet, {t \in Layer : Escaped(t)})
    BY <2>1 DEF Cut, ts
  <2>3. CalledOperand[walk.call] \in Value
    BY ModulesAssumption
  <2> QED
    BY <2>2, <2>3, WalkedNext DEF ComesTo
<1> QED
  BY <1>1, <1>9, <1>10, <1>11 DEF Placed

\* At an escaped layer the walk leaves the others for the value before it or
\* the next one.
LEMMA PastEscaped ==
  ASSUME TypeInv, WalkInv, walk.call \in Call, walk.types # <<>>,
         Escaped(Head(walk.types))
  PROVE  walk.cv \in ComesTo(walk.call) \cup {NoValue}
<1>1. PICK v \in ComesTo(walk.call) : \E k \in Nat : Among(walk, v, k)
  BY ConfinedHere
<1>2. PICK k \in Nat : Among(walk, v, k)
  BY <1>1
<1> DEFINE ts      == Step[v].types
           escapes == {t \in Layer : Escaped(t)}
<1>3. /\ ts \in Seq(Layer) /\ walk.types \in Seq(Layer)
      /\ k + 1 \in DOMAIN ts /\ Head(walk.types) = ts[k + 1]
  BY <1>2, AmongHead
<1>4. ts[k + 1] \in escapes
  BY <1>3
<1>5. ~Cut(Step[v].types, typeCapSet, escapes)
  <2> SUFFICES ASSUME NEW i \in DOMAIN ts, ts[i][1] \in typeCapSet,
                      \A j \in 1 .. i : ts[j] \notin escapes
               PROVE  FALSE
    BY DEF Cut
  <2>1. i \in 1 .. Len(ts)
    BY <1>3
  <2>2. i > k
    BY <1>2, <2>1 DEF Among
  <2>3. k + 1 \in 1 .. i
    BY <2>1, <2>2
  <2> QED
    BY <1>4, <2>3
<1>6. CalledOperand[walk.call] \in Value
  BY ModulesAssumption
<1>7. Step[v].next \in ComesTo(walk.call) \cup {NoValue}
  BY <1>5, <1>6, WalkedNext DEF ComesTo
<1> QED
  BY <1>2, <1>7 DEF Among

LEMMA IntersectedKeeps ==
  ASSUME TypeInv, PhaseInv, WalkInv, TargetsKept, UNCHANGED factVars,
         walk.types # <<>>, NEW fs1,
         ConfinedAt(Head(walk.types)) \subseteq fs1, Intersected(Head(walk.types), fs1)
  PROVE  WalkInv' /\ TargetsKept'
<1> DEFINE t  == Head(walk.types)
           fs == walk.fs \cap fs1
<1>1. walk.call \in Call /\ walk.call # NoCall
  BY AtLayerTypes DEF PhaseInv
<1>2. Confined(walk.call) \subseteq fs
  BY <1>1, ConfinedHere
<1>3. CASE Answer(walk.call, fs) /\ walk' = NoWalk
  <2>1. TargetsKept'
    BY <1>1, <1>2, <1>3, AnswerKeeps
  <2>2. WalkInv'
    BY <1>3 DEF WalkInv, NoWalk
  <2> QED
    BY <2>1, <2>2
<1>4. CASE /\ t[1] \notin typeCapSet
           /\ walk' = [walk EXCEPT !.fs = fs, !.fs1 = fs1, !.fs2 = fs, !.cv = walk.next,
                         !.prev = t[1], !.types = Tail(@),
                         !.no = IF dep = NoDep THEN Counted(t) ELSE @]
           /\ UNCHANGED callVars
  <2>1. /\ walk'.call = walk.call /\ walk'.cv = walk.next /\ walk'.next = walk.next
        /\ walk'.types = Tail(walk.types) /\ walk'.fs = fs
    BY <1>4 DEF TypeInv, WalkType
  <2>2. Placed(walk')
    BY <1>1, <1>4, <2>1, PastLayer
  <2> HIDE DEF fs
  <2>3. WalkInv'
    BY <1>2, <2>1, <2>2, WalkInvNext
  <2>4. TargetsKept'
    BY <1>4, KeptAnswers DEF callVars
  <2> QED
    BY <2>3, <2>4
<1> QED
  BY <1>3, <1>4 DEF Intersected

(* getDependentTypes ends with what the layer depends on, so that the      *)
(* functions there are those confined at the layer.                        *)
LEMMA MatchedExact ==
  ASSUME TypeInv, DepInv, dep # NoDep, dep.lt = {}, dep.of \in Layer,
         NEW left \in LeftOver,
         NEW fs1, fs1 = walk.fs1 \cup left \cup UNION {TargetsAt(p) : p \in dep.props}
  PROVE  /\ ConfinedAt(dep.of) \subseteq fs1
         /\ (\A u \in DependsOn(dep.of) : u[2] # AnyIndex) => fs1 = ConfinedAt(dep.of)
<1> DEFINE of == dep.of
<1>1. /\ of \in dep.visited
      /\ \A u \in dep.visited : Copied(u) \subseteq dep.visited
      /\ dep.visited \subseteq {of} \cup dep.props
      /\ {of} \cup dep.props \subseteq DependsOn(of)
      /\ TargetsAt(of) \subseteq walk.fs1
      /\ of[2] # AnyIndex => walk.fs1 = TargetsAt(of)
  BY DEF DepInv
<1>2. DependsOn(of) \subseteq dep.visited
  BY <1>1, DependsOnLeast
<1>3. DependsOn(of) = {of} \cup dep.props
  BY <1>1, <1>2
<1>4. dep.props \subseteq Layer
  BY DEF TypeInv, TypeOK
<1>5. \A u \in {of} \cup dep.props : TargetsAt(u) = PutAt(u)
  BY <1>4, TargetsPut DEF TypeInv
<1>6. ConfinedAt(of) = TargetsAt(of) \cup UNION {TargetsAt(p) : p \in dep.props}
  BY <1>3, <1>5 DEF ConfinedAt
<1>7. ConfinedAt(of) \subseteq fs1
  BY <1>1, <1>6
<1>8. ASSUME \A u \in DependsOn(of) : u[2] # AnyIndex
      PROVE  fs1 = ConfinedAt(of)
  <2>1. left = {}
    BY <1>3, <1>8 DEF LeftOver
  <2>2. walk.fs1 = TargetsAt(of)
    BY <1>1, <1>3, <1>8
  <2> QED
    BY <1>6, <2>1, <2>2
<1> QED
  BY <1>7, <1>8

LEMMA FollowPropsInv ==
  ASSUME TypeInv, DepInv, NEW t \in Layer, FollowProps(t)
  PROVE  DepInv'
<1> DEFINE of == dep.of
<1>1. /\ dep # NoDep /\ t \in dep.lt
      /\ UNCHANGED factVars /\ UNCHANGED walk
  BY DEF FollowProps
<1>2. /\ of = Head(walk.types) /\ of \in dep.visited \cup dep.lt
      /\ \A u \in dep.visited : Copied(u) \subseteq dep.props \cap (dep.visited \cup dep.lt)
      /\ dep.visited \cup dep.lt \subseteq {of} \cup dep.props
      /\ dep.visited \cup dep.lt \cup dep.props \subseteq DependsOn(of)
      /\ TargetsAt(of) \subseteq walk.fs1
      /\ of[2] # AnyIndex => walk.fs1 = TargetsAt(of)
  BY <1>1 DEF DepInv
<1>3. PropsOf(t) = Copied(t) /\ Copied(t) \subseteq DependsOn(of)
  BY <1>1, <1>2, PropsCopied, DependsOnCopied DEF TypeInv
<1>4. /\ \A u : Copied(u)' = Copied(u) /\ DependsOn(u)' = DependsOn(u)
      /\ \A u : TargetsAt(u)' = TargetsAt(u)
  BY <1>1, SameFacts
<1>5. CASE t \in dep.visited
  <2>1. /\ dep'.of = of /\ dep'.lt = dep.lt \ {t}
        /\ dep'.visited = dep.visited /\ dep'.props = dep.props
    BY <1>5 DEF FollowProps, TypeInv, DepType
  <2>2. dep'.visited \cup dep'.lt = dep.visited \cup dep.lt
    BY <1>1, <1>5, <2>1
  <2> QED
    BY <1>1, <1>2, <1>4, <2>1, <2>2 DEF DepInv
<1>6. CASE t \notin dep.visited
  <2>1. /\ dep'.of = of
        /\ dep'.lt = (dep.lt \ {t}) \cup (Copied(t) \ (dep.visited \cup {t}))
        /\ dep'.visited = dep.visited \cup {t} /\ dep'.props = dep.props \cup Copied(t)
    BY <1>3, <1>6 DEF FollowProps, TypeInv, DepType
  <2>2. dep'.visited \cup dep'.lt = dep.visited \cup dep.lt \cup Copied(t)
    BY <1>1, <2>1
  <2>3. /\ of \in dep'.visited \cup dep'.lt
        /\ dep'.visited \cup dep'.lt \subseteq {of} \cup dep'.props
        /\ dep'.visited \cup dep'.lt \cup dep'.props \subseteq DependsOn(of)
    BY <1>2, <1>3, <2>1, <2>2
  <2>4. \A u \in dep'.visited : Copied(u) \subseteq dep'.props \cap (dep'.visited \cup dep'.lt)
    BY <1>2, <2>1, <2>2
  <2> QED
    BY <1>1, <1>2, <1>4, <2>1, <2>3, <2>4 DEF DepInv
<1> QED
  BY <1>5, <1>6

LEMMA LookUpStep ==
  ASSUME IInv, Walk \/ \E c \in Call : FindCallees(c)
  PROVE  LookUpInv'
<1> USE DEF IInv, LookUpInv
<1>a. dep' = NoDep => DepInv'
  BY DEF DepInv
<1>1. ASSUME NEW c \in Call, FindCallees(c)
      PROVE  LookUpInv'
  <2> DEFINE fs == Bucket(CallHash[c])
  <2>1. /\ UNCHANGED factVars /\ UNCHANGED MatchedFuncsMap /\ dep' = NoDep
        /\ walk.call = NoCall
    BY <1>1 DEF FindCallees, PhaseInv
  <2>2. Confined(c) \subseteq fs
    BY DEF Confined
  <2>3. CASE fs = {} /\ Answer(c, {}) /\ UNCHANGED walk
    <3>1. TargetsKept'
      BY <2>1, <2>2, <2>3, AnswerKeeps
    <3>2. WalkInv'
      BY <2>1, <2>3 DEF WalkInv
    <3> QED
      BY <1>a, <2>1, <3>1, <3>2, KeptCache
  <2>4. CASE /\ walk' = [NoWalk EXCEPT !.call = c, !.fs = fs, !.cv = CalledOperand[c],
                           !.no = 1, !.prev = CallHash[c]]
             /\ UNCHANGED callVars
    <3>1. /\ walk'.call = c /\ walk'.cv = CalledOperand[c] /\ walk'.types = <<>>
          /\ walk'.fs = fs /\ walk'.prev = CallHash[c]
      BY <2>4 DEF NoWalk
    <3>2. CalledOperand[c] \in ComesTo(c)
      BY WalkedStart, ModulesAssumption DEF ComesTo
    <3> HIDE DEF fs
    <3>a. Placed(walk')
      BY <3>1, <3>2 DEF Placed
    <3>3. WalkInv'
      BY <2>1, <2>2, <3>1, <3>a, WalkInvNext
    <3>4. TargetsKept'
      BY <2>1, <2>4, KeptAnswers DEF callVars
    <3> QED
      BY <1>a, <2>1, <3>3, <3>4, KeptCache
  <2> QED
    BY <1>1, <2>3, <2>4 DEF FindCallees
<1>2. CASE EnterLayers
  <2>1. /\ UNCHANGED factVars /\ UNCHANGED MatchedFuncsMap /\ UNCHANGED callVars
        /\ walk.call # NoCall /\ walk.cv # NoValue /\ dep' = NoDep
        /\ walk.types = <<>> /\ walk.prev \notin typeCapSet /\ UnderLimit
        /\ NextLayer[walk.cv, {}].types # <<>>
    BY <1>2 DEF EnterLayers, AtHead, MoreLayers, PhaseInv
  <2>2. walk.call \in Call /\ walk.cv \in Value /\ ~(walk.no >= MaxTypeLayer)
    <3>a. walk.no < MaxTypeLayer
      BY <2>1 DEF UnderLimit
    <3>1. walk \in WalkType
      BY DEF TypeInv
    <3>2. walk.call \in Call /\ walk.cv \in Value
      BY <2>1, <3>1 DEF WalkType
    <3>3. walk.no \in 0 .. MaxTypeLayer /\ MaxTypeLayer \in Nat
      BY <3>1, ModulesAssumption DEF WalkType
    <3> QED
      BY <3>2, <3>3, <3>a
  <2>c. Placed(walk) /\ walk.types = <<>>
    BY <2>1 DEF WalkInv
  <2>3. walk.cv \in ComesTo(walk.call) /\ CallHash[walk.call] \notin typeCapSet
    BY <2>1, <2>2, <2>c DEF Placed
  <2>4. /\ walk'.call = walk.call /\ walk'.cv = walk.cv /\ walk'.fs = walk.fs
        /\ walk'.types = Step[walk.cv].types /\ walk'.next = Step[walk.cv].next
    BY <1>2, <2>2 DEF EnterLayers, TypeInv, WalkType, Step
  <2>5. Step[walk.cv].types \in Seq(Layer) /\ Step[walk.cv].types # <<>>
    BY <2>1, <2>2, Layers DEF Step
  <2>a. Among(walk', walk.cv, 0)
    BY <2>4, <2>5 DEF Among
  <2>b. Placed(walk')
    BY <2>3, <2>4, <2>5, <2>a DEF Placed
  <2>6. WalkInv'
    BY <2>1, <2>4, <2>b, WalkInvNext DEF WalkInv
  <2>7. TargetsKept'
    BY <2>1, KeptAnswers DEF callVars
  <2> QED
    BY <1>a, <2>1, <2>6, <2>7, KeptCache
<1>3. CASE Return
  <2>1. /\ UNCHANGED factVars /\ UNCHANGED MatchedFuncsMap /\ dep' = NoDep
        /\ walk.call \in Call /\ walk' = NoWalk /\ Answer(walk.call, walk.fs)
    BY <1>3 DEF Return, AtHead, PhaseInv, TypeInv, WalkType
  <2>2. Confined(walk.call) \subseteq walk.fs
    BY <1>3 DEF Return, AtHead, WalkInv
  <2>3. TargetsKept'
    BY <2>1, <2>2, AnswerKeeps
  <2>4. WalkInv'
    BY <2>1 DEF WalkInv, NoWalk
  <2> QED
    BY <1>a, <2>1, <2>3, <2>4, KeptCache
<1>4. ASSUME LimitReached \/ \E t \in TypeIdx : MeetEscaped(t)
      PROVE  LookUpInv'
  <2>1. /\ UNCHANGED factVars /\ UNCHANGED MatchedFuncsMap /\ UNCHANGED callVars
        /\ dep' = NoDep /\ walk.types # <<>>
        /\ ~UnderLimit \/ Escaped(Head(walk.types))
    BY <1>4 DEF LimitReached, MeetEscaped, AtLayer
  <2>2. /\ walk'.call = walk.call /\ walk'.cv = walk.cv /\ walk'.fs = walk.fs
        /\ walk'.types = <<>>
        /\ ~UnderLimit => walk'.no = walk.no
    BY <1>4 DEF LimitReached, MeetEscaped, TypeInv, WalkType
  <2>3. walk.call \in Call /\ walk.call # NoCall
    BY <2>1, AtLayerTypes DEF PhaseInv
  <2>4. CallHash[walk.call] \notin typeCapSet /\ Confined(walk.call) \subseteq walk.fs
    BY <2>1, <2>3, ConfinedHere
  <2>a. UnderLimit => walk.cv \in ComesTo(walk.call) \cup {NoValue}
    BY <2>1, <2>3, PastEscaped
  <2>b. ~UnderLimit => walk'.no >= MaxTypeLayer
    BY <2>2, ModulesAssumption DEF UnderLimit, TypeInv, WalkType
  <2>c. Placed(walk')
    BY <2>2, <2>4, <2>a, <2>b DEF Placed
  <2>5. WalkInv'
    BY <2>1, <2>2, <2>4, <2>c, WalkInvNext
  <2>6. TargetsKept'
    BY <2>1, KeptAnswers DEF callVars
  <2> QED
    BY <1>a, <2>1, <2>5, <2>6, KeptCache
<1>5. CASE Matched
  <2>1. /\ dep # NoDep /\ dep.lt = {} /\ dep' = NoDep /\ UNCHANGED factVars
        /\ walk.types # <<>>
    BY <1>5 DEF Matched, PhaseInv
  <2>2. PICK left \in LeftOver :
          LET fs1 == walk.fs1 \cup left \cup UNION {TargetsAt(p) : p \in dep.props}
          IN  /\ MatchedFuncsMap' = [t \in DOMAIN MatchedFuncsMap \cup {dep.of} |->
                                      IF t = dep.of THEN fs1 ELSE MatchedFuncsMap[t]]
              /\ Intersected(dep.of, fs1)
    BY <1>5 DEF Matched
  <2> DEFINE fs1 == walk.fs1 \cup left \cup UNION {TargetsAt(p) : p \in dep.props}
  <2>3. /\ MatchedFuncsMap' = [t \in DOMAIN MatchedFuncsMap \cup {dep.of} |->
                                IF t = dep.of THEN fs1 ELSE MatchedFuncsMap[t]]
        /\ Intersected(dep.of, fs1)
    BY <2>2
  <2>4. dep.of = Head(walk.types) /\ dep.of \in Layer
    BY <2>1, AtLayerTypes DEF DepInv
  <2>a. fs1 = walk.fs1 \cup left \cup UNION {TargetsAt(p) : p \in dep.props}
    OBVIOUS
  <2> HIDE DEF fs1
  <2>5. /\ ConfinedAt(dep.of) \subseteq fs1
        /\ (\A u \in DependsOn(dep.of) : u[2] # AnyIndex) => fs1 = ConfinedAt(dep.of)
    BY <2>1, <2>4, <2>a, MatchedExact
  <2>6. WalkInv' /\ TargetsKept'
    BY <2>1, <2>3, <2>4, <2>5, IntersectedKeeps
  <2>7. \A t : ConfinedAt(t)' = ConfinedAt(t) /\ DependsOn(t)' = DependsOn(t)
    BY <2>1, SameFacts
  <2>8. \A t \in DOMAIN MatchedFuncsMap' :
          /\ ConfinedAt(t) \subseteq MatchedFuncsMap'[t]
          /\ (\A u \in DependsOn(t) : u[2] # AnyIndex) => MatchedFuncsMap'[t] = ConfinedAt(t)
    BY <2>3, <2>5 DEF CacheExact
  <2>9. CacheExact'
    BY <2>7, <2>8 DEF CacheExact
  <2> QED
    BY <1>a, <2>1, <2>6, <2>9
<1>6. ASSUME NEW t \in TypeIdx, LookUpCached(t)
      PROVE  LookUpInv'
  <2>1. /\ UNCHANGED factVars /\ UNCHANGED MatchedFuncsMap /\ dep' = NoDep
        /\ walk.types # <<>> /\ t = Head(walk.types) /\ t \in DOMAIN MatchedFuncsMap
        /\ Intersected(t, MatchedFuncsMap[t])
    BY <1>6 DEF LookUpCached, AtLayer, Cached
  <2>2. ConfinedAt(t) \subseteq MatchedFuncsMap[t]
    BY <2>1 DEF CacheExact
  <2>3. WalkInv' /\ TargetsKept'
    BY <2>1, <2>2, IntersectedKeeps
  <2> QED
    BY <1>a, <2>1, <2>3, KeptCache
<1>7. ASSUME NEW t \in TypeIdx, LookUp(t)
      PROVE  LookUpInv'
  <2>1. /\ UNCHANGED factVars /\ UNCHANGED MatchedFuncsMap /\ UNCHANGED callVars
        /\ walk.types # <<>> /\ t = Head(walk.types) /\ walk.call # NoCall
    BY <1>7 DEF LookUp, AtLayer, PhaseInv
  <2>2. /\ walk'.call = walk.call /\ walk'.cv = walk.cv /\ walk'.fs = walk.fs
        /\ walk'.types = walk.types /\ walk'.next = walk.next
        /\ walk'.fs1 = TargetsAt(t) \cup (IF t[2] = AnyIndex THEN walk.fs1 ELSE {})
    BY <1>7 DEF LookUp, TypeInv, WalkType
  <2>3. dep' = [of |-> t, lt |-> {t}, visited |-> {}, props |-> {}]
    BY <1>7 DEF LookUp
  <2>a. Placed(walk) /\ Confined(walk.call) \subseteq walk.fs
    BY <2>1 DEF WalkInv
  <2>b. Placed(walk')
    BY <2>1, <2>2, <2>a DEF Placed, Among
  <2>4. WalkInv'
    BY <2>1, <2>2, <2>a, <2>b, WalkInvNext
  <2>5. TargetsKept'
    BY <2>1, KeptAnswers DEF callVars
  <2>6. /\ \A u : TargetsAt(u)' = TargetsAt(u)
        /\ \A u : DependsOn(u)' = DependsOn(u) /\ Copied(u)' = Copied(u)
    BY <2>1, SameFacts
  <2>7. DepInv'
    BY <2>1, <2>2, <2>3, <2>6, DependsOnSelf DEF DepInv
  <2> QED
    BY <2>1, <2>4, <2>5, <2>7, KeptCache
<1>8. ASSUME NEW t \in TypeIdx, FollowProps(t)
      PROVE  LookUpInv'
  <2>1. /\ UNCHANGED factVars /\ UNCHANGED MatchedFuncsMap /\ UNCHANGED callVars
        /\ UNCHANGED walk
    BY <1>8 DEF FollowProps
  <2>2. DepInv'
    BY <1>8, FollowPropsInv DEF Layer
  <2>3. WalkInv'
    BY <2>1, WalkInvNext DEF WalkInv, Placed, Among
  <2>4. TargetsKept'
    BY <2>1, KeptAnswers DEF callVars
  <2> QED
    BY <2>1, <2>2, <2>3, <2>4, KeptCache
<1> QED
  BY <1>1, <1>2, <1>3, <1>4, <1>5, <1>6, <1>7, <1>8 DEF Walk

LEMMA SameLookUp ==
  ASSUME LookUpInv, UNCHANGED <<factVars, MatchedFuncsMap, callees, done, walk, dep>>
  PROVE  LookUpInv'
<1>1. /\ \A u : TargetsAt(u)' = TargetsAt(u)
      /\ \A u : DependsOn(u)' = DependsOn(u) /\ Copied(u)' = Copied(u)
  BY SameFacts
<1>2. DepInv'
  BY <1>1 DEF LookUpInv, DepInv
<1>3. WalkInv'
  BY WalkInvNext DEF LookUpInv, WalkInv, Placed, Among
<1> QED
  BY <1>2, <1>3, KeptCache, KeptAnswers DEF LookUpInv

LEMMA Inductive ==
  IInv /\ [Next]_vars => IInv'
<1> SUFFICES ASSUME IInv, [Next]_vars PROVE IInv'
  OBVIOUS
<1> USE DEF IInv
<1>1. ASSUME NEW U \in (SUBSET Module) \ {{}},
             NEW new \in [U -> UNION {Versions[m] : m \in U}],
             \A m \in U : new[m] \in Versions[m], Update(U, new)
      PROVE  IInv'
  <2>1. PhaseInv'
    BY <1>1, PhaseStep DEF Next
  <2>2. TypeInv'
    BY <1>1, UpdateTypes
  <2>3. LookUpInv'
    BY <1>1, <2>1, ScanLookUp DEF Update, InitTempStates
  <2> QED
    BY <2>1, <2>2, <2>3
<1>2. CASE Scan
  <2>1. PhaseInv'
    BY <1>2, PhaseStep DEF Next
  <2>2. TypeInv'
    BY <1>2, ScanTypes, ScanFunctionsTypes
  <2>3. phase = "scan" /\ UNCHANGED <<walk, dep, done, MatchedFuncsMap>>
    BY <1>2 DEF Scan, ScanGlobal, PopUser, ScanOperand, NextUser, ScanFunctions,
                callVars, PhaseInv
  <2>4. LookUpInv'
    BY <2>1, <2>3, ScanLookUp DEF PhaseInv
  <2> QED
    BY <2>1, <2>2, <2>4
<1>3. CASE Walk \/ \E c \in Call : FindCallees(c)
  BY <1>3, PhaseStep, WalkTypes, LookUpStep DEF Next, LookUpInv
<1>4. CASE EndRun
  <2>1. PhaseInv'
    BY <1>4, PhaseStep DEF Next
  <2>2. UNCHANGED <<factVars, loaded, list, updates, callVars, MatchedFuncsMap, todo, scan,
                    walk, dep>> /\ phase' = "ready"
    BY <1>4 DEF EndRun
  <2>3. TypeInv'
    BY <2>2 DEF factVars, callVars, TypeInv, TypeOK, WalkType, ScanType, DepType
  <2>4. LookUpInv'
    BY <2>2, SameLookUp DEF callVars
  <2> QED
    BY <2>1, <2>3, <2>4
<1>5. CASE UNCHANGED vars
  <2>1. /\ UNCHANGED <<factVars, runVars, callVars, MatchedFuncsMap, todo, scan, walk, dep>>
    BY <1>5 DEF vars
  <2>2. TypeInv' /\ PhaseInv'
    BY <2>1 DEF factVars, runVars, callVars, TypeInv, TypeOK, WalkType, ScanType, DepType,
                PhaseInv
  <2>3. LookUpInv'
    BY <2>1, SameLookUp DEF callVars
  <2> QED
    BY <2>2, <2>3
<1> QED
  BY <1>1, <1>2, <1>3, <1>4, <1>5 DEF Next

LEMMA Invariant == Spec => []IInv
BY InitInv, Inductive, PTL DEF Spec

-----------------------------------------------------------------------------
(* The scan of an initializer. *)

\* The constants in the initializer of a version, and those of the module
\* that is being scanned which are seen or in the worklist.
Tree(b) == IF b.init = NoConst THEN {} ELSE Nested(b.init)
Started == scan.seen \cup ElementsOf(scan.lu)

\* Operand j of constant w has been scanned.
Scanned(w, j) == /\ w \in scan.seen /\ j \in DOMAIN Operands[w]
                 /\ w = scan.user => j < scan.oi

\* The worklist holds what scanned operands lead to, and nothing else.
WorklistInv ==
  LET b == loaded[scan.mod]
  IN  /\ b.init # NoConst => b.init \in Started
      /\ Started \subseteq Tree(b)
      /\ scan.user # NoConst => scan.user \in scan.seen
      /\ \A w \in Const : \A j \in Parts(w) : Scanned(w, j) => Operands[w][j].to \in Started
      /\ \A x \in Started : x # b.init =>
           \E w \in Const : \E j \in Parts(w) : Scanned(w, j) /\ x = Operands[w][j].to

\* ContainersMap holds the containers of what has been scanned.
ContainersInv ==
  /\ \A c \in scan.containers :
       \E w \in Const : \E j \in Held(w) : Scanned(w, j) /\ c = <<Operands[w][j].to, w, j - 1>>
  /\ \A w \in Const : \A j \in Held(w) :
       Scanned(w, j) => <<Operands[w][j].to, w, j - 1>> \in scan.containers

ScanInv ==
  /\ scan.mod = NoModule => scan = NoScan
  /\ scan.mod # NoModule => scan.mod \in todo /\ WorklistInv /\ ContainersInv
  /\ phase # "scan" => todo = {}

\* The containers that a function at operand i of u belongs to.
HoldersOf(b, u, i) ==
  {<<u, i - 1>>} \cup
  UNION {{<<w, j - 1>> : j \in {k \in Held(w) : u \in Within(Operands[w][k].to)}} : w \in Tree(b)}

FactsAt(b, u, i) ==
  {l \in TypeIdx : \E c \in HoldersOf(b, u, i) : l[1] \in TypesOf[c[1]] /\ l[2] = c[2]}
    \X {Operands[u][i].to}

FuncOperands == UNION {{u} \X (DOMAIN Operands[u] \ Parts(u)) : u \in Const}
ScannedFuncs == {x \in FuncOperands : Scanned(x[1], x[2])}

\* The facts of the modules already scanned, and of the scanned operands.
FactsDone  == UNION {FactsOf(loaded[m]) : m \in Module \ todo}
FactsFound == UNION {FactsAt(loaded[scan.mod], x[1], x[2]) : x \in ScannedFuncs}

Converse(F) == {<<x[2], x[1]>> : x \in F}

FactInv ==
  /\ typeIdxFuncsMap = FactsDone \cup FactsFound
  /\ funcTypeIdxsMap = Converse(typeIdxFuncsMap)

-----------------------------------------------------------------------------
(* Initializers: what they hold, in whatever depth. *)

LEMMA ReachSelf ==
  ASSUME NEW E, NEW u \in Const
  PROVE  u \in Reach(E, u)
BY DEF Reach

LEMMA ReachStep ==
  ASSUME NEW E, NEW u, NEW e \in E, e[1] \in Reach(E, u), e[2] \in Const
  PROVE  e[2] \in Reach(E, u)
BY DEF Reach

LEMMA ReachLeast ==
  ASSUME NEW E, NEW u, NEW S \in SUBSET Const, u \in S,
         \A e \in E : e[1] \in S => e[2] \in S
  PROVE  Reach(E, u) \subseteq S
BY DEF Reach

\* What an operand of a constant is.
LEMMA PartsTyped ==
  ASSUME NEW w \in Const, NEW j \in DOMAIN Operands[w]
  PROVE  /\ j \in Parts(w) => Operands[w][j].to \in Const
         /\ j \notin Parts(w) => Operands[w][j].to \in Func
         /\ j \in Held(w) => j \in Parts(w)
         /\ j \in 1 .. Len(Operands[w]) /\ j - 1 \in Index
<1>1. Operands[w] \in Seq(Operand)
  BY ModulesAssumption
<1>2. Operands[w][j] \in Operand /\ j \in 1 .. Len(Operands[w])
  BY <1>1
<1>3. (Operands[w][j].kind = "func" <=> Operands[w][j].to \in Func) /\ j - 1 \in Index
  BY ModulesAssumption
<1>4. Operands[w][j].to \in Func \cup Const
  BY <1>2 DEF Operand
<1> QED
  BY <1>2, <1>3, <1>4 DEF Parts, Held

LEMMA NestedPart ==
  ASSUME NEW r, NEW w \in Nested(r), NEW j \in Parts(w)
  PROVE  w \in Const /\ Operands[w][j].to \in Nested(r)
<1> DEFINE E == UNION {{<<u, Operands[u][i].to>> : i \in Parts(u)} : u \in Const}
           e == <<w, Operands[w][j].to>>
<1>1. Nested(r) = Reach(E, r)
  BY DEF Nested
<1>2. w \in Const
  BY <1>1 DEF Reach
<1>3. Operands[w][j].to \in Const
  BY <1>2, PartsTyped DEF Parts
<1>4. e \in E
  BY <1>2
<1>5. e[1] = w /\ e[2] = Operands[w][j].to
  OBVIOUS
<1> HIDE DEF E, e
<1>6. e[2] \in Reach(E, r)
  BY <1>1, <1>3, <1>4, <1>5, ReachStep
<1> QED
  BY <1>1, <1>2, <1>5, <1>6

LEMMA NestedLeast ==
  ASSUME NEW r, NEW S \in SUBSET Const, r \in S,
         \A w \in S : \A j \in Parts(w) : Operands[w][j].to \in S
  PROVE  Nested(r) \subseteq S
<1> DEFINE E == UNION {{<<u, Operands[u][i].to>> : i \in Parts(u)} : u \in Const}
<1>1. ASSUME NEW e \in E, e[1] \in S
      PROVE  e[2] \in S
  <2>1. PICK u \in Const : e \in {<<u, Operands[u][i].to>> : i \in Parts(u)}
    OBVIOUS
  <2>2. PICK i \in Parts(u) : e = <<u, Operands[u][i].to>>
    BY <2>1
  <2> QED
    BY <1>1, <2>2
<1>2. Nested(r) = Reach(E, r)
  BY DEF Nested
<1> HIDE DEF E
<1> QED
  BY <1>1, <1>2, ReachLeast

LEMMA NestedRoot ==
  ASSUME NEW r \in Const
  PROVE  r \in Nested(r) /\ Nested(r) \subseteq Const
<1>1. r \in Nested(r)
  BY ReachSelf DEF Nested
<1>2. Nested(r) \subseteq Const
  BY DEF Nested, Reach
<1> QED
  BY <1>1, <1>2

LEMMA WithinPart ==
  ASSUME NEW u, NEW w \in Within(u), NEW j \in Held(w)
  PROVE  w \in Const /\ Operands[w][j].to \in Within(u)
<1> DEFINE E == UNION {{<<x, Operands[x][i].to>> : i \in Held(x)} : x \in Const}
           e == <<w, Operands[w][j].to>>
<1>1. Within(u) = Reach(E, u)
  BY DEF Within
<1>2. w \in Const
  BY <1>1 DEF Reach
<1>3. Operands[w][j].to \in Const
  BY <1>2, PartsTyped DEF Held, Parts
<1>4. e \in E
  BY <1>2
<1>5. e[1] = w /\ e[2] = Operands[w][j].to
  OBVIOUS
<1> HIDE DEF E, e
<1>6. e[2] \in Reach(E, u)
  BY <1>1, <1>3, <1>4, <1>5, ReachStep
<1> QED
  BY <1>1, <1>2, <1>5, <1>6

LEMMA WithinLeast ==
  ASSUME NEW u, NEW S \in SUBSET Const, u \in S,
         \A w \in S : \A j \in Held(w) : Operands[w][j].to \in S
  PROVE  Within(u) \subseteq S
<1> DEFINE E == UNION {{<<x, Operands[x][i].to>> : i \in Held(x)} : x \in Const}
<1>1. ASSUME NEW e \in E, e[1] \in S
      PROVE  e[2] \in S
  <2>1. PICK x \in Const : e \in {<<x, Operands[x][i].to>> : i \in Held(x)}
    OBVIOUS
  <2>2. PICK i \in Held(x) : e = <<x, Operands[x][i].to>>
    BY <2>1
  <2> QED
    BY <1>1, <2>2
<1>2. Within(u) = Reach(E, u)
  BY DEF Within
<1> HIDE DEF E
<1> QED
  BY <1>1, <1>2, ReachLeast

LEMMA WithinSelf ==
  ASSUME NEW u \in Const
  PROVE  u \in Within(u) /\ Within(u) \subseteq Const
<1>1. u \in Within(u)
  BY ReachSelf DEF Within
<1>2. Within(u) \subseteq Const
  BY DEF Within, Reach
<1> QED
  BY <1>1, <1>2

\* What is within an aggregate is within all that it is within.
LEMMA WithinOperand ==
  ASSUME NEW w \in Const, NEW j \in Held(w)
  PROVE  Within(Operands[w][j].to) \subseteq Within(w)
<1>1. w \in Within(w) /\ Within(w) \subseteq Const
  BY WithinSelf
<1>2. Operands[w][j].to \in Within(w)
  BY <1>1, WithinPart
<1>3. \A x \in Within(w) : \A k \in Held(x) : Operands[x][k].to \in Within(w)
  BY WithinPart
<1> QED
  BY <1>1, <1>2, <1>3, WithinLeast

LEMMA WithinNested ==
  ASSUME NEW r \in Const, NEW u \in Nested(r)
  PROVE  Within(u) \subseteq Nested(r)
<1>1. Nested(r) \subseteq Const
  BY NestedRoot
<1>2. \A w \in Nested(r) : \A j \in Held(w) : Operands[w][j].to \in Nested(r)
  BY NestedPart DEF Held
<1> QED
  BY <1>1, <1>2, WithinLeast

LEMMA TreeTyped ==
  ASSUME NEW m \in Module, NEW b \in Versions[m]
  PROVE  /\ b.init \in Const \cup {NoConst} /\ NoConst \notin Const
         /\ b.stores \subseteq Value \X Value
         /\ Tree(b) \subseteq Const
         /\ b.init # NoConst => b.init \in Tree(b)
         /\ \A w \in Tree(b) : \A j \in Parts(w) : Operands[w][j].to \in Tree(b)
<1>1. b \in Body /\ NoConst \notin Const
  BY ModulesAssumption
<1>2. b.init \in Const \cup {NoConst} /\ b.stores \subseteq Value \X Value
  BY <1>1 DEF Body
<1>3. b.init # NoConst => b.init \in Nested(b.init) /\ Nested(b.init) \subseteq Const
  BY <1>2, NestedRoot
<1>4. \A w \in Nested(b.init) : \A j \in Parts(w) : Operands[w][j].to \in Nested(b.init)
  BY NestedPart
<1> QED
  BY <1>1, <1>2, <1>3, <1>4 DEF Tree

\* In a tree a constant is the operand of one constant, and the root of none.
LEMMA TreeParts ==
  ASSUME InitializersAreTrees, NEW m \in Module, NEW b \in Versions[m]
  PROVE  /\ \A u \in Tree(b) : \A i \in DOMAIN Operands[u] :
              i \notin Parts(u) => ModuleOf[Operands[u][i].to] = m
         /\ \A u, w \in Tree(b) : \A i \in Parts(u), j \in Parts(w) :
              Operands[u][i].to = Operands[w][j].to => u = w /\ i = j
         /\ \A u \in Tree(b) : \A i \in Parts(u) : Operands[u][i].to # b.init
<1>1. CASE b.init = NoConst
  BY <1>1 DEF Tree
<1>2. CASE b.init # NoConst
  BY <1>2 DEF Tree, InitializersAreTrees
<1> QED
  BY <1>1, <1>2

\* The facts of a version are about functions of its module.
LEMMA FactsOwned ==
  ASSUME InitializersAreTrees, NEW m \in Module, NEW b \in Versions[m],
         NEW x \in FactsOf(b)
  PROVE  ModuleOf[x[2]] = m
<1>1. CASE x \in UNION {ConfinedBy(s) : s \in b.stores}
  <2>1. PICK s \in b.stores : x \in ConfinedBy(s)
    BY <1>1
  <2>2. s[2] \in Func /\ x[2] = s[2]
    BY <2>1 DEF ConfinedBy, IsConfined
  <2> QED
    BY <2>2, ModulesAssumption
<1>2. CASE b.init # NoConst /\ x \in Inside(b.init)
  <2>1. PICK u \in Nested(b.init) :
          x \in UNION {(TypesOf[u] \X {i - 1}) \X FuncsWithin(u, i) : i \in DOMAIN Operands[u]}
    BY <1>2 DEF Inside
  <2>2. PICK i \in DOMAIN Operands[u] : x \in (TypesOf[u] \X {i - 1}) \X FuncsWithin(u, i)
    BY <2>1
  <2>3. x[2] \in FuncsWithin(u, i)
    BY <2>2
  <2>4. u \in Tree(b) /\ b.init \in Const /\ u \in Nested(b.init)
    BY <1>2, <2>1, TreeTyped DEF Tree
  <2>5. CASE i \notin Parts(u)
    BY <2>3, <2>4, <2>5, TreeParts DEF FuncsWithin
  <2>6. CASE i \in Held(u)
    <3>1. PICK w \in Within(Operands[u][i].to) :
            x[2] \in {Operands[w][k].to : k \in DOMAIN Operands[w] \ Parts(w)}
      BY <2>3, <2>6 DEF FuncsWithin, Held
    <3>2. PICK k \in DOMAIN Operands[w] \ Parts(w) : x[2] = Operands[w][k].to
      BY <3>1
    <3>3. Operands[u][i].to \in Nested(b.init)
      BY <2>4, <2>6, NestedPart DEF Held
    <3>4. w \in Tree(b)
      BY <1>2, <2>4, <3>1, <3>3, WithinNested DEF Tree
    <3> QED
      BY <3>2, <3>4, TreeParts
  <2> QED
    BY <2>3, <2>5, <2>6 DEF FuncsWithin
<1>3. x \in UNION {ConfinedBy(s) : s \in b.stores} \/ (b.init # NoConst /\ x \in Inside(b.init))
  BY DEF FactsOf
<1> QED
  BY <1>1, <1>2, <1>3

-----------------------------------------------------------------------------
(* The containers of a constant are the aggregates that it is within. *)

\* A constant above u has u within, and so has what holds it.
LEMMA AboveHolds ==
  ASSUME ContainersInv, NEW u \in Const
  PROVE  Above(u) \subseteq {y \in Const : u \in Within(y)}
<1> DEFINE S == {y \in Const : u \in Within(y)}
<1>1. ASSUME NEW c \in scan.containers, c[1] \in S
      PROVE  c[2] \in S
  <2>1. PICK w \in Const : \E j \in Held(w) :
               Scanned(w, j) /\ c = <<Operands[w][j].to, w, j - 1>>
    BY DEF ContainersInv
  <2>2. PICK j \in Held(w) : c = <<Operands[w][j].to, w, j - 1>>
    BY <2>1
  <2>3. u \in Within(Operands[w][j].to)
    BY <1>1, <2>2
  <2>4. u \in Within(w)
    BY <2>3, WithinOperand
  <2> QED
    BY <2>2, <2>4
<1>2. u \in S
  BY WithinSelf
<1> HIDE DEF S
<1>3. S \in SUBSET Const
  BY DEF S
<1>4. Reach(scan.containers, u) \subseteq S
  BY <1>1, <1>2, <1>3, ReachLeast
<1> QED
  BY <1>4 DEF Above, S

\* The containers of what is above u are above u, and they are known.
LEMMA AboveKnown ==
  ASSUME WorklistInv, ContainersInv, InitializersAreTrees, TypeOK,
         scan.mod \in Module, NEW u \in Started,
         NEW w \in Tree(loaded[scan.mod]), NEW j \in Held(w), Operands[w][j].to \in Above(u)
  PROVE  Scanned(w, j) /\ w \in Above(u)
<1> DEFINE b == loaded[scan.mod]
           x == Operands[w][j].to
<1>1. b \in Versions[scan.mod]
  BY DEF TypeOK
<1>2. w \in Const /\ j \in Parts(w) /\ Started \subseteq Const
  BY <1>1, TreeTyped DEF Held, WorklistInv
<1>3. Above(u) \subseteq Started
  <2>1. ASSUME NEW c \in scan.containers, c[1] \in Started
        PROVE  c[2] \in Started
    <3>1. PICK y \in Const : \E k \in Held(y) :
                 Scanned(y, k) /\ c = <<Operands[y][k].to, y, k - 1>>
      BY DEF ContainersInv
    <3>2. c[2] = y /\ y \in scan.seen
      BY <3>1 DEF Scanned
    <3> QED
      BY <3>2 DEF Started
  <2>2. Started \in SUBSET Const
    BY <1>2
  <2> QED
    BY <2>1, <2>2, ReachLeast DEF Above
<1>4. x \in Started /\ x # b.init
  BY <1>1, <1>2, <1>3, TreeParts
<1>5. PICK y \in Const : \E k \in Parts(y) : Scanned(y, k) /\ x = Operands[y][k].to
  BY <1>4 DEF WorklistInv
<1>6. PICK k \in Parts(y) : Scanned(y, k) /\ x = Operands[y][k].to
  BY <1>5
<1>7. y \in Tree(b)
  BY <1>6 DEF Scanned, Started, WorklistInv
<1>8. y = w /\ k = j
  BY <1>1, <1>2, <1>6, <1>7, TreeParts
<1>9. Scanned(w, j)
  BY <1>6, <1>8
<1> DEFINE c == <<x, w, j - 1>>
<1>10. c \in scan.containers
  BY <1>2, <1>9 DEF ContainersInv
<1>11. c[1] = x /\ c[2] = w
  OBVIOUS
<1> HIDE DEF c
<1>12. c[2] \in Above(u)
  BY <1>2, <1>10, <1>11, ReachStep DEF Above
<1> QED
  BY <1>9, <1>11, <1>12

\* Of the aggregates that u is within, the containers lead to each.
LEMMA HeldAbove ==
  ASSUME WorklistInv, ContainersInv, InitializersAreTrees, TypeOK,
         scan.mod \in Module, NEW u \in Started,
         NEW x \in Tree(loaded[scan.mod]), u \in Within(x)
  PROVE  x \in Above(u)
<1> DEFINE b == loaded[scan.mod]
           S == {y \in Tree(b) : y \notin Above(u)}
<1>1. b \in Versions[scan.mod]
  BY DEF TypeOK
<1>2. Tree(b) \subseteq Const /\ u \in Tree(b)
  BY <1>1, TreeTyped DEF WorklistInv
<1>3. u \in Above(u)
  BY <1>2, ReachSelf DEF Above
<1>4. ASSUME NEW w \in S, NEW j \in Held(w)
      PROVE  Operands[w][j].to \in S
  <2>1. w \in Tree(b) /\ w \notin Above(u) /\ j \in Parts(w)
    BY DEF Held
  <2>2. Operands[w][j].to \notin Above(u)
    BY <2>1, AboveKnown
  <2>3. Operands[w][j].to \in Tree(b)
    BY <1>1, <2>1, TreeTyped
  <2> QED
    BY <2>2, <2>3
<1>5. SUFFICES ASSUME x \in S PROVE FALSE
  OBVIOUS
<1>6. S \in SUBSET Const
  BY <1>2
<1>7. u \notin S
  BY <1>3
<1> HIDE DEF S
<1>8. Within(x) \subseteq S
  BY <1>4, <1>5, <1>6, WithinLeast
<1> QED
  BY <1>7, <1>8

\* "Add the function type to all containers" finds all of them.
LEMMA HoldersExact ==
  ASSUME WorklistInv, ContainersInv, InitializersAreTrees, TypeOK,
         scan.mod \in Module, NEW u \in Started, NEW i
  PROVE  Holders(u, i - 1) = HoldersOf(loaded[scan.mod], u, i)
<1> DEFINE b == loaded[scan.mod]
           D == {d \in scan.containers : d[1] \in Above(u)}
           L == {<<c[2], c[3]>> : c \in D}
           R == UNION {{<<w, j - 1>> : j \in {k \in Held(w) : u \in Within(Operands[w][k].to)}}
                       : w \in Tree(b)}
<1>1. b \in Versions[scan.mod]
  BY DEF TypeOK
<1>2. Tree(b) \subseteq Const /\ u \in Tree(b)
  BY <1>1, TreeTyped DEF WorklistInv
<1>3. ASSUME NEW h \in L
      PROVE  h \in R
  <2>1. PICK c \in scan.containers : c[1] \in Above(u) /\ h = <<c[2], c[3]>>
    BY <1>3
  <2>2. PICK w \in Const : \E j \in Held(w) :
               Scanned(w, j) /\ c = <<Operands[w][j].to, w, j - 1>>
    BY DEF ContainersInv
  <2>3. PICK j \in Held(w) : Scanned(w, j) /\ c = <<Operands[w][j].to, w, j - 1>>
    BY <2>2
  <2>4. h = <<w, j - 1>> /\ Operands[w][j].to \in Above(u)
    BY <2>1, <2>3
  <2>5. u \in Within(Operands[w][j].to)
    BY <1>2, <2>4, AboveHolds
  <2>6. w \in Tree(b)
    BY <2>3 DEF Scanned, Started, WorklistInv
  <2>7. h \in {<<w, k - 1>> : k \in {k \in Held(w) : u \in Within(Operands[w][k].to)}}
    BY <2>4, <2>5
  <2> QED
    BY <2>6, <2>7
<1>4. ASSUME NEW h \in R
      PROVE  h \in L
  <2>1. PICK w \in Tree(b) :
          h \in {<<w, j - 1>> : j \in {k \in Held(w) : u \in Within(Operands[w][k].to)}}
    BY <1>4
  <2>2. PICK j \in Held(w) : u \in Within(Operands[w][j].to) /\ h = <<w, j - 1>>
    BY <2>1
  <2>3. Operands[w][j].to \in Tree(b)
    BY <1>1, TreeTyped DEF Held
  <2>4. Operands[w][j].to \in Above(u)
    BY <2>2, <2>3, HeldAbove
  <2>5. Scanned(w, j)
    BY <2>4, AboveKnown
  <2> DEFINE c == <<Operands[w][j].to, w, j - 1>>
  <2>6. c \in scan.containers
    BY <1>2, <2>5 DEF ContainersInv
  <2>7. c[1] = Operands[w][j].to /\ c[2] = w /\ c[3] = j - 1
    OBVIOUS
  <2> HIDE DEF c
  <2>8. c \in D
    BY <2>4, <2>6, <2>7
  <2> QED
    BY <2>2, <2>7, <2>8
<1>5. L = R
  BY <1>3, <1>4
<1>6. Holders(u, i - 1) = {<<u, i - 1>>} \cup L
  BY DEF Holders
<1>7. HoldersOf(b, u, i) = {<<u, i - 1>>} \cup R
  BY DEF HoldersOf
<1> QED
  BY <1>5, <1>6, <1>7

-----------------------------------------------------------------------------
(* What an initializer confines is what its function operands do. *)

LEMMA HoldersMember ==
  ASSUME NEW b, NEW u, NEW i, NEW h
  PROVE  h \in HoldersOf(b, u, i) <=>
           \/ h = <<u, i - 1>>
           \/ \E w \in Tree(b) : \E j \in Held(w) :
                u \in Within(Operands[w][j].to) /\ h = <<w, j - 1>>
BY DEF HoldersOf

LEMMA FactsAtMember ==
  ASSUME NEW b, NEW u, NEW i, NEW w \in Const, NEW j \in DOMAIN Operands[w],
         <<w, j - 1>> \in HoldersOf(b, u, i),
         NEW x \in (TypesOf[w] \X {j - 1}) \X {Operands[u][i].to}
  PROVE  x \in FactsAt(b, u, i)
<1> DEFINE h == <<w, j - 1>>
<1>1. PICK l \in TypesOf[w] \X {j - 1} : x = <<l, Operands[u][i].to>>
  OBVIOUS
<1>2. l[1] \in TypesOf[w] /\ l[2] = j - 1 /\ l = <<l[1], l[2]>>
  OBVIOUS
<1>3. TypesOf[w] \subseteq Type /\ j - 1 \in Index
  BY ModulesAssumption, PartsTyped
<1>4. l \in TypeIdx
  BY <1>2, <1>3 DEF TypeIdx
<1>5. h \in HoldersOf(b, u, i) /\ h[1] = w /\ h[2] = j - 1
  OBVIOUS
<1> HIDE DEF h
<1>6. l \in {l0 \in TypeIdx : \E c \in HoldersOf(b, u, i) : l0[1] \in TypesOf[c[1]] /\ l0[2] = c[2]}
  BY <1>2, <1>4, <1>5
<1> QED
  BY <1>1, <1>6 DEF FactsAt

LEMMA InsideFacts ==
  ASSUME NEW m \in Module, NEW b \in Versions[m], b.init # NoConst
  PROVE  Inside(b.init) = UNION {FactsAt(b, x[1], x[2]) : x \in {y \in FuncOperands : y[1] \in Tree(b)}}
<1> DEFINE N == Nested(b.init)
           X == {y \in FuncOperands : y[1] \in Tree(b)}
           F == UNION {FactsAt(b, x[1], x[2]) : x \in X}
<1>1. N = Tree(b) /\ N \subseteq Const /\ b.init \in Const
  BY TreeTyped DEF Tree
<1>2. ASSUME NEW u \in N, NEW i \in DOMAIN Operands[u] \ Parts(u)
      PROVE  FactsAt(b, u, i) \subseteq F
  <2> DEFINE y == <<u, i>>
  <2>1. y \in X /\ y[1] = u /\ y[2] = i
    BY <1>1 DEF FuncOperands
  <2> HIDE DEF y, X
  <2> QED
    BY <2>1
<1>3. ASSUME NEW x \in Inside(b.init)
      PROVE  x \in F
  <2>1. PICK u \in N :
          x \in UNION {(TypesOf[u] \X {i - 1}) \X FuncsWithin(u, i) : i \in DOMAIN Operands[u]}
    BY DEF Inside
  <2>2. PICK i \in DOMAIN Operands[u] : x \in (TypesOf[u] \X {i - 1}) \X FuncsWithin(u, i)
    BY <2>1
  <2>3. x[2] \in FuncsWithin(u, i) /\ x \in (TypesOf[u] \X {i - 1}) \X {x[2]}
    BY <2>2
  <2>4. CASE i \notin Parts(u)
    <3>1. x[2] = Operands[u][i].to
      BY <2>3, <2>4 DEF FuncsWithin
    <3>2. <<u, i - 1>> \in HoldersOf(b, u, i)
      BY HoldersMember
    <3>3. x \in FactsAt(b, u, i)
      BY <1>1, <2>3, <3>1, <3>2, FactsAtMember
    <3> HIDE DEF F, N
    <3> QED
      BY <1>2, <2>4, <3>3
  <2>5. CASE i \in Held(u)
    <3>1. PICK w \in Within(Operands[u][i].to) :
            x[2] \in {Operands[w][k].to : k \in DOMAIN Operands[w] \ Parts(w)}
      BY <2>3, <2>5 DEF FuncsWithin, Held
    <3>2. PICK k \in DOMAIN Operands[w] \ Parts(w) : x[2] = Operands[w][k].to
      BY <3>1
    <3>3. Operands[u][i].to \in N
      BY <2>5, NestedPart DEF Held
    <3>4. w \in N
      BY <1>1, <3>1, <3>3, WithinNested
    <3>5. <<u, i - 1>> \in HoldersOf(b, w, k)
      BY <1>1, <2>5, <3>1, HoldersMember
    <3>6. x \in FactsAt(b, w, k)
      BY <1>1, <2>3, <3>2, <3>5, FactsAtMember
    <3> HIDE DEF F, N
    <3> QED
      BY <1>2, <3>2, <3>4, <3>6
  <2> QED
    BY <2>3, <2>4, <2>5 DEF FuncsWithin
<1>4. ASSUME NEW x \in F
      PROVE  x \in Inside(b.init)
  <2>1. PICK y \in X : x \in FactsAt(b, y[1], y[2])
    OBVIOUS
  <2> DEFINE u == y[1]
             i == y[2]
  <2>2. u \in N /\ i \in DOMAIN Operands[u] \ Parts(u)
    BY <1>1 DEF FuncOperands
  <2>3. PICK l \in TypeIdx : /\ \E h \in HoldersOf(b, u, i) : l[1] \in TypesOf[h[1]] /\ l[2] = h[2]
                             /\ x = <<l, Operands[u][i].to>>
    BY <2>1 DEF FactsAt
  <2>4. PICK h \in HoldersOf(b, u, i) : l[1] \in TypesOf[h[1]] /\ l[2] = h[2]
    BY <2>3
  <2>5. l = <<l[1], l[2]>>
    BY DEF TypeIdx
  <2> HIDE DEF u, i
  <2>6. ASSUME NEW w \in N, NEW j \in DOMAIN Operands[w], h = <<w, j - 1>>,
               Operands[u][i].to \in FuncsWithin(w, j)
        PROVE  x \in Inside(b.init)
    <3>1. x \in (TypesOf[w] \X {j - 1}) \X FuncsWithin(w, j)
      BY <2>3, <2>4, <2>5, <2>6
    <3> QED
      BY <3>1 DEF Inside
  <2>7. CASE h = <<u, i - 1>>
    BY <2>2, <2>6, <2>7 DEF FuncsWithin
  <2>8. ASSUME NEW w \in Tree(b), NEW j \in Held(w), u \in Within(Operands[w][j].to),
               h = <<w, j - 1>>
        PROVE  x \in Inside(b.init)
    <3>1. w \in N /\ j \in DOMAIN Operands[w] /\ j \in Parts(w)
      BY <1>1 DEF Held, Parts
    <3>2. Operands[u][i].to \in FuncsWithin(w, j)
      BY <2>2, <2>8, <3>1 DEF FuncsWithin
    <3> QED
      BY <2>6, <2>8, <3>1, <3>2
  <2> QED
    BY <2>4, <2>7, <2>8, HoldersMember
<1> QED
  BY <1>3, <1>4

-----------------------------------------------------------------------------
(* The scan keeps the worklist, the containers and the facts right. *)

LEMMA InitFacts == Init => ScanInv /\ FactInv
<1> SUFFICES ASSUME Init PROVE ScanInv /\ FactInv
  OBVIOUS
<1>1. ScanInv
  BY DEF Init, ScanInv, NoScan
<1>2. ScannedFuncs = {}
  BY DEF Init, NoScan, ScannedFuncs, Scanned
<1>3. FactsFound = {} /\ FactsDone = {}
  BY <1>2 DEF Init, FactsFound, FactsDone
<1> QED
  BY <1>1, <1>3 DEF Init, FactInv, Converse

\* Nothing is scanned between two modules.
LEMMA NothingFound ==
  ASSUME scan.seen = {}
  PROVE  ScannedFuncs = {} /\ FactsFound = {} /\ \A w, j : ~Scanned(w, j)
BY DEF ScannedFuncs, FactsFound, Scanned

LEMMA UpdateFacts ==
  ASSUME TypeInv, PhaseInv, ScanInv, FactInv, InitializersAreTrees,
         NEW U \in SUBSET Module, NEW new \in [U -> UNION {Versions[m] : m \in U}],
         \A m \in U : new[m] \in Versions[m], Update(U, new)
  PROVE  ScanInv' /\ FactInv'
<1>1. /\ phase = "ready" /\ phase' = "scan" /\ todo = {} /\ todo' = U
      /\ scan = NoScan /\ scan' = NoScan
  BY DEF Update, PhaseInv, ScanInv
<1>2. ScanInv'
  BY <1>1 DEF ScanInv, NoScan
<1>3. FactsFound = {}
  BY <1>1, NothingFound DEF NoScan
<1>4. FactsFound' = {}
  BY <1>1 DEF FactsFound, ScannedFuncs, Scanned, NoScan
<1>5. typeIdxFuncsMap = UNION {FactsOf(loaded[m]) : m \in Module}
  BY <1>1, <1>3 DEF FactInv, FactsDone
<1>6. \A m \in Module : loaded[m] \in Versions[m]
  BY DEF TypeInv, TypeOK
<1>7. \A m \in Module \ U : loaded'[m] = loaded[m]
  BY DEF Update
<1>8. FactsDone' = UNION {FactsOf(loaded[m]) : m \in Module \ U}
  BY <1>1, <1>7 DEF FactsDone
<1>9. typeIdxFuncsMap' = {x \in typeIdxFuncsMap : ModuleOf[x[2]] \notin U}
  <2>1. \A x \in typeIdxFuncsMap : <<x[2], x[1]>> \in funcTypeIdxsMap
    BY DEF FactInv, Converse
  <2> DEFINE gone == {x \in funcTypeIdxsMap : ModuleOf[x[1]] \in U}
  <2>2. \A x \in typeIdxFuncsMap : <<x[2], x[1]>> \in gone <=> ModuleOf[x[2]] \in U
    BY <2>1
  <2>3. typeIdxFuncsMap' = {x \in typeIdxFuncsMap : <<x[2], x[1]>> \notin gone}
    BY DEF Update, Invalidate
  <2> HIDE DEF gone
  <2> QED
    BY <2>2, <2>3
<1>10. funcTypeIdxsMap' = {x \in funcTypeIdxsMap : ModuleOf[x[1]] \notin U}
  BY DEF Update, Invalidate
<1>11. funcTypeIdxsMap' = Converse(typeIdxFuncsMap')
  <2>1. funcTypeIdxsMap = Converse(typeIdxFuncsMap)
    BY DEF FactInv
  <2> QED
    BY <1>9, <1>10, <2>1 DEF Converse
<1>12. typeIdxFuncsMap' = FactsDone'
  <2>1. ASSUME NEW x \in typeIdxFuncsMap'
        PROVE  x \in FactsDone'
    <3>1. x \in typeIdxFuncsMap /\ ModuleOf[x[2]] \notin U
      BY <1>9
    <3>2. PICK m \in Module : x \in FactsOf(loaded[m])
      BY <1>5, <3>1
    <3>3. m \notin U
      BY <1>6, <3>1, <3>2, FactsOwned
    <3> QED
      BY <1>8, <3>2, <3>3
  <2>2. ASSUME NEW x \in FactsDone'
        PROVE  x \in typeIdxFuncsMap'
    <3>1. PICK m \in Module \ U : x \in FactsOf(loaded[m])
      BY <1>8
    <3>2. ModuleOf[x[2]] = m
      BY <1>6, <3>1, FactsOwned
    <3>3. x \in typeIdxFuncsMap
      BY <1>5, <3>1
    <3> QED
      BY <1>9, <3>1, <3>2, <3>3
  <2> QED
    BY <2>1, <2>2
<1>13. Converse(typeIdxFuncsMap)' = Converse(typeIdxFuncsMap')
  BY DEF Converse
<1> QED
  BY <1>2, <1>4, <1>11, <1>12, <1>13 DEF FactInv

\* A step of the worklist that scans no function.
LEMMA SameFound ==
  ASSUME FactInv, UNCHANGED <<typeIdxFuncsMap, funcTypeIdxsMap, loaded, todo>>,
         scan'.mod = scan.mod \/ ScannedFuncs = {}, ScannedFuncs' = ScannedFuncs
  PROVE  FactInv'
<1>1. FactsDone' = FactsDone
  BY DEF FactsDone
<1>2. FactsFound' = FactsFound
  BY DEF FactsFound
<1>3. Converse(typeIdxFuncsMap)' = Converse(typeIdxFuncsMap)
  BY DEF Converse
<1> QED
  BY <1>1, <1>2, <1>3 DEF FactInv

LEMMA ScanGlobalFacts ==
  ASSUME TypeInv, PhaseInv, ScanInv, FactInv, NEW m \in Module, ScanGlobal(m)
  PROVE  ScanInv' /\ FactInv'
<1> DEFINE b == loaded[m]
           lu == IF b.init = NoConst THEN <<>> ELSE <<b.init>>
<1>1. /\ scan = NoScan /\ m \in todo /\ phase = "scan"
      /\ UNCHANGED <<typeIdxFuncsMap, funcTypeIdxsMap, loaded, todo, phase>>
  BY DEF ScanGlobal, ScanInv, factVars, runVars
<1>2. /\ scan'.mod = m /\ scan'.lu = lu /\ scan'.seen = {} /\ scan'.user = NoConst
      /\ scan'.containers = {}
  BY DEF ScanGlobal, NoScan
<1>3. ScannedFuncs = {}
  BY <1>1, NothingFound DEF NoScan
<1>4. ScannedFuncs' = {} /\ \A w, j : ~Scanned(w, j)'
  BY <1>2 DEF ScannedFuncs, Scanned
<1>5. FactInv'
  BY <1>1, <1>3, <1>4, SameFound
<1>6. b \in Versions[m]
  BY DEF TypeInv, TypeOK
<1>7. Started' = IF b.init = NoConst THEN {} ELSE {b.init}
  BY <1>2 DEF Started, ElementsOf
<1>8. loaded'[scan'.mod] = b
  BY <1>1, <1>2
<1>9. WorklistInv'
  BY <1>2, <1>4, <1>6, <1>7, <1>8, TreeTyped DEF WorklistInv
<1>10. ContainersInv'
  BY <1>2, <1>4 DEF ContainersInv
<1>11. m # NoModule
  BY ModulesAssumption
<1> QED
  BY <1>1, <1>2, <1>5, <1>9, <1>10, <1>11 DEF ScanInv

\* A step that scans no operand and keeps the worklist together with what it
\* has led to.
LEMMA SameWorklist ==
  ASSUME WorklistInv, ContainersInv, UNCHANGED loaded, scan'.mod = scan.mod,
         Started' = Started, scan'.containers = scan.containers,
         scan'.user # NoConst => scan'.user \in scan'.seen,
         \A w \in Const : \A j \in DOMAIN Operands[w] : Scanned(w, j)' <=> Scanned(w, j)
  PROVE  WorklistInv' /\ ContainersInv' /\ ScannedFuncs' = ScannedFuncs
<1>1. \A w \in Const : \A j \in Parts(w) : Scanned(w, j)' <=> Scanned(w, j)
  BY DEF Parts
<1>2. \A w \in Const : \A j \in Held(w) : Scanned(w, j)' <=> Scanned(w, j)
  BY <1>1 DEF Held
<1>3. \A x \in FuncOperands : Scanned(x[1], x[2])' <=> Scanned(x[1], x[2])
  BY DEF FuncOperands
<1>4. WorklistInv'
  BY <1>1 DEF WorklistInv
<1>5. ContainersInv'
  BY <1>2 DEF ContainersInv
<1>6. ScannedFuncs' = ScannedFuncs
  BY <1>3 DEF ScannedFuncs
<1> QED
  BY <1>4, <1>5, <1>6

LEMMA ElementsHead ==
  ASSUME NEW X, NEW s \in Seq(X), s # <<>>
  PROVE  /\ Head(s) \in X /\ Tail(s) \in Seq(X)
         /\ ElementsOf(s) = {Head(s)} \cup ElementsOf(Tail(s))
<1>1. Len(s) \in Nat \ {0} /\ Tail(s) \in Seq(X) /\ Len(Tail(s)) = Len(s) - 1
  OBVIOUS
<1>2. \A i \in 1 .. Len(Tail(s)) : Tail(s)[i] = s[i + 1]
  OBVIOUS
<1>3. ASSUME NEW i \in 1 .. Len(s), i # 1
      PROVE  i - 1 \in 1 .. Len(Tail(s)) /\ Tail(s)[i - 1] = s[i]
  BY <1>1, <1>2, <1>3
<1>4. Head(s) = s[1] /\ 1 \in 1 .. Len(s)
  BY <1>1
<1>5. ElementsOf(s) \subseteq {Head(s)} \cup ElementsOf(Tail(s))
  BY <1>3, <1>4 DEF ElementsOf
<1>6. \A i \in 1 .. Len(Tail(s)) : i + 1 \in 1 .. Len(s)
  BY <1>1
<1>7. {Head(s)} \cup ElementsOf(Tail(s)) \subseteq ElementsOf(s)
  BY <1>2, <1>4, <1>6 DEF ElementsOf
<1> QED
  BY <1>1, <1>4, <1>5, <1>7

LEMMA ElementsAppend ==
  ASSUME NEW X, NEW s \in Seq(X), NEW x \in X
  PROVE  ElementsOf(Append(s, x)) = ElementsOf(s) \cup {x}
<1> DEFINE t == Append(s, x)
<1>1. Len(t) = Len(s) + 1 /\ Len(s) \in Nat
  OBVIOUS
<1>2. \A i \in 1 .. Len(s) : t[i] = s[i]
  OBVIOUS
<1>3. t[Len(s) + 1] = x
  OBVIOUS
<1> HIDE DEF t
<1>4. \A i \in 1 .. Len(t) : i \in 1 .. Len(s) \/ i = Len(s) + 1
  BY <1>1
<1>5. \A i \in 1 .. Len(s) : i \in 1 .. Len(t)
  BY <1>1
<1>6. Len(s) + 1 \in 1 .. Len(t)
  BY <1>1
<1>7. ElementsOf(t) \subseteq ElementsOf(s) \cup {x}
  BY <1>2, <1>3, <1>4 DEF ElementsOf
<1>8. ElementsOf(s) \cup {x} \subseteq ElementsOf(t)
  BY <1>2, <1>3, <1>5, <1>6 DEF ElementsOf
<1> QED
  BY <1>7, <1>8 DEF t

\* What the operands are counted from: the first of a constant is 1.
LEMMA ScanLocals ==
  ASSUME TypeInv
  PROVE  /\ scan.seen \subseteq Const /\ scan.lu \in Seq(Const) /\ scan.oi \in Nat
         /\ scan.user \in Const \cup {NoConst} /\ NoConst \notin Const
         /\ scan.mod \in Module \cup {NoModule}
         /\ \A m \in Module : loaded[m] \in Versions[m]
BY ModulesAssumption DEF TypeInv, TypeOK, ScanType

LEMMA PopUserFacts ==
  ASSUME TypeInv, PhaseInv, ScanInv, FactInv, PopUser
  PROVE  ScanInv' /\ FactInv'
<1> DEFINE u == Head(scan.lu)
<1>1. /\ scan.mod # NoModule /\ scan.user = NoConst /\ scan.lu # <<>>
      /\ UNCHANGED <<typeIdxFuncsMap, funcTypeIdxsMap, loaded, todo, phase>>
  BY DEF PopUser, factVars, runVars
<1>2. /\ scan.mod \in todo /\ WorklistInv /\ ContainersInv
  BY <1>1 DEF ScanInv
<1>3. u \in Const /\ ElementsOf(scan.lu) = {u} \cup ElementsOf(Tail(scan.lu)) /\ NoConst \notin Const
  BY <1>1, ScanLocals, ElementsHead
<1>4. /\ scan'.mod = scan.mod /\ scan'.lu = Tail(scan.lu) /\ scan'.containers = scan.containers
      /\ scan'.seen = scan.seen \cup {u}
      /\ \/ u \in scan.seen /\ scan'.user = NoConst
         \/ u \notin scan.seen /\ scan'.user = u /\ scan'.oi = 1
  BY <1>1 DEF PopUser, TypeInv, ScanType
<1>5. Started' = Started
  <2>1. Started' = scan.seen \cup {u} \cup ElementsOf(Tail(scan.lu))
    BY <1>4 DEF Started, ElementsOf
  <2> HIDE DEF u
  <2> QED
    BY <1>3, <2>1 DEF Started
<1>6. ASSUME NEW w \in Const, NEW j \in DOMAIN Operands[w]
      PROVE  Scanned(w, j)' <=> Scanned(w, j)
  <2>1. j \in 1 .. Len(Operands[w])
    BY PartsTyped
  <2>2. ~(j < 1)
    BY <2>1
  <2>3. Scanned(w, j) <=> w \in scan.seen
    BY <1>1, <1>3 DEF Scanned
  <2>4. Scanned(w, j)' <=> w \in scan'.seen /\ (w = scan'.user => j < scan'.oi)
    BY DEF Scanned
  <2> HIDE DEF u
  <2>5. CASE u \in scan.seen /\ scan'.user = NoConst
    BY <1>3, <1>4, <2>3, <2>4, <2>5
  <2>6. CASE u \notin scan.seen /\ scan'.user = u /\ scan'.oi = 1
    BY <1>4, <2>2, <2>3, <2>4, <2>6
  <2> QED
    BY <1>4, <2>5, <2>6
<1> HIDE DEF u
<1>7. WorklistInv' /\ ContainersInv' /\ ScannedFuncs' = ScannedFuncs
  BY <1>1, <1>2, <1>4, <1>5, <1>6, SameWorklist
<1>8. FactInv'
  BY <1>1, <1>4, <1>7, SameFound
<1>9. ScanInv'
  BY <1>1, <1>2, <1>4, <1>7 DEF ScanInv
<1> QED
  BY <1>8, <1>9

LEMMA NextUserFacts ==
  ASSUME TypeInv, PhaseInv, ScanInv, FactInv, NextUser
  PROVE  ScanInv' /\ FactInv'
<1> DEFINE u == scan.user
<1>1. /\ scan.mod # NoModule /\ u # NoConst /\ scan.oi > Len(Operands[u])
      /\ UNCHANGED <<typeIdxFuncsMap, funcTypeIdxsMap, loaded, todo, phase>>
  BY DEF NextUser, PhaseInv, factVars, runVars
<1>2. /\ scan.mod \in todo /\ WorklistInv /\ ContainersInv
  BY <1>1 DEF ScanInv
<1>3. u \in Const /\ scan.oi \in Nat /\ NoConst \notin Const
  BY <1>1, ScanLocals
<1>4. /\ scan'.mod = scan.mod /\ scan'.lu = scan.lu /\ scan'.containers = scan.containers
      /\ scan'.seen = scan.seen /\ scan'.user = NoConst
  BY <1>1 DEF NextUser, TypeInv, ScanType
<1>5. Started' = Started
  BY <1>4 DEF Started, ElementsOf
<1>6. ASSUME NEW w \in Const, NEW j \in DOMAIN Operands[w]
      PROVE  Scanned(w, j)' <=> Scanned(w, j)
  <2>1. j \in 1 .. Len(Operands[w]) /\ Len(Operands[w]) \in Nat
    BY ModulesAssumption, PartsTyped
  <2>2. w = u => j < scan.oi
    BY <1>1, <1>3, <2>1
  <2> QED
    BY <1>3, <1>4, <2>2 DEF Scanned
<1>7. WorklistInv' /\ ContainersInv' /\ ScannedFuncs' = ScannedFuncs
  BY <1>1, <1>2, <1>4, <1>5, <1>6, SameWorklist
<1>8. FactInv'
  BY <1>1, <1>4, <1>7, SameFound
<1>9. ScanInv'
  BY <1>1, <1>2, <1>4, <1>7 DEF ScanInv
<1> QED
  BY <1>8, <1>9

LEMMA ConverseOfProduct ==
  ASSUME NEW A, NEW f
  PROVE  Converse(A \X {f}) = {f} \X A
<1>1. ASSUME NEW y \in Converse(A \X {f})
      PROVE  y \in {f} \X A
  BY DEF Converse
<1>2. ASSUME NEW l \in A
      PROVE  <<f, l>> \in Converse(A \X {f})
  <2> DEFINE x == <<l, f>>
  <2>1. x \in A \X {f} /\ x[1] = l /\ x[2] = f
    OBVIOUS
  <2> HIDE DEF x
  <2>2. <<x[2], x[1]>> \in Converse(A \X {f})
    BY <2>1 DEF Converse
  <2> QED
    BY <2>1, <2>2
<1> QED
  BY <1>1, <1>2

\* A function operand: its facts are added, for all its containers.
LEMMA ScanFunctionOperand ==
  ASSUME TypeInv, PhaseInv, ScanInv, FactInv, InitializersAreTrees, ScanOperand,
         Operands[scan.user][scan.oi].kind = "func"
  PROVE  ScanInv' /\ FactInv'
<1> DEFINE u == scan.user
           i == scan.oi
           f == Operands[u][i].to
           b == loaded[scan.mod]
           layers == {l \in TypeIdx : \E h \in Holders(u, i - 1) :
                                        l[1] \in TypesOf[h[1]] /\ l[2] = h[2]}
<1>1. /\ scan.mod # NoModule /\ u # NoConst /\ i > 0 /\ i <= Len(Operands[u])
      /\ UNCHANGED <<loaded, todo, phase>>
  BY DEF ScanOperand, PhaseInv, runVars
<1>2. /\ scan.mod \in todo /\ scan.mod \in Module /\ WorklistInv /\ ContainersInv /\ TypeOK
  BY <1>1 DEF ScanInv, TypeInv, ScanType
<1>3. u \in Const /\ i \in Nat /\ u \in scan.seen
  BY <1>1, <1>2, ScanLocals DEF WorklistInv
<1>4. Len(Operands[u]) \in Nat /\ i \in DOMAIN Operands[u] /\ i \notin Parts(u)
  BY <1>1, <1>3, ModulesAssumption DEF Parts
<1>5. /\ typeIdxFuncsMap' = typeIdxFuncsMap \cup (layers \X {f})
      /\ funcTypeIdxsMap' = funcTypeIdxsMap \cup ({f} \X layers)
      /\ scan' = [scan EXCEPT !.oi = i + 1]
  BY DEF ScanOperand
<1>6. /\ scan'.mod = scan.mod /\ scan'.lu = scan.lu /\ scan'.containers = scan.containers
      /\ scan'.seen = scan.seen /\ scan'.user = u /\ scan'.oi = i + 1
  BY <1>5 DEF TypeInv, ScanType
<1>7. Started' = Started
  BY <1>6 DEF Started, ElementsOf
<1>8. ASSUME NEW w \in Const, NEW j \in DOMAIN Operands[w]
      PROVE  Scanned(w, j)' <=> Scanned(w, j) \/ (w = u /\ j = i)
  <2>1. j \in 1 .. Len(Operands[w]) /\ Len(Operands[w]) \in Nat
    BY ModulesAssumption, PartsTyped
  <2>2. j < i + 1 <=> j < i \/ j = i
    BY <1>3, <2>1
  <2>3. Scanned(w, j) <=> w \in scan.seen /\ (w = u => j < i)
    BY DEF Scanned
  <2>4. Scanned(w, j)' <=> w \in scan.seen /\ (w = u => j < i + 1)
    BY <1>6 DEF Scanned
  <2> QED
    BY <1>3, <2>2, <2>3, <2>4
<1>9. \A w \in Const : \A j \in Parts(w) : Scanned(w, j)' <=> Scanned(w, j)
  BY <1>4, <1>8 DEF Parts
<1>10. \A w \in Const : \A j \in Held(w) : Scanned(w, j)' <=> Scanned(w, j)
  BY <1>9 DEF Held
<1>11. WorklistInv'
  BY <1>1, <1>2, <1>3, <1>6, <1>7, <1>9 DEF WorklistInv
<1>12. ContainersInv'
  BY <1>2, <1>6, <1>10 DEF ContainersInv
<1>13. ScanInv'
  BY <1>1, <1>2, <1>6, <1>11, <1>12 DEF ScanInv
<1>14. layers \X {f} = FactsAt(b, u, i)
  <2>1. u \in Started
    BY <1>3 DEF Started
  <2>2. Holders(u, i - 1) = HoldersOf(b, u, i)
    BY <1>2, <2>1, HoldersExact
  <2> QED
    BY <2>2 DEF FactsAt
<1> HIDE DEF layers
<1>15. FactsFound' = FactsFound \cup FactsAt(b, u, i)
  <2> DEFINE y == <<u, i>>
  <2>1. y \in FuncOperands /\ y[1] = u /\ y[2] = i
    BY <1>3, <1>4 DEF FuncOperands
  <2>2. ASSUME NEW x \in FuncOperands
        PROVE  /\ Scanned(x[1], x[2])' <=> Scanned(x[1], x[2]) \/ x = y
    <3>1. PICK w \in Const : x \in {w} \X (DOMAIN Operands[w] \ Parts(w))
      BY DEF FuncOperands
    <3>2. PICK j \in DOMAIN Operands[w] : x = <<w, j>>
      BY <3>1
    <3>3. x[1] = w /\ x[2] = j /\ (x = y <=> w = u /\ j = i)
      BY <3>2
    <3> QED
      BY <1>8, <3>3
  <2> HIDE DEF y
  <2>3. ScannedFuncs' = ScannedFuncs \cup {y}
    BY <2>1, <2>2 DEF ScannedFuncs
  <2>4. FactsFound' = UNION {FactsAt(b, x[1], x[2]) : x \in ScannedFuncs'}
    BY <1>1, <1>6 DEF FactsFound
  <2>5. FactsFound = UNION {FactsAt(b, x[1], x[2]) : x \in ScannedFuncs}
    BY DEF FactsFound
  <2> HIDE DEF b, u, i
  <2> QED
    BY <2>1, <2>3, <2>4, <2>5
<1>16. FactsDone' = FactsDone
  BY <1>1 DEF FactsDone
<1>17. typeIdxFuncsMap' = FactsDone' \cup FactsFound'
  <2>1. typeIdxFuncsMap = FactsDone \cup FactsFound
    BY DEF FactInv
  <2>2. typeIdxFuncsMap' = typeIdxFuncsMap \cup FactsAt(b, u, i)
    BY <1>5, <1>14
  <2> HIDE DEF b, u, i
  <2> QED
    BY <1>15, <1>16, <2>1, <2>2
<1>18. funcTypeIdxsMap' = Converse(typeIdxFuncsMap')
  <2>1. funcTypeIdxsMap = Converse(typeIdxFuncsMap)
    BY DEF FactInv
  <2> HIDE DEF f
  <2>2. {f} \X layers = Converse(layers \X {f})
    BY ConverseOfProduct
  <2>3. \A A, B : Converse(A \cup B) = Converse(A) \cup Converse(B)
    BY DEF Converse
  <2> QED
    BY <1>5, <2>1, <2>2, <2>3
<1>19. Converse(typeIdxFuncsMap)' = Converse(typeIdxFuncsMap')
  BY DEF Converse
<1>20. FactInv'
  BY <1>17, <1>18, <1>19 DEF FactInv
<1> QED
  BY <1>13, <1>20

\* An operand that is a constant: it joins the worklist, in its container.
LEMMA ScanConstantOperand ==
  ASSUME TypeInv, PhaseInv, ScanInv, FactInv, InitializersAreTrees, ScanOperand,
         Operands[scan.user][scan.oi].kind # "func"
  PROVE  ScanInv' /\ FactInv'
<1> DEFINE u == scan.user
           i == scan.oi
           o == Operands[u][i]
           b == loaded[scan.mod]
           cs == IF o.kind = "cast" THEN scan.containers ELSE Contained(o)
<1>1. /\ scan.mod # NoModule /\ u # NoConst /\ i > 0 /\ i <= Len(Operands[u])
      /\ UNCHANGED <<loaded, todo, phase, typeIdxFuncsMap, funcTypeIdxsMap>>
  BY DEF ScanOperand, PhaseInv, runVars
<1>2. /\ scan.mod \in todo /\ scan.mod \in Module /\ WorklistInv /\ ContainersInv /\ TypeOK
      /\ b \in Versions[scan.mod]
  BY <1>1, ScanLocals DEF ScanInv, TypeInv
<1>3. u \in Const /\ i \in Nat /\ u \in scan.seen /\ scan.lu \in Seq(Const)
  BY <1>1, <1>2, ScanLocals DEF WorklistInv
<1>4. Len(Operands[u]) \in Nat /\ i \in DOMAIN Operands[u] /\ i \in Parts(u)
  BY <1>1, <1>3, ModulesAssumption DEF Parts
<1>5. o.to \in Const /\ (i \in Held(u) <=> o.kind # "cast")
  BY <1>3, <1>4, PartsTyped DEF Held
<1>6. scan' = [scan EXCEPT !.oi = i + 1, !.lu = Append(scan.lu, o.to), !.containers = cs]
  BY DEF ScanOperand
<1> HIDE DEF cs
<1>7. /\ scan'.mod = scan.mod /\ scan'.lu = Append(scan.lu, o.to) /\ scan'.containers = cs
      /\ scan'.seen = scan.seen /\ scan'.user = u /\ scan'.oi = i + 1
  BY <1>6 DEF TypeInv, ScanType
<1>8. Started' = Started \cup {o.to}
  <2>1. ElementsOf(scan'.lu) = ElementsOf(scan.lu) \cup {o.to}
    BY <1>3, <1>5, <1>7, ElementsAppend
  <2>2. Started' = scan'.seen \cup ElementsOf(scan'.lu)
    BY DEF Started, ElementsOf
  <2> QED
    BY <1>7, <2>1, <2>2 DEF Started
<1>9. ASSUME NEW w \in Const, NEW j \in DOMAIN Operands[w]
      PROVE  /\ Scanned(w, j)' <=> Scanned(w, j) \/ (w = u /\ j = i)
             /\ Scanned(w, j) => ~(w = u /\ j = i)
  <2>1. j \in 1 .. Len(Operands[w]) /\ Len(Operands[w]) \in Nat
    BY ModulesAssumption, PartsTyped
  <2>2. (j < i + 1 <=> j < i \/ j = i) /\ ~(i < i)
    BY <1>3, <2>1
  <2>3. Scanned(w, j) <=> w \in scan.seen /\ (w = u => j < i)
    BY DEF Scanned
  <2>4. Scanned(w, j)' <=> w \in scan.seen /\ (w = u => j < i + 1)
    BY <1>7 DEF Scanned
  <2> QED
    BY <1>3, <2>2, <2>3, <2>4
<1>10. \A w \in Const : \A j \in Parts(w) :
         /\ Scanned(w, j)' <=> Scanned(w, j) \/ (w = u /\ j = i)
         /\ Scanned(w, j) => ~(w = u /\ j = i)
         /\ Scanned(w, j) => w \in Tree(b)
  BY <1>2, <1>9 DEF Parts, Scanned, Started, WorklistInv
<1>11. \A w \in Const : \A j \in Held(w) : j \in Parts(w)
  BY DEF Held
<1>12. u \in Tree(b) /\ o.to \in Tree(b)
  BY <1>2, <1>3, <1>4, TreeTyped DEF Started, WorklistInv
<1> DEFINE lead(w, j) == Operands[w][j].to
<1>13. lead(u, i) = o.to
  OBVIOUS
<1>14. ASSUME NEW w \in Const, NEW j \in Parts(w), Scanned(w, j), lead(w, j) = o.to
       PROVE  FALSE
  BY <1>2, <1>4, <1>10, <1>12, <1>14, TreeParts
<1>15. WorklistInv'
  <2>1. loaded'[scan'.mod] = b
    BY <1>1, <1>7
  <2>2. b.init # NoConst => b.init \in Started'
    BY <1>2, <1>8 DEF WorklistInv
  <2>3. Started' \subseteq Tree(b)
    BY <1>2, <1>8, <1>12 DEF WorklistInv
  <2>4. ASSUME NEW w \in Const, NEW j \in Parts(w), Scanned(w, j)'
        PROVE  lead(w, j) \in Started'
    <3>1. CASE Scanned(w, j)
      BY <1>2, <1>8, <3>1 DEF WorklistInv
    <3>2. CASE w = u /\ j = i
      BY <1>8, <3>2
    <3> QED
      BY <1>10, <2>4, <3>1, <3>2
  <2>5. ASSUME NEW x \in Started', x # b.init
        PROVE  \E w \in Const : \E j \in Parts(w) : Scanned(w, j)' /\ x = lead(w, j)
    <3>1. CASE x \in Started
      BY <1>2, <1>10, <2>5, <3>1 DEF WorklistInv
    <3>2. CASE x = o.to
      BY <1>3, <1>4, <1>10, <3>2
    <3> QED
      BY <1>8, <3>1, <3>2
  <2>6. scan'.user # NoConst => scan'.user \in scan'.seen
    BY <1>3, <1>7
  <2> QED
    BY <2>1, <2>2, <2>3, <2>4, <2>5, <2>6 DEF WorklistInv
<1>16. ContainersInv'
  <2> DEFINE new == <<o.to, u, i - 1>>
  <2>1. CASE o.kind = "cast"
    <3>1. cs = scan.containers /\ i \notin Held(u)
      BY <1>5, <2>1 DEF cs
    <3>2. \A w \in Const : \A j \in Held(w) : Scanned(w, j)' <=> Scanned(w, j)
      BY <1>10, <1>11, <3>1
    <3> QED
      BY <1>2, <1>7, <3>1, <3>2 DEF ContainersInv
  <2>2. CASE o.kind # "cast"
    <3>1. cs = {c \in scan.containers : c[1] # o.to} \cup {new} /\ i \in Held(u)
      BY <1>5, <2>2 DEF cs, Contained
    <3>2. scan'.containers = scan.containers \cup {new}
      <4>1. ASSUME NEW c \in scan.containers
            PROVE  c[1] # o.to
        <5>1. PICK w \in Const : \E j \in Held(w) :
                     Scanned(w, j) /\ c = <<lead(w, j), w, j - 1>>
          BY <1>2 DEF ContainersInv
        <5>2. PICK j \in Held(w) : Scanned(w, j) /\ c = <<lead(w, j), w, j - 1>>
          BY <5>1
        <5>3. c[1] = lead(w, j)
          BY <5>2
        <5> QED
          BY <1>11, <1>14, <5>2, <5>3
      <4> HIDE DEF new
      <4> QED
        BY <1>7, <3>1, <4>1
    <3>3. ASSUME NEW c \in scan'.containers
          PROVE  \E w \in Const : \E j \in Held(w) :
                   Scanned(w, j)' /\ c = <<lead(w, j), w, j - 1>>
      <4>1. CASE c \in scan.containers
        BY <1>2, <1>10, <1>11, <4>1 DEF ContainersInv
      <4>2. CASE c = new
        BY <1>3, <1>4, <1>10, <3>1, <4>2
      <4> QED
        BY <3>2, <4>1, <4>2
    <3>4. ASSUME NEW w \in Const, NEW j \in Held(w), Scanned(w, j)'
          PROVE  <<lead(w, j), w, j - 1>> \in scan'.containers
      <4>1. CASE Scanned(w, j)
        BY <1>2, <3>2, <4>1 DEF ContainersInv
      <4>2. CASE w = u /\ j = i
        BY <3>2, <4>2
      <4> QED
        BY <1>10, <1>11, <3>4, <4>1, <4>2
    <3> QED
      BY <3>3, <3>4 DEF ContainersInv
  <2> QED
    BY <2>1, <2>2
<1>17. ScanInv'
  BY <1>1, <1>2, <1>7, <1>15, <1>16 DEF ScanInv
<1>18. ScannedFuncs' = ScannedFuncs
  <2>1. ASSUME NEW x \in FuncOperands
        PROVE  Scanned(x[1], x[2])' <=> Scanned(x[1], x[2])
    <3>1. PICK w \in Const : x \in {w} \X (DOMAIN Operands[w] \ Parts(w))
      BY DEF FuncOperands
    <3>2. PICK j \in DOMAIN Operands[w] : x = <<w, j>> /\ j \notin Parts(w)
      BY <3>1
    <3>3. x[1] = w /\ x[2] = j /\ ~(w = u /\ j = i)
      BY <1>4, <3>2
    <3> QED
      BY <1>9, <3>3
  <2> QED
    BY <2>1 DEF ScannedFuncs
<1>19. FactInv'
  BY <1>1, <1>7, <1>18, SameFound
<1> QED
  BY <1>17, <1>19

\* The worklist is empty: what it has scanned is the whole initializer.
LEMMA TreeScanned ==
  ASSUME TypeInv, PhaseInv, ScanInv, scan.mod # NoModule, scan.user = NoConst,
         scan.lu = <<>>
  PROVE  FactsFound = LET b == loaded[scan.mod]
                      IN  IF b.init = NoConst THEN {} ELSE Inside(b.init)
<1> DEFINE b == loaded[scan.mod]
<1>1. WorklistInv /\ scan.mod \in Module /\ b \in Versions[scan.mod]
  BY ScanLocals DEF ScanInv
<1>2. Started = scan.seen
  BY DEF Started, ElementsOf
<1>3. NoConst \notin Const
  BY ScanLocals
<1>4. \A w \in Const : \A j \in DOMAIN Operands[w] : Scanned(w, j) <=> w \in scan.seen
  BY <1>3 DEF Scanned
<1>5. scan.seen = Tree(b)
  <2>1. scan.seen \subseteq Tree(b)
    BY <1>1, <1>2 DEF WorklistInv
  <2>2. CASE b.init = NoConst
    BY <2>1, <2>2 DEF Tree
  <2>3. CASE b.init # NoConst
    <3>1. b.init \in scan.seen /\ scan.seen \in SUBSET Const
      BY <1>1, <1>2, <2>3, ScanLocals DEF WorklistInv
    <3>2. \A w \in scan.seen : \A j \in Parts(w) : Operands[w][j].to \in scan.seen
      BY <1>1, <1>2, <1>4, <3>1 DEF WorklistInv, Parts
    <3>3. Nested(b.init) \subseteq scan.seen
      <4> HIDE DEF b
      <4> QED
        BY <3>1, <3>2, NestedLeast
    <3>4. Tree(b) = Nested(b.init)
      BY <2>3 DEF Tree
    <3> QED
      BY <2>1, <3>3, <3>4
  <2> QED
    BY <2>2, <2>3
<1>6. ScannedFuncs = {y \in FuncOperands : y[1] \in Tree(b)}
  <2>1. ASSUME NEW x \in FuncOperands
        PROVE  Scanned(x[1], x[2]) <=> x[1] \in Tree(b)
    <3>1. PICK w \in Const : x \in {w} \X (DOMAIN Operands[w] \ Parts(w))
      BY DEF FuncOperands
    <3>2. x[1] = w /\ x[2] \in DOMAIN Operands[w]
      BY <3>1
    <3> QED
      BY <1>4, <1>5, <3>2
  <2> QED
    BY <2>1 DEF ScannedFuncs
<1>7. FactsFound = UNION {FactsAt(b, x[1], x[2]) : x \in {y \in FuncOperands : y[1] \in Tree(b)}}
  BY <1>6 DEF FactsFound
<1>8. CASE b.init = NoConst
  <2>1. Tree(b) = {}
    BY <1>8 DEF Tree
  <2>2. FactsFound = {}
    BY <1>7, <2>1
  <2> QED
    BY <1>8, <2>2
<1>9. CASE b.init # NoConst
  BY <1>1, <1>7, <1>9, InsideFacts
<1> QED
  BY <1>8, <1>9

LEMMA ScanFunctionsFacts ==
  ASSUME TypeInv, PhaseInv, ScanInv, FactInv, ScanFunctions
  PROVE  ScanInv' /\ FactInv'
<1> DEFINE b == loaded[scan.mod]
           new == UNION {ConfinedBy(s) : s \in b.stores}
           inner == IF b.init = NoConst THEN {} ELSE Inside(b.init)
<1>1. /\ scan.mod # NoModule /\ scan.user = NoConst /\ scan.lu = <<>>
      /\ typeIdxFuncsMap' = typeIdxFuncsMap \cup new
      /\ funcTypeIdxsMap' = funcTypeIdxsMap \cup {<<x[2], x[1]>> : x \in new}
      /\ scan' = NoScan /\ todo' = todo \ {scan.mod} /\ UNCHANGED loaded
      /\ phase' = IF todo = {scan.mod} THEN "calls" ELSE "scan"
  BY DEF ScanFunctions
<1>2. scan.mod \in todo /\ scan.mod \in Module
  BY <1>1, ScanLocals DEF ScanInv
<1>3. ScanInv'
  BY <1>1 DEF ScanInv, NoScan
<1>4. FactsFound = inner
  BY <1>1, TreeScanned
<1>5. FactsFound' = {}
  BY <1>1 DEF FactsFound, ScannedFuncs, Scanned, NoScan
<1>6. FactsOf(b) = new \cup inner
  BY DEF FactsOf
<1>7. FactsDone' = FactsDone \cup FactsOf(b)
  <2>1. Module \ todo' = (Module \ todo) \cup {scan.mod}
    BY <1>1, <1>2
  <2>2. FactsDone' = UNION {FactsOf(loaded[m]) : m \in Module \ todo'}
    BY <1>1 DEF FactsDone
  <2>3. FactsDone = UNION {FactsOf(loaded[m]) : m \in Module \ todo}
    BY DEF FactsDone
  <2> QED
    BY <2>1, <2>2, <2>3
<1> HIDE DEF new, inner, b
<1>8. typeIdxFuncsMap' = FactsDone' \cup FactsFound'
  <2>1. typeIdxFuncsMap = FactsDone \cup FactsFound
    BY DEF FactInv
  <2> QED
    BY <1>1, <1>4, <1>5, <1>6, <1>7, <2>1
<1>9. funcTypeIdxsMap' = Converse(typeIdxFuncsMap')
  <2>1. funcTypeIdxsMap = Converse(typeIdxFuncsMap)
    BY DEF FactInv
  <2>2. funcTypeIdxsMap' = Converse(typeIdxFuncsMap) \cup Converse(new)
    BY <1>1, <2>1 DEF Converse
  <2>3. \A A, B : Converse(A \cup B) = Converse(A) \cup Converse(B)
    BY DEF Converse
  <2> QED
    BY <1>1, <2>2, <2>3
<1>10. Converse(typeIdxFuncsMap)' = Converse(typeIdxFuncsMap')
  BY DEF Converse
<1>11. FactInv'
  BY <1>8, <1>9, <1>10 DEF FactInv
<1> QED
  BY <1>3, <1>11

LEMMA FactsInductive ==
  ASSUME InitializersAreTrees
  PROVE  IInv /\ ScanInv /\ FactInv /\ [Next]_vars => (ScanInv /\ FactInv)'
<1> SUFFICES ASSUME IInv, ScanInv, FactInv, [Next]_vars PROVE ScanInv' /\ FactInv'
  OBVIOUS
<1> USE DEF IInv
<1>1. ASSUME NEW U \in (SUBSET Module) \ {{}},
             NEW new \in [U -> UNION {Versions[m] : m \in U}],
             \A m \in U : new[m] \in Versions[m], Update(U, new)
      PROVE  ScanInv' /\ FactInv'
  BY <1>1, UpdateFacts
<1>2. CASE Scan
  BY <1>2, ScanGlobalFacts, PopUserFacts, NextUserFacts, ScanFunctionOperand,
     ScanConstantOperand, ScanFunctionsFacts DEF Scan
<1>3. ASSUME UNCHANGED <<factVars, loaded, todo, scan>>,
             phase' # "scan" => phase # "scan"
      PROVE  ScanInv' /\ FactInv'
  <2>1. /\ UNCHANGED <<typeIdxFuncsMap, funcTypeIdxsMap, loaded, todo>> /\ scan' = scan
    BY <1>3 DEF factVars
  <2>2. ScannedFuncs' = ScannedFuncs
    BY <2>1 DEF ScannedFuncs, Scanned
  <2>3. FactInv'
    BY <2>1, <2>2, SameFound
  <2>4. WorklistInv' <=> WorklistInv
    BY <2>1 DEF WorklistInv, Scanned, Started, ElementsOf
  <2>5. ContainersInv' <=> ContainersInv
    BY <2>1 DEF ContainersInv, Scanned
  <2>6. ScanInv'
    BY <1>3, <2>1, <2>4, <2>5 DEF ScanInv
  <2> QED
    BY <2>3, <2>6
<1>4. ASSUME NEW c \in Call, FindCallees(c)
      PROVE  ScanInv' /\ FactInv'
  BY <1>3, <1>4 DEF FindCallees, runVars
<1>5. CASE Walk
  BY <1>3, <1>5 DEF Walk, EnterLayers, Return, LimitReached, Matched, LookUpCached,
                    MeetEscaped, LookUp, FollowProps, runVars
<1>6. CASE EndRun
  BY <1>3, <1>6 DEF EndRun
<1>7. CASE UNCHANGED vars
  BY <1>3, <1>7 DEF vars, runVars
<1> QED
  BY <1>1, <1>2, <1>4, <1>5, <1>6, <1>7 DEF Next

LEMMA FactsInvariant ==
  ASSUME InitializersAreTrees
  PROVE  Spec => [](IInv /\ ScanInv /\ FactInv)
<1>1. Init => IInv /\ ScanInv /\ FactInv
  BY InitInv, InitFacts
<1>2. IInv /\ ScanInv /\ FactInv /\ [Next]_vars => (IInv /\ ScanInv /\ FactInv)'
  BY Inductive, FactsInductive
<1> QED
  BY <1>1, <1>2, PTL DEF Spec

-----------------------------------------------------------------------------
(* What the stores bring behind a pointer is confined at its layers. *)

\* The stores of the modules already scanned are in the tables.
Recorded(s) == /\ ConfinedBy(s) \subseteq typeIdxFuncsMap
               /\ PropagatedBy(s) \subseteq typeIdxPropMap
               /\ CappedBy(s) \subseteq typeCapSet

RecordInv == /\ phase # "scan" => todo = {}
             /\ \A m \in Module \ todo : \A s \in loaded[m].stores : Recorded(s)

LEMMA InitRecords == Init => RecordInv
BY DEF Init, RecordInv

\* Without an update the tables only grow.
LEMMA RecordsGrow ==
  ASSUME RecordInv, UNCHANGED <<loaded, todo>>, phase' # "scan" => phase # "scan",
         typeIdxFuncsMap \subseteq typeIdxFuncsMap',
         typeIdxPropMap \subseteq typeIdxPropMap', typeCapSet \subseteq typeCapSet'
  PROVE  RecordInv'
<1>1. \A s : Recorded(s) => Recorded(s)'
  BY DEF Recorded
<1> QED
  BY <1>1 DEF RecordInv

\* An update erases what it is to scan again, and nothing else.
LEMMA UpdateRecords ==
  ASSUME TypeOK, RecordInv, NEW U \in SUBSET Module,
         NEW new \in [U -> UNION {Versions[m] : m \in U}], Update(U, new)
  PROVE  RecordInv'
<1>1. todo = {} /\ todo' = U /\ phase' = "scan"
  BY DEF Update, RecordInv
<1>2. ASSUME NEW m \in Module \ U, NEW s \in loaded[m].stores
      PROVE  Recorded(s)'
  <2>1. Recorded(s)
    BY <1>1 DEF RecordInv
  <2>2. loaded[m] \in Versions[m]
    BY DEF TypeOK
  <2>3. s[2] \in Func => ModuleOf[s[2]] = m
    BY <2>2, ModulesAssumption
  <2>4. \A x \in ConfinedBy(s) : x[2] = s[2] /\ s[2] \in Func
    BY DEF ConfinedBy, IsConfined
  <2>5. typeIdxFuncsMap' = {x \in typeIdxFuncsMap :
                              <<x[2], x[1]>> \notin {y \in funcTypeIdxsMap : ModuleOf[y[1]] \in U}}
    BY DEF Update, Invalidate
  <2>6. ConfinedBy(s) \subseteq typeIdxFuncsMap'
    BY <2>1, <2>3, <2>4, <2>5 DEF Recorded
  <2>7. UNCHANGED <<typeIdxPropMap, typeCapSet>>
    BY DEF Update
  <2> QED
    BY <2>1, <2>6, <2>7 DEF Recorded
<1>3. \A m \in Module \ U : loaded'[m] = loaded[m]
  BY DEF Update
<1> QED
  BY <1>1, <1>2, <1>3 DEF RecordInv

LEMMA ScanFunctionsRecords ==
  ASSUME RecordInv, ScanFunctions
  PROVE  RecordInv'
<1> DEFINE b   == loaded[scan.mod]
           new == UNION {ConfinedBy(s) : s \in b.stores}
<1>1. /\ typeIdxFuncsMap' = typeIdxFuncsMap \cup new
      /\ typeIdxPropMap' = typeIdxPropMap \cup Flows(b)
      /\ loaded' = loaded /\ todo' = todo \ {scan.mod}
      /\ phase' = IF todo = {scan.mod} THEN "calls" ELSE "scan"
  BY DEF ScanFunctions
<1>2. /\ typeCapSet \subseteq typeCapSet'
      /\ UNION {CappedBy(s) : s \in b.stores} \subseteq typeCapSet'
  BY DEF ScanFunctions
<1>3. \A s \in b.stores : Recorded(s)'
  BY <1>1, <1>2 DEF Recorded, Flows
<1>4. \A s : Recorded(s) => Recorded(s)'
  BY <1>1, <1>2 DEF Recorded
<1>5. phase' # "scan" => todo' = {}
  BY <1>1
<1>6. ASSUME NEW m \in Module \ todo', NEW s \in loaded'[m].stores
      PROVE  Recorded(s)'
  <2>1. CASE m = scan.mod
    BY <1>1, <1>3, <1>6, <2>1
  <2>2. CASE m # scan.mod
    BY <1>1, <1>4, <1>6, <2>2 DEF RecordInv
  <2> QED
    BY <2>1, <2>2
<1> QED
  BY <1>5, <1>6 DEF RecordInv

LEMMA RecordsInductive ==
  IInv /\ RecordInv /\ [Next]_vars => RecordInv'
<1> SUFFICES ASSUME IInv, RecordInv, [Next]_vars PROVE RecordInv'
  OBVIOUS
<1>1. ASSUME NEW U \in (SUBSET Module) \ {{}},
             NEW new \in [U -> UNION {Versions[m] : m \in U}], Update(U, new)
      PROVE  RecordInv'
  BY <1>1, UpdateRecords DEF IInv, TypeInv
<1>2. ASSUME UNCHANGED <<factVars, loaded, todo>>, phase' # "scan" => phase # "scan"
      PROVE  RecordInv'
  BY <1>2, RecordsGrow DEF factVars
<1>3. CASE Scan
  <2>1. CASE ScanFunctions
    BY <2>1, ScanFunctionsRecords
  <2>2. CASE ScanOperand
    BY <2>2, RecordsGrow DEF ScanOperand, runVars
  <2>3. CASE (\E m \in Module : ScanGlobal(m)) \/ PopUser \/ NextUser
    BY <1>2, <2>3 DEF ScanGlobal, PopUser, NextUser, runVars
  <2> QED
    BY <1>3, <2>1, <2>2, <2>3 DEF Scan
<1>4. ASSUME NEW c \in Call, FindCallees(c)
      PROVE  RecordInv'
  BY <1>2, <1>4 DEF FindCallees, runVars
<1>5. CASE Walk
  BY <1>2, <1>5 DEF Walk, EnterLayers, Return, LimitReached, Matched, LookUpCached,
                    MeetEscaped, LookUp, FollowProps, runVars
<1>6. CASE EndRun
  BY <1>2, <1>6 DEF EndRun
<1>7. CASE UNCHANGED vars
  BY <1>2, <1>7 DEF vars, runVars
<1> QED
  BY <1>1, <1>3, <1>4, <1>5, <1>6, <1>7 DEF Next

LEMMA RecordsInvariant == Spec => [](IInv /\ RecordInv)
BY InitInv, InitRecords, Inductive, RecordsInductive, PTL DEF Spec

\* What is confined at a layer is confined at those it is copied to.
LEMMA ConfinedCopied ==
  ASSUME NEW t, NEW u \in Copied(t)
  PROVE  ConfinedAt(u) \subseteq ConfinedAt(t)
<1>1. u \in DependsOn(t)
  BY DependsOnSelf, DependsOnCopied
<1>2. \A s \in DependsOn(t) : Copied(s) \subseteq DependsOn(t)
  BY DependsOnCopied
<1>3. DependsOn(u) \subseteq DependsOn(t)
  BY <1>1, <1>2, DependsOnLeast
<1> QED
  BY <1>3 DEF ConfinedAt

\* The store x has brought f to all layers that it records, and capped.
Brought(x, f) == /\ \A t \in ElementsOf(BaseTypeChain(x[1]).types) : f \in ConfinedAt(t)
                 /\ CapAt(x[1]) \subseteq typeCapSet

LEMMA StoreBrings ==
  ASSUME NEW s, Recorded(s), s[2] \in Func
  PROVE  Brought(s, s[2])
<1>1. ASSUME NEW t \in ElementsOf(BaseTypeChain(s[1]).types)
      PROVE  s[2] \in ConfinedAt(t)
  <2>1. <<t, s[2]>> \in typeIdxFuncsMap
    BY DEF Recorded, ConfinedBy, IsConfined
  <2>2. s[2] \in PutAt(t)
    BY <2>1 DEF PutAt
  <2> QED
    BY <2>2, DependsOnSelf DEF ConfinedAt
<1>2. CapAt(s[1]) \subseteq typeCapSet
  BY DEF Recorded, CappedBy, Capped, CapAt, LastOf, IsConfined
<1> QED
  BY <1>1, <1>2 DEF Brought

LEMMA CopyBrings ==
  ASSUME WalksAgree, NEW stores \in SUBSET (Value \X Value),
         NEW y \in stores, NEW f, Brought(y, f),
         NEW z \in CopiesOf(stores, y[1]), Recorded(z)
  PROVE  Brought(z, f)
<1> DEFINE v == z[2]
           t == Step[v].types[1]
<1>1. y[1] \in Value /\ v \in Value /\ z \in stores
  BY DEF CopiesOf
<1>2. /\ IR[v].kind = "load" /\ IR[v].ops[1] \in Aliases[y[1]] /\ Step[v].types # <<>>
  BY <1>1 DEF CopiesOf, LoadedFrom
<1>3. Step[v].types \in Seq(Layer) /\ Step[v].types = NextLayer[v, {}].types
  BY <1>1, Layers DEF Step
<1>4. 1 \in DOMAIN Step[v].types /\ 1 \in 1 .. Len(Step[v].types)
  BY <1>2, <1>3, FirstOfSeq
<1>5. t \in Uncapped(Step[v].types, CapAt(y[1]))
  <2>1. \A j \in 1 .. 1 - 1 : FALSE
    OBVIOUS
  <2> QED
    BY <1>4, <2>1 DEF Uncapped
<1>6. t \in Met(v, CapAt(y[1]), {})
  BY <1>1, <1>5, WalkedStart DEF Met
<1>7. t \in ElementsOf(BaseTypeChain(y[1]).types)
  BY <1>1, <1>2, <1>6 DEF WalksAgree
<1>8. f \in ConfinedAt(t)
  BY <1>7 DEF Brought
<1>9. t \in Sources(v)
  <2>1. t \in ElementsOf(Step[v].types)
    BY <1>4 DEF ElementsOf
  <2> QED
    BY <1>2, <1>3, <2>1 DEF Sources, SourcesOf
<1> HIDE DEF t
<1>10. ASSUME NEW u \in ElementsOf(BaseTypeChain(z[1]).types)
       PROVE  f \in ConfinedAt(u)
  <2>1. CASE u = t
    BY <1>8, <2>1
  <2>2. CASE u # t
    <3>1. <<u, t>> \in PropagatedBy(z)
      BY <1>9, <2>2 DEF PropagatedBy
    <3>2. t \in Copied(u)
      BY <3>1 DEF Recorded, Copied
    <3> QED
      BY <1>8, <3>2, ConfinedCopied
  <2> QED
    BY <2>1, <2>2
<1>11. CapAt(z[1]) \subseteq typeCapSet
  BY <1>9 DEF Recorded, CappedBy, Capped, CapAt, LastOf
<1> QED
  BY <1>10, <1>11 DEF Brought

LEMMA PassedOnBrings ==
  ASSUME WalksAgree, NEW stores \in SUBSET (Value \X Value),
         \A s \in stores : Recorded(s),
         NEW s \in stores, s[2] \in Func, NEW x \in PassedOn(stores, s)
  PROVE  Brought(x, s[2])
<1> DEFINE S == {y \in stores : Brought(y, s[2])}
<1>1. s \in S
  BY StoreBrings
<1>2. \A y \in S : CopiesOf(stores, y[1]) \subseteq S
  <2> TAKE y \in S
  <2>1. \A z \in CopiesOf(stores, y[1]) : z \in stores
    BY DEF CopiesOf
  <2> QED
    BY <2>1, CopyBrings
<1>3. S \in SUBSET stores
  OBVIOUS
<1>4. x \in S
  <2> HIDE DEF S
  <2> QED
    BY <1>1, <1>2, <1>3 DEF PassedOn
<1> QED
  BY <1>4

-----------------------------------------------------------------------------
(* The theorems. *)

\* Tables and locals hold what they should, and the look-up of a call counts
\* no more than MAX_TYPE_LAYER layers (MLTA.cc:1138), for any IR.
THEOREM TypeCorrect == Spec => []TypeOK
<1>1. IInv => TypeOK
  BY DEF IInv, TypeInv
<1> QED
  BY <1>1, Invariant, PTL

\* What a run caches for a layer (MLTA.cc:1191) is what is confined there,
\* whatever was stored before, in any order of the worklist.
THEOREM CacheCorrect == Spec => []CacheExact
<1>1. IInv => CacheExact
  BY DEF IInv, LookUpInv
<1> QED
  BY <1>1, Invariant, PTL

\* No look-up drops a function that is confined at every layer behind the
\* called pointer, as far as the first of a capped type (MLTA.cc:1114-1206),
\* for any IR and any limit of layers.
THEOREM TargetsFound == Spec => []TargetsKept
<1>1. IInv => TargetsKept
  BY DEF IInv, LookUpInv
<1> QED
  BY <1>1, Invariant, PTL

\* A call through what it loads from a pointer finds the functions that the
\* stores of the loaded versions put there or copy there (MLTA.cc:1114-1206,
\* 366-493, 587-624), after any updates, if the walks of the scan and of the
\* look-up agree on the IR.
THEOREM SoundTargets == WalksAgree => (Spec => []SoundCalls)
<1> SUFFICES ASSUME WalksAgree PROVE Spec => []SoundCalls
  OBVIOUS
<1>1. IInv /\ RecordInv => SoundCalls
  <2> SUFFICES ASSUME IInv, RecordInv,
                      NEW c \in done, IR[CalledOperand[c]].kind = "load",
                      \A v \in Below[CalledOperand[c]] : \A t \in ElementsOf(Step[v].types) : ~Escaped(t),
                      NEW x \in Behind, x[1] = IR[CalledOperand[c]].ops[1],
                      x[2] \in Bucket(CallHash[c])
               PROVE  x[2] \in callees[c]
    BY DEF SoundCalls
  <2> DEFINE stores  == UNION {loaded[m].stores : m \in Module}
             v       == CalledOperand[c]
             escapes == {t \in Layer : Escaped(t)}
  <2>1. TypeOK /\ c \in Call /\ v \in Value
    BY ModulesAssumption DEF IInv, TypeInv, TypeOK
  <2>2. todo = {}
    BY DEF IInv, PhaseInv, RecordInv
  <2>3. stores \in SUBSET (Value \X Value)
    BY <2>1, BodyTypes
  <2>4. \A s \in stores : Recorded(s)
    BY <2>2 DEF RecordInv
  <2>5. PICK s \in {t \in stores : t[2] \in Func} :
          x \in UNION {Aliases[y[1]] \X {s[2]} : y \in PassedOn(stores, s)}
    BY DEF Behind
  <2>6. PICK y \in PassedOn(stores, s) : x \in Aliases[y[1]] \X {s[2]}
    BY <2>5
  <2>7. y \in stores /\ s \in stores /\ s[2] \in Func
    BY <2>5, <2>6 DEF PassedOn
  <2> HIDE DEF stores
  <2>8. Brought(y, x[2])
    BY <2>3, <2>4, <2>6, <2>7, PassedOnBrings
  <2>9. y[1] \in Value /\ IR[v].ops[1] \in Aliases[y[1]]
    BY <2>3, <2>6, <2>7
  <2>10. Met(v, CapAt(y[1]), {}) \subseteq ElementsOf(BaseTypeChain(y[1]).types)
    BY <2>1, <2>9 DEF WalksAgree
  <2>11. Met(v, typeCapSet, escapes) \subseteq Met(v, CapAt(y[1]), {})
    BY <2>1, <2>8, MetLess DEF Brought
  <2>12. \A t \in LookedUp(c) : x[2] \in ConfinedAt(t)
    BY <2>8, <2>10, <2>11 DEF Brought, LookedUp
  <2> QED
    BY <2>12 DEF IInv, LookUpInv, TargetsKept
<1> QED
  BY <1>1, RecordsInvariant, PTL

\* Between the scans the facts about stores are those of the loaded versions,
\* in both directions, after any updates of modules whose initializers are
\* trees: what the worklist over an initializer finds (MLTA.cc:213-361) and
\* what invalidateStates erases (MLTA.cc:1232-1250).
THEOREM FactsCorrect == InitializersAreTrees => (Spec => []FactsCurrent)
<1> SUFFICES ASSUME InitializersAreTrees PROVE Spec => []FactsCurrent
  OBVIOUS
<1>1. IInv /\ ScanInv /\ FactInv => FactsCurrent
  <2> SUFFICES ASSUME IInv, ScanInv, FactInv, phase # "scan"
               PROVE  typeIdxFuncsMap = FactsNow
                      /\ funcTypeIdxsMap = {<<x[2], x[1]>> : x \in typeIdxFuncsMap}
    BY DEF FactsCurrent
  <2>1. todo = {} /\ scan.mod = NoModule
    BY DEF ScanInv, IInv, PhaseInv
  <2>2. scan.seen = {}
    BY <2>1 DEF ScanInv, NoScan
  <2>3. FactsFound = {}
    BY <2>2, NothingFound
  <2>4. FactsDone = FactsNow
    BY <2>1 DEF FactsDone, FactsNow
  <2> QED
    BY <2>3, <2>4 DEF FactInv, Converse
<1> QED
  BY <1>1, FactsInvariant, PTL
=============================================================================
