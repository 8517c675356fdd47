------------------------- MODULE GlobalContextProofs -------------------------
(***************************************************************************)
(* Proofs about the walks of GlobalContext, for every set of functions and *)
(* every call graph: a gathering walk visits exactly the subtree, and the  *)
(* two ancestor caches never hold the same pair.                           *)
(***************************************************************************)
EXTENDS GlobalContext, FiniteSetTheorems, TLAPS

\* The elements of a queue are its head and those of its tail.
LEMMA ElementsHead ==
  ASSUME NEW S, NEW s \in Seq(S), s # <<>>
  PROVE  /\ Head(s) \in S /\ Tail(s) \in Seq(S)
         /\ Elements(s) = {Head(s)} \cup Elements(Tail(s))
<1>1. Head(s) \in S /\ Tail(s) \in Seq(S)
  OBVIOUS
<1>2. Len(s) \in Nat \ {0} /\ Len(Tail(s)) = Len(s) - 1 /\ Head(s) = s[1]
  OBVIOUS
<1>3. \A i \in 1 .. Len(Tail(s)) : Tail(s)[i] = s[i + 1]
  OBVIOUS
<1>4. Elements(s) \subseteq {Head(s)} \cup Elements(Tail(s))
  <2> SUFFICES ASSUME NEW i \in 1 .. Len(s), i # 1
               PROVE  s[i] \in Elements(Tail(s))
    BY <1>2 DEF Elements
  <2>1. i - 1 \in 1 .. Len(Tail(s)) /\ Tail(s)[i - 1] = s[i]
    BY <1>2, <1>3
  <2> QED
    BY <2>1 DEF Elements
<1>5. {Head(s)} \cup Elements(Tail(s)) \subseteq Elements(s)
  <2>1. 1 \in 1 .. Len(s)
    BY <1>2
  <2>2. \A i \in 1 .. Len(Tail(s)) : i + 1 \in 1 .. Len(s)
    BY <1>2
  <2> QED
    BY <2>1, <2>2, <1>2, <1>3 DEF Elements
<1> QED
  BY <1>1, <1>4, <1>5

\* The elements of a concatenation are those of its two parts.
LEMMA ElementsConcat ==
  ASSUME NEW S, NEW s \in Seq(S), NEW t \in Seq(S)
  PROVE  s \o t \in Seq(S) /\ Elements(s \o t) = Elements(s) \cup Elements(t)
<1>1. s \o t \in Seq(S) /\ Len(s \o t) = Len(s) + Len(t)
      /\ Len(s) \in Nat /\ Len(t) \in Nat
  OBVIOUS
<1>2. \A i \in 1 .. Len(s \o t) :
        (s \o t)[i] = IF i <= Len(s) THEN s[i] ELSE t[i - Len(s)]
  OBVIOUS
<1>3. Elements(s \o t) \subseteq Elements(s) \cup Elements(t)
  <2> SUFFICES ASSUME NEW i \in 1 .. Len(s \o t)
               PROVE  (s \o t)[i] \in Elements(s) \cup Elements(t)
    BY DEF Elements
  <2>1. CASE i <= Len(s)
    BY <2>1, <1>1, <1>2 DEF Elements
  <2>2. CASE i > Len(s)
    <3>1. i - Len(s) \in 1 .. Len(t) /\ (s \o t)[i] = t[i - Len(s)]
      BY <2>2, <1>1, <1>2
    <3> QED
      BY <3>1 DEF Elements
  <2> QED
    BY <2>1, <2>2, <1>1
<1>4. Elements(s) \subseteq Elements(s \o t)
  <2> SUFFICES ASSUME NEW i \in 1 .. Len(s)
               PROVE  s[i] \in Elements(s \o t)
    BY DEF Elements
  <2>1. i \in 1 .. Len(s \o t) /\ (s \o t)[i] = s[i]
    BY <1>1, <1>2
  <2> QED
    BY <2>1 DEF Elements
<1>5. Elements(t) \subseteq Elements(s \o t)
  <2> SUFFICES ASSUME NEW i \in 1 .. Len(t)
               PROVE  t[i] \in Elements(s \o t)
    BY DEF Elements
  <2>1. i + Len(s) \in 1 .. Len(s \o t) /\ (s \o t)[i + Len(s)] = t[i]
    BY <1>1, <1>2
  <2> QED
    BY <2>1 DEF Elements
<1> QED
  BY <1>1, <1>3, <1>4, <1>5

\* An order of a set of functions is a sequence of exactly these functions.
LEMMA OrdersAreSeqs ==
  ASSUME NEW S \in SUBSET Func, NEW s \in Orders(S)
  PROVE  s \in Seq(Func) /\ Elements(s) = S
<1>1. IsFiniteSet(S)
  BY FS_Subset, GraphsAssumption
<1>2. Cardinality(S) \in Nat
  BY <1>1, FS_CardinalityType
<1>3. s \in [1 .. Cardinality(S) -> Func]
  BY DEF Orders
<1> QED
  BY <1>2, <1>3 DEF Orders

\* The subtree of F has F, and the callees of whatever it has.
LEMMA SubtreeClosed ==
  ASSUME NEW F \in Func
  PROVE  /\ F \in Subtree(F)
         /\ \A G, H \in Func : G \in Subtree(F) /\ <<G, H>> \in Callees => H \in Subtree(F)
BY Zenon DEF Subtree, Closed

\* A closed set with F in it has the whole subtree of F.
LEMMA SubtreeLeast ==
  ASSUME NEW F \in Func, NEW S \in SUBSET Func, F \in S, Closed(S)
  PROVE  Subtree(F) \subseteq S
BY DEF Subtree

-----------------------------------------------------------------------------
(* The inductive invariant. *)

\* What a gathering walk has found, visited or queued.
Seen == VisitedFs \cup Elements(FQ)

\* Everything seen is in the subtree, the walk started at its root, and no
\* callee of a visited function has been forgotten.
Walked ==
  /\ AncF \in Seen
  /\ Seen \subseteq Subtree(AncF)
  /\ \A e \in Callees : e[1] \in VisitedFs => e[2] \in Seen

WalkInv == walk = "gather" => Walked

\* No pair is in both caches, nor is the pair being traced in one.
CacheInv ==
  /\ CacheExclusive
  /\ walk = "trace" => <<DesF, AncF>> \notin AncCache \cup NegAncCache

IInv == TypeOK /\ WalkInv /\ CacheInv

\* One turn of the loop keeps the types of the queue and of the visited set,
\* and moves the head of the queue to the visited functions.
LEMMA VisitOnStep ==
  ASSUME TypeOK, FQ # <<>>, VisitOn
  PROVE  /\ Head(FQ) \in Func
         /\ FQ' \in Seq(Func)
         /\ VisitedFs' \subseteq Func
         /\ VisitedFs' = VisitedFs \cup {Head(FQ)}
         /\ Elements(FQ) = {Head(FQ)} \cup Elements(Tail(FQ))
         /\ Elements(FQ') = Elements(Tail(FQ)) \cup TryPush(Head(FQ))
<1>1. /\ Head(FQ) \in Func /\ Tail(FQ) \in Seq(Func)
      /\ Elements(FQ) = {Head(FQ)} \cup Elements(Tail(FQ))
  BY ElementsHead DEF TypeOK
<1>2. VisitedFs' = VisitedFs \cup {Head(FQ)}
  BY DEF VisitOn
<1>3. PICK s \in Orders(TryPush(Head(FQ))) : FQ' = Tail(FQ) \o s
  BY DEF VisitOn
<1>4. TryPush(Head(FQ)) \subseteq Func
  BY DEF TryPush
<1>5. s \in Seq(Func) /\ Elements(s) = TryPush(Head(FQ))
  BY <1>4, OrdersAreSeqs
<1>6. FQ' \in Seq(Func) /\ Elements(FQ') = Elements(Tail(FQ)) \cup Elements(s)
  <2>1. /\ Tail(FQ) \o s \in Seq(Func)
        /\ Elements(Tail(FQ) \o s) = Elements(Tail(FQ)) \cup Elements(s)
    <3>1. \A t, u \in Seq(Func) :
            t \o u \in Seq(Func) /\ Elements(t \o u) = Elements(t) \cup Elements(u)
      BY ElementsConcat
    <3> QED
      BY <3>1, <1>1, <1>5
  <2> QED
    BY <2>1, <1>3
<1> QED
  BY <1>1, <1>2, <1>5, <1>6 DEF TypeOK

\* A turn of the loop keeps Walked.
LEMMA VisitKeepsWalked ==
  ASSUME TypeOK, FQ # <<>>, VisitOn, Walked, UNCHANGED <<Callees, AncF>>
  PROVE  Walked'
<1>1. /\ Head(FQ) \in Func
      /\ VisitedFs' = VisitedFs \cup {Head(FQ)}
      /\ Elements(FQ) = {Head(FQ)} \cup Elements(Tail(FQ))
      /\ Elements(FQ') = Elements(Tail(FQ)) \cup TryPush(Head(FQ))
  BY VisitOnStep
<1>2. Seen' = Seen \cup TryPush(Head(FQ))
  BY <1>1 DEF Seen, Elements
<1>3. /\ AncF \in Seen /\ Seen \subseteq Subtree(AncF)
      /\ \A e \in Callees : e[1] \in VisitedFs => e[2] \in Seen
  BY DEF Walked
<1>4. TryPush(Head(FQ)) \subseteq Subtree(AncF)
  <2>1. AncF \in Func /\ TryPush(Head(FQ)) \subseteq Func
    BY DEF TypeOK, TryPush
  <2>2. \A G \in TryPush(Head(FQ)) : <<Head(FQ), G>> \in Callees
    BY DEF TryPush
  <2>3. Head(FQ) \in Subtree(AncF)
    BY <1>1, <1>3 DEF Seen
  <2> QED
    BY <1>1, <2>1, <2>2, <2>3, SubtreeClosed
<1>5. \A e \in Callees : e[1] \in VisitedFs' => e[2] \in Seen'
  <2> SUFFICES ASSUME NEW e \in Callees, e[1] = Head(FQ) PROVE e[2] \in Seen'
    BY <1>1, <1>2, <1>3
  <2>1. e[2] \in Func /\ <<Head(FQ), e[2]>> \in Callees
    BY DEF TypeOK
  <2>2. CASE e[2] \in VisitedFs'
    BY <2>2 DEF Seen
  <2>3. CASE e[2] \notin VisitedFs'
    BY <1>2, <2>1, <2>3 DEF TryPush
  <2> QED
    BY <2>2, <2>3
<1>6. Subtree(AncF)' = Subtree(AncF)
  BY DEF Subtree, Closed
<1> QED
  BY <1>2, <1>3, <1>4, <1>5, <1>6 DEF Walked

\* When the queue is empty, the visited functions are the subtree.
LEMMA WalkedAll ==
  ASSUME TypeOK, Walked, FQ = <<>>
  PROVE  VisitedFs = Subtree(AncF)
<1>1. Seen = VisitedFs
  BY DEF Seen, Elements
<1>2. /\ AncF \in VisitedFs /\ VisitedFs \subseteq Subtree(AncF)
      /\ \A e \in Callees : e[1] \in VisitedFs => e[2] \in VisitedFs
  BY <1>1 DEF Walked
<1>3. Closed(VisitedFs) /\ AncF \in Func /\ VisitedFs \in SUBSET Func
  BY <1>2 DEF Closed, TypeOK
<1> QED
  BY <1>2, <1>3, SubtreeLeast

-----------------------------------------------------------------------------
THEOREM InitInv ==
  Init => IInv
<1> SUFFICES ASSUME Init PROVE IInv
  OBVIOUS
<1>1. TypeOK
  <2>1. Callees \subseteq Func \X Func
    BY GraphsAssumption DEF Init
  <2>2. FQ \in Seq(Func) /\ queries \in 0 .. MaxQueries
    BY GraphsAssumption DEF Init
  <2> QED
    BY <2>1, <2>2 DEF Init, TypeOK
<1>2. WalkInv /\ CacheInv
  BY DEF Init, WalkInv, CacheInv, CacheExclusive
<1> QED
  BY <1>1, <1>2 DEF IInv

\* The step case, one action at a time.
THEOREM StepInv ==
  IInv /\ [Next]_vars => IInv'
<1> SUFFICES ASSUME IInv, [Next]_vars PROVE IInv'
  OBVIOUS
<1> USE GraphsAssumption
<1>0. TypeOK /\ WalkInv /\ CacheInv
  BY DEF IInv
<1>1. ASSUME NEW F \in Func, Gather(F) PROVE IInv'
  <2>1. TypeOK'
    <3>1. FQ' = <<F>> /\ <<F>> \in Seq(Func)
      BY <1>1 DEF Gather, StartWalk
    <3> QED
      BY <1>0, <1>1, <3>1 DEF TypeOK, Gather, StartWalk, graphVars
  <2>2. Seen' = {F} /\ VisitedFs' = {} /\ AncF' = F /\ Callees' = Callees
    BY <1>1 DEF Gather, StartWalk, Seen, Elements, graphVars
  <2>3. WalkInv'
    <3>1. (AncF \in Subtree(AncF))'
      BY <2>2 DEF Subtree
    <3> QED
      BY <2>2, <3>1 DEF WalkInv, Walked
  <2>4. CacheInv'
    BY <1>0, <1>1 DEF CacheInv, CacheExclusive, Gather, StartWalk, graphVars
  <2> QED
    BY <2>1, <2>3, <2>4 DEF IInv
<1>2. CASE GatherVisit
  <2>1. /\ Head(FQ) \in Func /\ FQ' \in Seq(Func) /\ VisitedFs' \subseteq Func
        /\ VisitedFs' = VisitedFs \cup {Head(FQ)}
        /\ Elements(FQ) = {Head(FQ)} \cup Elements(Tail(FQ))
        /\ Elements(FQ') = Elements(Tail(FQ)) \cup TryPush(Head(FQ))
    BY <1>0, <1>2, VisitOnStep DEF GatherVisit
  <2>2. TypeOK'
    BY <1>0, <1>2, <2>1 DEF TypeOK, GatherVisit, graphVars
  <2>4. WalkInv'
    BY <1>0, <1>2, VisitKeepsWalked DEF WalkInv, GatherVisit, graphVars
  <2>5. CacheInv'
    BY <1>0, <1>2 DEF CacheInv, CacheExclusive, GatherVisit, graphVars
  <2> QED
    BY <2>2, <2>4, <2>5 DEF IInv
<1>3. CASE GatherDone
  <2>1. TypeOK'
    BY <1>0, <1>3 DEF TypeOK, GatherDone, graphVars
  <2>2. WalkInv' /\ CacheInv'
    BY <1>0, <1>3 DEF WalkInv, CacheInv, CacheExclusive, GatherDone, graphVars
  <2> QED
    BY <2>1, <2>2 DEF IInv
<1>4. ASSUME NEW q \in Queries, Answer(q[1], q[2]) PROVE IInv'
  <2>1. q[1] \in Func /\ q[2] \in Func
    OBVIOUS
  <2>2. TypeOK'
    BY <1>0, <1>4, <2>1 DEF TypeOK, Answer, MayAsk, graphVars
  <2>3. WalkInv' /\ CacheInv'
    BY <1>0, <1>4 DEF WalkInv, CacheInv, CacheExclusive, Answer, MayAsk, graphVars
  <2> QED
    BY <2>2, <2>3 DEF IInv
<1>5. ASSUME NEW q \in Queries, Trace(q[1], q[2]) PROVE IInv'
  <2>1. q[1] \in Func /\ q[2] \in Func
    OBVIOUS
  <2>2. TypeOK'
    <3>1. FQ' = <<q[1]>> /\ <<q[1]>> \in Seq(Func)
      BY <1>5, <2>1 DEF Trace, StartWalk
    <3>2. queries' \in 0 .. MaxQueries
      BY <1>0, <1>5 DEF TypeOK, Trace, MayAsk
    <3> QED
      BY <1>0, <1>5, <2>1, <3>1, <3>2 DEF TypeOK, Trace, StartWalk, graphVars
  <2>3. WalkInv'
    BY <1>5 DEF WalkInv, Trace, StartWalk
  <2>4. CacheInv'
    <3>1. CacheExclusive'
      BY <1>0, <1>5 DEF CacheInv, CacheExclusive, Trace, graphVars
    <3>2. <<q[2], q[1]>> \notin AncCache \cup NegAncCache
      BY <1>5 DEF Trace, Cached, NegCached
    <3> QED
      BY <1>5, <3>1, <3>2 DEF CacheInv, Trace, StartWalk, graphVars
  <2> QED
    BY <2>2, <2>3, <2>4 DEF IInv
<1>6. CASE TraceVisit
  <2>1. /\ FQ' \in Seq(Func) /\ VisitedFs' \subseteq Func
    BY <1>0, <1>6, VisitOnStep DEF TraceVisit
  <2>2. TypeOK'
    BY <1>0, <1>6, <2>1 DEF TypeOK, TraceVisit, graphVars, Found
  <2>3. WalkInv' /\ CacheInv'
    BY <1>0, <1>6 DEF WalkInv, CacheInv, CacheExclusive, TraceVisit, graphVars
  <2> QED
    BY <2>2, <2>3 DEF IInv
<1>7. CASE TraceSkip
  <2>1. /\ Head(FQ) \in Func /\ Tail(FQ) \in Seq(Func)
    BY <1>0, <1>7, ElementsHead DEF TypeOK, TraceSkip
  <2>2. TypeOK'
    BY <1>0, <1>7, <2>1 DEF TypeOK, TraceSkip, graphVars
  <2>3. WalkInv' /\ CacheInv'
    BY <1>0, <1>7 DEF WalkInv, CacheInv, CacheExclusive, TraceSkip, graphVars
  <2> QED
    BY <2>2, <2>3 DEF IInv
<1>8. CASE TraceDone
  <2>1. TypeOK'
    BY <1>0, <1>8 DEF TypeOK, TraceDone
  <2>2. WalkInv' /\ CacheInv'
    BY <1>0, <1>8 DEF WalkInv, CacheInv, CacheExclusive, TraceDone
  <2> QED
    BY <2>1, <2>2 DEF IInv
<1>9. ASSUME NEW new \in Graphs, NEW F \in Func, UpdateGraph(new, F) PROVE IInv'
  <2>1. TypeOK'
    BY <1>0, <1>9 DEF TypeOK, UpdateGraph, Without, Changed, walkVars
  <2>2. WalkInv' /\ CacheInv'
    BY <1>0, <1>9 DEF WalkInv, CacheInv, CacheExclusive, UpdateGraph, Without, walkVars
  <2> QED
    BY <2>1, <2>2 DEF IInv
<1>10. CASE UNCHANGED vars
  <2>1. TypeOK'
    BY <1>0, <1>10 DEF TypeOK, vars, graphVars, walkVars
  <2>2. WalkInv' /\ CacheInv'
    BY <1>0, <1>10 DEF WalkInv, Walked, CacheInv, CacheExclusive, Seen, Elements, Subtree,
                       Closed, vars, graphVars, walkVars
  <2> QED
    BY <2>1, <2>2 DEF IInv
<1> QED
  BY <1>1, <1>2, <1>3, <1>4, <1>5, <1>6, <1>7, <1>8, <1>9, <1>10 DEF Next, Visit

-----------------------------------------------------------------------------
THEOREM Inductive ==
  Spec => []IInv
BY InitInv, StepInv, PTL DEF Spec

\* Every variable keeps its type.
THEOREM TypeCorrect ==
  Spec => []TypeOK
<1>1. IInv => TypeOK
  BY DEF IInv
<1> QED
  BY <1>1, Inductive, PTL

\* A walk that collects from every function has visited exactly the subtree
\* of its function when its queue is empty, in every call graph: what
\* Aggregate of both analyzers (oper.cc, sub.cc) relies on.
THEOREM GatherCorrect ==
  Spec => []GatherExact
<1>1. IInv => GatherExact
  BY WalkedAll DEF IInv, WalkInv, GatherExact
<1> QED
  BY <1>1, Inductive, PTL

\* A pair is never in both caches, whatever is asked and however the call
\* graph is updated: the note at globalctx.h:78.
THEOREM CachesExclusive ==
  Spec => []CacheExclusive
<1>1. IInv => CacheExclusive
  BY DEF IInv, CacheInv
<1> QED
  BY <1>1, Inductive, PTL

-----------------------------------------------------------------------------
(* IsAncestor, asked as OperationLevelAnalyzer asks it. *)

\* The caches have answers about top-level ancestors only, so the lookups the
\* wrong way round find nothing; what they say of a function that was just
\* loaded is said of the graph as it is, since an update clears the entries of
\* all that it loads.
CachesSound ==
  /\ \A x \in AncCache \cup NegAncCache : x[2] \in TopLV
  /\ \A x \in AncCache : x[1] \in fresh => x[1] \in Subtree(x[2])
  /\ \A x \in NegAncCache : x[1] \in fresh => x[1] \notin Subtree(x[2])

TraceSound ==
  walk = "trace" =>
    Walked /\ AsUsed(AncF, DesF) /\ (is_anc <=> DesF \in VisitedFs) /\ ~answered

AncInv == as_used => CachesSound /\ TraceSound /\ AncestorExact

THEOREM AncInit ==
  Init => AncInv
BY DEF Init, AncInv, CachesSound, TraceSound, AncestorExact

THEOREM AncStep ==
  IInv /\ AncInv /\ [Next]_vars => AncInv'
<1> SUFFICES ASSUME IInv, AncInv, [Next]_vars, as_used' PROVE (CachesSound /\ TraceSound /\ AncestorExact)'
  BY DEF AncInv
<1> USE GraphsAssumption
<1>a. TypeOK
  BY DEF IInv
<1>1. ASSUME NEW F \in Func, Gather(F) PROVE (CachesSound /\ TraceSound /\ AncestorExact)'
  <2>1. UNCHANGED <<Callees, AncCache, NegAncCache, fresh, as_used>> /\ ~answered' /\ walk' = "gather"
    BY <1>1, Zenon DEF Gather, StartWalk, graphVars
  <2>2. CachesSound
    BY <2>1 DEF AncInv
  <2> QED
    BY <2>1, <2>2 DEF CachesSound, TraceSound, AncestorExact, Subtree, Closed
<1>2. CASE GatherVisit \/ GatherDone
  <2>1. /\ UNCHANGED <<Callees, AncCache, NegAncCache, fresh, as_used, AncF, DesF, is_anc, answered>>
        /\ walk' # "trace"
    BY <1>2 DEF GatherVisit, GatherDone, graphVars
  <2>2. CachesSound /\ AncestorExact
    BY <2>1 DEF AncInv
  <2> QED
    BY <2>1, <2>2 DEF CachesSound, TraceSound, AncestorExact, Subtree, Closed
<1>3. ASSUME NEW q \in Queries, Answer(q[1], q[2]) PROVE (CachesSound /\ TraceSound /\ AncestorExact)'
  <2> DEFINE F == q[1]
             G == q[2]
  <2>1. F \in Func /\ G \in Func
    OBVIOUS
  <2>2. /\ UNCHANGED <<Callees, AncCache, NegAncCache, fresh>>
        /\ as_used /\ AsUsed(F, G) /\ walk' = "none"
        /\ F = G \/ Cached(F, G) \/ NegCached(F, G)
        /\ AncF' = F /\ DesF' = G /\ is_anc' = (F # G /\ Cached(F, G))
    BY <1>3 DEF Answer, MayAsk, graphVars
  <2>3. CachesSound
    BY <2>2 DEF AncInv
  <2>4. F # G /\ G \in fresh
    BY <2>2 DEF AsUsed
  <2>5. Cached(F, G) => G \in Subtree(F)
    BY <2>3, <2>4 DEF CachesSound, Cached
  <2>6. NegCached(F, G) => G \notin Subtree(F)
    BY <2>3, <2>4 DEF CachesSound, NegCached
  <2>7. Subtree(F)' = Subtree(F)
    BY <2>2 DEF Subtree, Closed
  <2>8. is_anc' = (F # G /\ G \in Subtree(F))
    BY <2>2, <2>4, <2>5, <2>6, Zenon
  <2>9. AncestorExact'
    BY <2>2, <2>7, <2>8 DEF AncestorExact
  <2>10. CachesSound'
    BY <2>2, <2>3 DEF CachesSound, Subtree, Closed
  <2> QED
    BY <2>2, <2>9, <2>10 DEF TraceSound
<1>4. ASSUME NEW q \in Queries, Trace(q[1], q[2]) PROVE (CachesSound /\ TraceSound /\ AncestorExact)'
  <2>1. /\ UNCHANGED <<Callees, AncCache, NegAncCache, fresh>>
        /\ as_used /\ AsUsed(q[1], q[2]) /\ ~answered'
        /\ AncF' = q[1] /\ DesF' = q[2] /\ is_anc' = FALSE
        /\ FQ' = <<q[1]>> /\ VisitedFs' = {}
    BY <1>4 DEF Trace, StartWalk, graphVars
  <2>2. CachesSound'
    BY <2>1 DEF AncInv, CachesSound, Subtree, Closed
  <2>3. Seen' = {q[1]} /\ q[1] \in Func
    BY <2>1 DEF Seen, Elements
  <2>4. (AncF \in Subtree(AncF))'
    BY <2>1, <2>3 DEF Subtree
  <2>5. Walked'
    BY <2>1, <2>3, <2>4 DEF Walked
  <2> QED
    BY <2>1, <2>2, <2>5 DEF TraceSound, AncestorExact, AsUsed
<1>5. CASE TraceVisit
  <2>1. /\ walk = "trace" /\ FQ # <<>> /\ VisitOn
        /\ UNCHANGED <<Callees, AncCache, NegAncCache, fresh, as_used, AncF, DesF, walk, answered>>
        /\ is_anc' = (is_anc \/ Found(Head(FQ)))
    BY <1>5 DEF TraceVisit, graphVars
  <2>2. /\ CachesSound /\ Walked /\ AsUsed(AncF, DesF)
        /\ (is_anc <=> DesF \in VisitedFs) /\ ~answered
    BY <2>1 DEF AncInv, TraceSound
  <2>3. ~IsCachedAnc(Head(FQ), DesF)
    BY <2>2 DEF CachesSound, AsUsed, IsCachedAnc
  <2>4. VisitedFs' = VisitedFs \cup {Head(FQ)}
    BY <2>1 DEF VisitOn
  <2>5. Walked'
    BY <1>a, <2>1, <2>2, VisitKeepsWalked
  <2>6. is_anc' <=> DesF \in VisitedFs'
    BY <2>1, <2>2, <2>3, <2>4 DEF Found
  <2>7. CachesSound'
    BY <2>1, <2>2 DEF CachesSound, Subtree, Closed
  <2> QED
    BY <2>1, <2>2, <2>5, <2>6, <2>7 DEF TraceSound, AsUsed, AncestorExact
<1>6. CASE TraceSkip
  <2>1. CachesSound /\ AsUsed(AncF, DesF)
    BY <1>6 DEF TraceSkip, AncInv, TraceSound
  <2>2. ~IsCachedNegAnc(Head(FQ), DesF)
    BY <2>1 DEF CachesSound, AsUsed, IsCachedNegAnc
  <2> QED
    BY <1>6, <2>2 DEF TraceSkip
<1>7. CASE TraceDone
  <2>1. /\ walk = "trace" /\ FQ = <<>> /\ walk' = "none"
        /\ UNCHANGED <<Callees, fresh, AncF, DesF, is_anc, as_used>>
        /\ AncCache' = AncCache \cup (IF is_anc THEN {<<DesF, AncF>>} ELSE {})
        /\ NegAncCache' = NegAncCache \cup (IF is_anc THEN {} ELSE {<<DesF, AncF>>})
    BY <1>7 DEF TraceDone
  <2>2. CachesSound /\ Walked /\ AsUsed(AncF, DesF) /\ (is_anc <=> DesF \in VisitedFs)
    BY <2>1 DEF AncInv, TraceSound
  <2>3. VisitedFs = Subtree(AncF)
    BY <1>a, <2>1, <2>2, WalkedAll
  <2>4. AncF \in TopLV /\ AncF # DesF
    BY <2>2 DEF AsUsed
  <2>5. \A F \in Func : Subtree(F)' = Subtree(F)
    BY <2>1 DEF Subtree, Closed
  <2>6. AncestorExact'
    BY <1>a, <2>1, <2>2, <2>3, <2>4, <2>5 DEF AncestorExact, TypeOK
  <2>7. (\A x \in AncCache \cup NegAncCache : x[2] \in TopLV)'
    BY <2>1, <2>2, <2>4 DEF CachesSound
  <2>8. (\A x \in AncCache : x[1] \in fresh => x[1] \in Subtree(x[2]))'
    BY <1>a, <2>1, <2>2, <2>3, <2>5 DEF CachesSound, TypeOK
  <2>9. (\A x \in NegAncCache : x[1] \in fresh => x[1] \notin Subtree(x[2]))'
    BY <1>a, <2>1, <2>2, <2>3, <2>5 DEF CachesSound, TypeOK
  <2> QED
    BY <2>1, <2>6, <2>7, <2>8, <2>9 DEF CachesSound, TraceSound
<1>8. ASSUME NEW new \in Graphs, NEW F \in Func, UpdateGraph(new, F)
      PROVE  (CachesSound /\ TraceSound /\ AncestorExact)'
  <2>1. /\ walk' = "none" /\ ~answered' /\ as_used
        /\ AncCache' \subseteq AncCache /\ NegAncCache' \subseteq NegAncCache
        /\ \A x \in AncCache' \cup NegAncCache' : x[1] \notin fresh'
    BY <1>8 DEF UpdateGraph, Without, Listed, walkVars
  <2> QED
    BY <2>1 DEF AncInv, CachesSound, TraceSound, AncestorExact
<1>9. CASE UNCHANGED vars
  <2>1. UNCHANGED <<Callees, AncCache, NegAncCache, fresh, FQ, VisitedFs, AncF, DesF, is_anc,
                    walk, answered, as_used>>
    BY <1>9 DEF vars, graphVars, walkVars
  <2>2. CachesSound /\ TraceSound /\ AncestorExact
    BY <2>1 DEF AncInv
  <2>3. Subtree(AncF)' = Subtree(AncF) /\ Seen' = Seen
    BY <2>1 DEF Seen, Elements, Subtree, Closed
  <2>4. CachesSound'
    BY <2>1, <2>2 DEF CachesSound, Subtree, Closed
  <2>5. TraceSound'
    BY <2>1, <2>2, <2>3 DEF TraceSound, Walked, AsUsed
  <2> QED
    BY <2>1, <2>2, <2>3, <2>4, <2>5 DEF AncestorExact
<1> QED
  BY <1>1, <1>2, <1>3, <1>4, <1>5, <1>6, <1>7, <1>8, <1>9 DEF Next, Visit

\* In every call graph and after any updates, IsAncestor answers what
\* OperationLevelAnalyzer::Update asks (oper.cc:78-87) for the graph as it is.
THEOREM AncestorCorrect ==
  Spec => []AncestorExact
<1>1. AncInv => AncestorExact
  BY DEF AncInv, AncestorExact
<1>2. Spec => [](IInv /\ AncInv)
  BY InitInv, StepInv, AncInit, AncStep, PTL DEF Spec
<1> QED
  BY <1>1, <1>2, PTL
=============================================================================
