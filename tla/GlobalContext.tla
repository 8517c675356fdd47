---------------------------- MODULE GlobalContext ----------------------------
(***************************************************************************)
(* The walks of the call graph in GlobalContext (src/src/globalctx.cc,     *)
(* src/include/cisa/globalctx.h): VisitSubtreeBFS with the actor of the    *)
(* analyzers' Aggregate, which collects from every function, and with the  *)
(* actor of IsAncestor, which consults and fills two caches.  Between two  *)
(* walks the call graph may be updated; what TypeDive::UpdateModules       *)
(* (src/src/callgraph/TypeDive.cc) then does to the caches is modelled     *)
(* with one function per module.                                           *)
(***************************************************************************)
EXTENDS Integers, Sequences, FiniteSets

CONSTANTS
  Func,       \* functions
  Graphs,     \* the call graphs that versions of the program have
  Queries,    \* the pairs <<AncF, DesF>> that IsAncestor is asked about
  TopLV,      \* the functions for which OperationLevelAnalyzer::IsTopLV holds
  MaxQueries  \* bound: calls of IsAncestor

ASSUME GraphsAssumption ==
  /\ IsFiniteSet(Func)
  /\ Graphs \subseteq SUBSET (Func \X Func)
  /\ Queries \subseteq Func \X Func
  /\ TopLV \subseteq Func
  /\ MaxQueries \in Nat

VARIABLES
  Callees,      \* pairs <<caller, callee>>
  AncCache,     \* pairs <<DesF, AncF>>: AncF is in AncCache[DesF]
  NegAncCache,  \* the same for NegAncCache
  fresh,        \* the functions that the last update loaded
  FQ,           \* the queue of the walk
  VisitedFs,    \* the functions the actor was called with
  AncF, DesF,   \* arguments
  is_anc,       \* the local of IsAncestor, then its result
  walk,         \* "none", "gather", "trace"
  answered,     \* a call of IsAncestor has just returned
  queries,      \* calls of IsAncestor so far
  as_used       \* all of them as OperationLevelAnalyzer makes them, see AsUsed

graphVars == <<Callees, AncCache, NegAncCache, fresh>>
walkVars  == <<FQ, VisitedFs, is_anc, walk>>
vars == <<graphVars, walkVars, AncF, DesF, answered, queries, as_used>>

Elements(s) == {s[i] : i \in 1 .. Len(s)}

\* A std::set of pointers is iterated in an arbitrary order.
Orders(S) == {s \in [1 .. Cardinality(S) -> S] : Elements(s) = S}

TypeOK ==
  /\ Callees \subseteq Func \X Func
  /\ AncCache \subseteq Func \X Func /\ NegAncCache \subseteq Func \X Func
  /\ fresh \subseteq Func
  /\ FQ \in Seq(Func)
  /\ VisitedFs \subseteq Func
  /\ AncF \in Func /\ DesF \in Func
  /\ is_anc \in BOOLEAN /\ answered \in BOOLEAN
  /\ walk \in {"none", "gather", "trace"}
  /\ walk = "none" => FQ = <<>>
  /\ queries \in 0 .. MaxQueries /\ as_used \in BOOLEAN

Init ==
  /\ Callees \in Graphs
  /\ AncCache = {} /\ NegAncCache = {}
  /\ fresh = Func
  /\ FQ = <<>> /\ VisitedFs = {}
  /\ AncF \in Func /\ DesF = AncF
  /\ is_anc = FALSE
  /\ walk = "none"
  /\ answered = FALSE
  /\ queries = 0
  /\ as_used = TRUE

-----------------------------------------------------------------------------
(* VisitSubtreeBFS *)

StartWalk(F, w) ==
  /\ FQ' = <<F>>
  /\ VisitedFs' = {}
  /\ AncF' = F
  /\ is_anc' = FALSE
  /\ walk' = w

\* A slip: the callers instead of the callees.
TryPushUp(F) == {G \in Func : <<G, F>> \in Callees /\ G \notin VisitedFs'}

\* TryPushToFQ for the callees of F.  A function in the queue that was not
\* visited yet is pushed again.
TryPush(F) == {G \in Func : <<F, G>> \in Callees /\ G \notin VisitedFs'}

\* One turn of the loop in which the actor does not return SKIP.  STOP only
\* leaves the switch, so it is the same as NEXT.
VisitOn ==
  /\ VisitedFs' = VisitedFs \cup {Head(FQ)}
  /\ \E s \in Orders(TryPush(Head(FQ))) : FQ' = Tail(FQ) \o s

Gather(F) ==
  /\ walk = "none"
  /\ StartWalk(F, "gather")
  /\ DesF' = F
  /\ answered' = FALSE
  /\ UNCHANGED <<graphVars, queries, as_used>>

GatherVisit ==
  /\ walk = "gather"
  /\ FQ # <<>>
  /\ VisitOn
  /\ UNCHANGED <<graphVars, AncF, DesF, is_anc, walk, answered, queries, as_used>>

\* A slip: the walk stops before the queue is empty.
GatherStop ==
  /\ walk = "gather"
  /\ Len(FQ) <= 1
  /\ walk' = "none"
  /\ UNCHANGED <<graphVars, FQ, VisitedFs, AncF, DesF, is_anc, answered, queries, as_used>>

GatherDone ==
  /\ walk = "gather"
  /\ FQ = <<>>
  /\ walk' = "none"
  /\ UNCHANGED <<graphVars, FQ, VisitedFs, AncF, DesF, is_anc, answered, queries, as_used>>

-----------------------------------------------------------------------------
(* IsAncestor *)

Cached(F, G)    == <<G, F>> \in AncCache       \* AncCacheDF
NegCached(F, G) == <<G, F>> \in NegAncCache    \* NegAncCacheDF

\* IsAncestor(F, G) may be called.
MayAsk(F, G) ==
  /\ walk = "none"
  /\ queries < MaxQueries

\* OperationLevelAnalyzer::Update asks whether a top-level function is an
\* ancestor of the one it updates, which was loaded with the last update.
AsUsed(F, G) == F \in TopLV /\ G \notin TopLV /\ G \in fresh

\* "if (AncF == DesF) return false;" and the cached answers.
Answer(F, G) ==
  /\ MayAsk(F, G)
  /\ F = G \/ Cached(F, G) \/ NegCached(F, G)
  /\ AncF' = F /\ DesF' = G
  /\ is_anc' = (F # G /\ Cached(F, G))
  /\ answered' = TRUE
  /\ queries' = queries + 1
  /\ as_used' = (as_used /\ AsUsed(F, G))
  /\ UNCHANGED <<graphVars, FQ, VisitedFs, walk>>

\* "Non-cached case: trace the callgraph to figure it out."
Trace(F, G) ==
  /\ MayAsk(F, G)
  /\ F # G /\ ~Cached(F, G) /\ ~NegCached(F, G)
  /\ StartWalk(F, "trace")
  /\ DesF' = G
  /\ answered' = FALSE
  /\ queries' = queries + 1
  /\ as_used' = (as_used /\ AsUsed(F, G))
  /\ UNCHANGED graphVars

\* IsCachedAnc and IsCachedNegAnc look for DesF under CurF, while the caches
\* hold ancestors under their descendant.
IsCachedAnc(F, G)    == <<F, G>> \in AncCache
IsCachedNegAnc(F, G) == <<F, G>> \in NegAncCache

Found(F) == F = DesF \/ IsCachedAnc(F, DesF)

TraceVisit ==
  /\ walk = "trace"
  /\ FQ # <<>>
  /\ Found(Head(FQ)) \/ ~IsCachedNegAnc(Head(FQ), DesF)
  /\ VisitOn
  /\ is_anc' = (is_anc \/ Found(Head(FQ)))
  /\ UNCHANGED <<graphVars, AncF, DesF, walk, answered, queries, as_used>>

\* A slip: SKIP leaves the function in the queue.
TraceSkipNoPop ==
  /\ walk = "trace"
  /\ FQ # <<>>
  /\ ~Found(Head(FQ)) /\ IsCachedNegAnc(Head(FQ), DesF)
  /\ VisitedFs' = VisitedFs \cup {Head(FQ)}
  /\ UNCHANGED <<graphVars, FQ, AncF, DesF, is_anc, walk, answered, queries, as_used>>

TraceSkip ==
  /\ walk = "trace"
  /\ FQ # <<>>
  /\ ~Found(Head(FQ)) /\ IsCachedNegAnc(Head(FQ), DesF)
  /\ VisitedFs' = VisitedFs \cup {Head(FQ)}
  /\ FQ' = Tail(FQ)
  /\ UNCHANGED <<graphVars, AncF, DesF, is_anc, walk, answered, queries, as_used>>

\* A slip: the negative cache is filled in any case.
TraceDoneBoth ==
  /\ walk = "trace"
  /\ FQ = <<>>
  /\ AncCache' = AncCache \cup (IF is_anc THEN {<<DesF, AncF>>} ELSE {})
  /\ NegAncCache' = NegAncCache \cup {<<DesF, AncF>>}
  /\ walk' = "none"
  /\ answered' = TRUE
  /\ UNCHANGED <<Callees, fresh, FQ, VisitedFs, AncF, DesF, is_anc, queries, as_used>>

TraceDone ==
  /\ walk = "trace"
  /\ FQ = <<>>
  /\ AncCache' = AncCache \cup (IF is_anc THEN {<<DesF, AncF>>} ELSE {})
  /\ NegAncCache' = NegAncCache \cup (IF is_anc THEN {} ELSE {<<DesF, AncF>>})
  /\ walk' = "none"
  /\ answered' = TRUE
  /\ UNCHANGED <<Callees, fresh, FQ, VisitedFs, AncF, DesF, is_anc, queries, as_used>>

-----------------------------------------------------------------------------
(* TypeDive::UpdateModules: the functions of the listed modules, those     *)
(* that are reloaded and their direct callers, leave both caches on both   *)
(* sides.  F is a function whose module was reloaded in any case.          *)

Changed(new) == {F \in Func : {e \in Callees : e[1] = F} # {e \in new : e[1] = F}}
Listed(S)    == S \cup {F \in Func : \E G \in S : <<F, G>> \in Callees}

\* A slip: the entries under a reloaded function are left in the cache.
WithoutAncestors(cache, list) == {x \in cache : x[2] \notin list}

Without(cache, list) == {x \in cache : x[1] \notin list /\ x[2] \notin list}

UpdateGraph(new, F) ==
  /\ walk = "none"
  /\ Callees' = new
  /\ fresh' = Changed(new) \cup {F}
  /\ AncCache' = Without(AncCache, Listed(fresh'))
  /\ NegAncCache' = Without(NegAncCache, Listed(fresh'))
  /\ answered' = FALSE
  /\ UNCHANGED <<walkVars, AncF, DesF, queries, as_used>>

-----------------------------------------------------------------------------
Visit == GatherVisit \/ TraceVisit \/ TraceSkip

Next ==
  \/ \E F \in Func : Gather(F)
  \/ \E q \in Queries : Answer(q[1], q[2]) \/ Trace(q[1], q[2])
  \/ Visit
  \/ GatherDone
  \/ TraceDone
  \/ \E new \in Graphs, F \in Func : UpdateGraph(new, F)

Spec == Init /\ [][Next]_vars

\* A walk, once started, runs to its end.
FairSpec == Spec /\ WF_vars(Visit)

-----------------------------------------------------------------------------
(* Properties *)

Closed(S) == \A e \in Callees : e[1] \in S => e[2] \in S

\* F and what it reaches: the functions in every closed set that F is in.
Subtree(F) == {G \in Func : \A S \in SUBSET Func : F \in S /\ Closed(S) => G \in S}

\* A walk whose actor returns NEXT has visited exactly the subtree of its
\* function when it ends, so Aggregate collects from every function in
\* reach and from no other, in a graph with cycles and shared callees too.
GatherExact ==
  walk = "gather" /\ FQ = <<>> => VisitedFs = Subtree(AncF)

\* "Check if "AncF" is the ancestor of "DesF"." (globalctx.cc:114): asked as
\* OperationLevelAnalyzer asks it, IsAncestor answers for the graph as it
\* is, whatever its caches went through, although it looks itself up in
\* them the other way round (globalctx.cc:127-137).
AncestorExact ==
  answered /\ as_used => is_anc = (AncF # DesF /\ DesF \in Subtree(AncF))

\* "If cached, a (AncF, DesF) pair should be either in "CallCache" or
\* "NegCallCache"" (globalctx.h:78): never in both.
CacheExclusive == AncCache \cap NegAncCache = {}

\* Every walk ends, although a function may be queued once for each of its
\* callers and then again.
WalksEnd == walk # "none" ~> FQ = <<>>
=============================================================================
