-------------------------- MODULE CallGraphLinked --------------------------
(***************************************************************************)
(* CallGraph implements LinkedCalls for programs that link at every        *)
(* commit.  Both parts of the hypothesis are needed.  A module that calls  *)
(* a function with no definition is registered in CallerPaths under its    *)
(* own path, and is not analysed again when a commit brings the            *)
(* definition.  When one of two modules that export a name drops it, the   *)
(* entry in GlobalFuncMap is erased, and the other is not scanned again.   *)
(***************************************************************************)
EXTENDS CallGraph

CONSTANT NoAnswer

\* A function by its file and name.
Function == Path \X Name

ASSUME NoAnswerAssumption ==
  NoAnswer \notin [callees : SUBSET ((Function \cup {NoFunc}) \X (Function \cup {NoFunc})),
                   callers : SUBSET ((Function \cup {NoFunc}) \X (Function \cup {NoFunc}))]

\* A live function by its file and name; freed ones have no name.
NameOf(f) == IF f \in LiveFuncs THEN <<f.path, f.name>> ELSE NoFunc

Named(E) == {<<NameOf(e[1]), NameOf(e[2])>> : e \in E}

\* What GetCallees and GetCallers tell of the functions that make direct
\* calls only.
Shown == [callees |-> Named({e \in Callees : PlainCaller(e[1])}),
          callers |-> Named({e \in Callers : PlainCaller(e[1]) /\ e[2] \in LiveDefs})]

L == INSTANCE LinkedCalls WITH
       program  <- body,
       answer   <- IF phase \in {"start", "ready"} THEN Shown ELSE NoAnswer,
       Programs <- Contents(Path)

LinkedNext == Next /\ L!Linked(body')

LinkedSafety == Init /\ [][LinkedNext]_vars

\* run() is straight-line code: once called it goes on to its end.
LinkedSpec == LinkedSafety /\ WF_vars(Run)

\* Between two updates the incremental graph is the graph of the current
\* program, in both directions.
ImplementsLinkedCalls == L!Safety

\* Every update comes to that point.
UpdatesEnd == L!Answered
=============================================================================
