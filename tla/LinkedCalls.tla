---------------------------- MODULE LinkedCalls ----------------------------
(***************************************************************************)
(* What an analyzer may rely on when it asks GlobalContext for callees and *)
(* callers: while no update is running, the direct calls it is shown are   *)
(* exactly those a linker would resolve in the program as it is now.       *)
(* How the program came to be, module by module, leaves no trace.          *)
(* Functions that make indirect calls are left out: their callees are an   *)
(* approximation.                                                          *)
(***************************************************************************)
CONSTANTS Path, NoBody, NoAnswer,
          Programs    \* the programs the source files can make up

VARIABLES program, answer

Loaded(prog) == {p \in Path : prog[p] # NoBody}

Exports(prog, n) == {p \in Loaded(prog) : n \in prog[p].defs \ prog[p].statics}

\* The functions a call of n in p reaches.
Resolve(prog, p, n) ==
  IF n \in prog[p].defs THEN {<<p, n>>}
  ELSE {<<q, n>> : q \in Exports(prog, n)}

\* What a linker asks for: no name is exported twice, and every call has a
\* definition to go to.
Linked(prog) ==
  /\ \A p, q \in Loaded(prog) : \A n \in prog[p].defs :
       p \in Exports(prog, n) /\ q \in Exports(prog, n) => p = q
  /\ \A p \in Loaded(prog) : \A e \in prog[p].direct :
       e[2] \in prog[p].defs \/ Exports(prog, e[2]) # {}

Edges(prog) ==
  UNION {UNION {{<<<<p, e[1]>>, d>> : d \in Resolve(prog, p, e[2])} :
                  e \in {x \in prog[p].direct :
                           \A i \in prog[p].icalls : i[1] # x[1]}} :
           p \in Loaded(prog)}

Init == /\ program = [p \in Path |-> NoBody]
        /\ answer = [callees |-> {}, callers |-> {}]

\* A commit changes the program; the analysis of it starts.
Change == /\ answer # NoAnswer
          /\ program' \in Programs
          /\ Linked(program')
          /\ answer' = NoAnswer

\* The analysis is over.
Answer == /\ answer = NoAnswer
          /\ answer' = [callees |-> Edges(program), callers |-> Edges(program)]
          /\ UNCHANGED program

Next == Change \/ Answer

Safety == Init /\ [][Next]_<<program, answer>>

\* Every change is followed by an answer: WF(Answer), which is all it takes
\* as Answer stays enabled until it happens.
Answered == (answer = NoAnswer) ~> (answer # NoAnswer)

Spec == Safety /\ Answered
=============================================================================
