----------------------------- MODULE MCFrontend -----------------------------
(* Three sources in two directories and a header in one of its own; every  *)
(* history of three commits over the trees below, linear or merging.       *)
EXTENDS Frontend

PathsValue == <<"d/a.c", "d/b.c", "e/c.c", "i/h.h">>
SrcValue   == {"d/a.c", "d/b.c", "e/c.c"}
DirOfValue == [f \in {"d/a.c", "d/b.c", "e/c.c", "i/h.h"} |->
                 CASE f \in {"d/a.c", "d/b.c"} -> "d" [] f = "e/c.c" -> "e" [] f = "i/h.h" -> "i"]

\* v1 and v2 have hunks apart from each other; x does not compile; o is empty.
VersionValue == {"v1", "v2", "x", "o"}
EditsValue ==
  [v, w \in VersionValue \cup {"none"} |->
     CASE v = "v1" /\ w = "v2" -> <<" ", "-", ".", "+", " ">>
       [] v = "v2" /\ w = "v1" -> <<" ", "+", ".", "-", " ">>
       [] w = "x" /\ v \in {"v1", "v2"} -> <<"-", "+", " ", "+">>
       [] v = "x" /\ w \in {"v1", "v2"} -> <<"-", "+", " ", "-">>
       [] v \in {"none", "o"} /\ w \in {"v1", "v2", "x"} -> <<"+", "+">>
       [] w \in {"none", "o"} /\ v \in {"v1", "v2", "x"} -> <<"-", "-">>
       [] OTHER -> <<>>]

T(a, b, c, h) == [f \in File |-> CASE f = "d/a.c" -> a [] f = "d/b.c" -> b
                                   [] f = "e/c.c" -> c [] f = "i/h.h" -> h]
TreesValue ==
  {T("v1", "v1", "none", "v1"), T("v2", "v1", "none", "none"), T("x", "v2", "v1", "v1"),
   T("none", "v1", "v2", "o"), T("none", "none", "v1", "v2"), T("v1", "none", "x", "v2")}
=============================================================================
