----------------------------- MODULE DiffLines -----------------------------
(***************************************************************************)
(* Line numbers before and after a commit.  A diff of a file is the set of *)
(* deleted lines, numbered as before, and the set of added lines, numbered *)
(* as after; the lines in neither set are the same lines in the same order.*)
(***************************************************************************)
EXTENDS Integers, FiniteSets

\* The rank of line l among the lines that are not in S.
Rank(S, l) == Cardinality((1 .. l) \ S)

\* What _MapPostToPreLine (analman.cc) returns for line l, as module LineMap
\* shows of its loops: the surviving line of the same rank, 0 if none
\* precedes l.  An added line is mapped like the last unchanged line above.
MapPostToPreLine(add, del, l) ==
  LET n == Rank(add, l)
  IN  IF n = 0 THEN 0
      ELSE CHOOSE r \in 1 .. (n + Cardinality(del)) : r \notin del /\ Rank(del, r) = n
=============================================================================
