------------------------------ MODULE LineMap ------------------------------
(***************************************************************************)
(* The two loops of AnalyzerManager::_MapPostToPreLine                     *)
(* (src/src/analman.cc): where the line post_line of the new version of a  *)
(* file was in the old one, given the lines that the commit deleted and    *)
(* added.  _CorrectChanges relies on it to find the previous version of a  *)
(* function.                                                               *)
(***************************************************************************)
EXTENDS DiffLines, Sequences

CONSTANT Lines      \* bound: lines are numbered 1 .. Lines

ASSUME LinesAssumption == Lines \in Nat

\* "lines should have been sorted in ascending order"
Ascending(s) == \A i, j \in 1 .. Len(s) : i < j => s[i] < s[j]

VARIABLES
  add_lines, del_lines, post_line,    \* the arguments
  n_unchanged, pre_line,              \* the locals
  i,                                  \* the range-for's position
  pc                                  \* "add", "del": the loops; "done"

vars == <<add_lines, del_lines, post_line, n_unchanged, pre_line, i, pc>>

LineLists == UNION {{s \in [1 .. n -> 1 .. Lines] : Ascending(s)} : n \in 0 .. Lines}

TypeOK ==
  /\ add_lines \in Seq(1 .. Lines) /\ Ascending(add_lines)
  /\ del_lines \in Seq(1 .. Lines) /\ Ascending(del_lines)
  /\ post_line \in 1 .. Lines
  /\ n_unchanged \in Int /\ pre_line \in Nat
  /\ i \in Nat \ {0}
  /\ pc \in {"add", "del", "done"}

Init ==
  /\ add_lines \in LineLists
  /\ del_lines \in LineLists
  /\ post_line \in 1 .. Lines
  /\ n_unchanged = post_line
  /\ pre_line = 0
  /\ i = 1
  /\ pc = "add"

\* Slips: no break, and a break at post_line itself.
AddAlways    == i <= Len(add_lines)
AddStrictly  == i <= Len(add_lines) /\ add_lines[i] < post_line

AddInFront == i <= Len(add_lines) /\ add_lines[i] <= post_line

SkipAdded ==
  /\ pc = "add"
  /\ AddInFront
  /\ n_unchanged' = n_unchanged - 1
  /\ i' = i + 1
  /\ UNCHANGED <<add_lines, del_lines, post_line, pre_line, pc>>

AddedDone ==
  /\ pc = "add"
  /\ ~AddInFront
  /\ pc' = "del"
  /\ i' = 1
  /\ UNCHANGED <<add_lines, del_lines, post_line, n_unchanged, pre_line>>

\* new_nn, for the deleted line the loop looks at
NewNN == n_unchanged - (del_lines[i] - pre_line - 1)

\* A slip: the break comes one line late.
DelLate == i <= Len(del_lines) /\ NewNN >= 0

DelInFront == i <= Len(del_lines) /\ NewNN > 0

SkipDeleted ==
  /\ pc = "del"
  /\ DelInFront
  /\ pre_line' = del_lines[i]
  /\ n_unchanged' = NewNN
  /\ i' = i + 1
  /\ UNCHANGED <<add_lines, del_lines, post_line, pc>>

DeletedDone ==
  /\ pc = "del"
  /\ ~DelInFront
  /\ pre_line' = pre_line + n_unchanged
  /\ pc' = "done"
  /\ UNCHANGED <<add_lines, del_lines, post_line, n_unchanged, i>>

Next == SkipAdded \/ AddedDone \/ SkipDeleted \/ DeletedDone

Spec == Init /\ [][Next]_vars

-----------------------------------------------------------------------------
\* The elements of a sequence of lines.
ElementsOf(s) == {s[j] : j \in 1 .. Len(s)}

\* The loops return the old line of the same rank, so an unchanged line is
\* mapped to itself and lines keep their order.
MapsToSurvivor ==
  pc = "done" =>
    pre_line = MapPostToPreLine(ElementsOf(add_lines), ElementsOf(del_lines), post_line)

\* The same without counting: k added lines are in front of post_line, m
\* deleted lines in front of the result and none is on it, and both are at
\* the same distance from the start once those are left out.
SameRank ==
  pc = "done" =>
    \E k \in 0 .. Len(add_lines), m \in 0 .. Len(del_lines) :
      /\ \A j \in 1 .. Len(add_lines) : add_lines[j] <= post_line <=> j <= k
      /\ \A j \in 1 .. Len(del_lines) :
           /\ del_lines[j] < pre_line <=> j <= m
           /\ del_lines[j] # pre_line
      /\ pre_line - m = post_line - k
=============================================================================
