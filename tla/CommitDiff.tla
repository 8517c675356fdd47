----------------------------- MODULE CommitDiff -----------------------------
(***************************************************************************)
(* What "git show" prints of a commit and what GetChangeInfos of           *)
(* src/scripts/comanal.py reads from it.  The two loops of the script,     *)
(* which take the lines from one shared list, are one pass over the lines: *)
(* "paths" is the loop of _GetPathPair, "lines" that of                    *)
(* _GetChangedLinesPair.                                                   *)
(***************************************************************************)
EXTENDS Integers, Sequences, FiniteSets, SequencesExt

\* An edit of a file has one mark for each line: deleted, added, printed as
\* context, or left out between two hunks.
Mark == {"-", "+", " ", "."}

\* An empty path and None alike: the script only asks whether there is one.
NoPath == ""

-----------------------------------------------------------------------------
(* The output of git. *)

\* A section of the output: one file, created (pre = NoPath), deleted
\* (post = NoPath), changed or renamed, perhaps with a new mode.
Section(pre, post, mode, edits) ==
  [pre |-> pre, post |-> post, mode |-> mode, edits |-> edits]

HasHunk(s) == \E i \in DOMAIN s.edits : s.edits[i] # "."

\* How many lines the file had before (after) the marks up to the i-th.
OldLine(edits, i) == Cardinality({j \in 1 .. i : edits[j] # "+"})
NewLine(edits, i) == Cardinality({j \in 1 .. i : edits[j] # "-"})

\* The i-th line as printed: a hunk begins with its line numbers.
Printed(edits, i) ==
  LET begins == i = 1 \/ edits[i - 1] = "."
      header == [k |-> "@@", pre  |-> OldLine(edits, i - 1) + 1,
                             post |-> NewLine(edits, i - 1) + 1]
  IN  IF edits[i] = "." THEN <<>>
      ELSE (IF begins THEN <<header>> ELSE <<>>) \o <<[k |-> edits[i]]>>

\* The line "diff --git" names both paths as one if there is only one.
PrintSection(s) ==
  LET first == IF s.pre = NoPath THEN s.post ELSE s.pre
      last  == IF s.post = NoPath THEN s.pre ELSE s.post
      extended == IF s.pre = NoPath \/ s.mode THEN <<[k |-> "new"]>>
                  ELSE IF s.post = NoPath THEN <<[k |-> "deleted"]>> ELSE <<>>
  IN  <<[k |-> "diff", pre |-> first, post |-> last]>> \o extended
        \o FlattenSeq([i \in 1 .. Len(s.edits) |-> Printed(s.edits, i)])

\* The commit message, indented, is printed in front of the sections.  Only
\* whether one of its lines begins with @@ matters.
GitShow(sections, at_in_message) ==
  (IF at_in_message THEN <<[k |-> "@@", pre |-> 0, post |-> 0]>> ELSE <<>>)
    \o FlattenSeq([i \in 1 .. Len(sections) |-> PrintSection(sections[i])])

-----------------------------------------------------------------------------
(* The parser. *)

ChangeInfo(state, path, del, add) ==
  [state |-> state, src_path |-> path, del_lines |-> del, add_lines |-> add]

\* The locals of the two loops and the list that is returned.
NoPaths(ret) ==
  [loop |-> "paths", pre |-> NoPath, post |-> NoPath,
   cur |-> <<0, 0>>, del |-> <<>>, add |-> <<>>, ret |-> ret]

\* A slip: a renamed file is only added.
EmitAddedOnly(p) ==
  IF p.pre = p.post THEN <<ChangeInfo("modified", p.post, p.del, p.add)>>
  ELSE IF p.pre = NoPath THEN <<ChangeInfo("added", p.post, <<>>, p.add)>>
  ELSE IF p.post = NoPath THEN <<ChangeInfo("deleted", p.pre, <<>>, <<>>)>>
  ELSE <<ChangeInfo("added", p.post, p.del, p.add)>>

\* What a section adds to the list.
Emit(p) ==
  IF p.pre = p.post THEN <<ChangeInfo("modified", p.post, p.del, p.add)>>
  ELSE IF p.pre = NoPath THEN <<ChangeInfo("added", p.post, <<>>, p.add)>>
  ELSE IF p.post = NoPath THEN <<ChangeInfo("deleted", p.pre, <<>>, <<>>)>>
  ELSE <<ChangeInfo("deleted", p.pre, <<>>, <<>>),
         ChangeInfo("added", p.post, p.del, p.add)>>

\* _GetPathPair: "new" and "deleted" clear a path, and a hunk ends the loop.
\* A section without hunks is overwritten by the next one.
ReadPath(p, line) ==
  CASE line.k = "diff"    -> [p EXCEPT !.pre = line.pre, !.post = line.post]
    [] line.k = "deleted" -> [p EXCEPT !.post = NoPath]
    [] line.k = "new"     -> [p EXCEPT !.pre = NoPath]
    [] line.k = "@@" /\ (p.pre # NoPath \/ p.post # NoPath)
                          -> [p EXCEPT !.loop = "lines", !.cur = <<line.pre, line.post>>]
    [] line.k = "@@" /\ p.pre = NoPath /\ p.post = NoPath
                          -> [p EXCEPT !.loop = "ended"]
    [] OTHER -> p

\* A slip: the lines of the section before are kept.
ReadLineNoReset(p, line) ==
  CASE line.k = "@@" -> [p EXCEPT !.cur = <<line.pre, line.post>>]
    [] line.k = "-"  -> [p EXCEPT !.del = Append(@, p.cur[1]), !.cur[1] = @ + 1]
    [] line.k = "+"  -> [p EXCEPT !.add = Append(@, p.cur[2]), !.cur[2] = @ + 1]
    [] line.k = " "  -> [p EXCEPT !.cur = <<@[1] + 1, @[2] + 1>>]
    [] line.k = "diff" ->
         [ReadPath(NoPaths(p.ret \o Emit(p)), line) EXCEPT !.add = p.add]
    [] OTHER -> p

\* _GetChangedLinesPair: the next section ends the loop.
ReadLine(p, line) ==
  CASE line.k = "@@" -> [p EXCEPT !.cur = <<line.pre, line.post>>]
    [] line.k = "-"  -> [p EXCEPT !.del = Append(@, p.cur[1]), !.cur[1] = @ + 1]
    [] line.k = "+"  -> [p EXCEPT !.add = Append(@, p.cur[2]), !.cur[2] = @ + 1]
    [] line.k = " "  -> [p EXCEPT !.cur = <<@[1] + 1, @[2] + 1>>]
    [] line.k = "diff" -> ReadPath(NoPaths(p.ret \o Emit(p)), line)
    [] OTHER -> p

Read(p, line) ==
  CASE p.loop = "paths" -> ReadPath(p, line)
    [] p.loop = "lines" -> ReadLine(p, line)
    [] p.loop = "ended" -> p

\* The section at the end of the output, if any, counts with or without hunks.
GetChangeInfos(difflines) ==
  LET p == FoldLeft(Read, NoPaths(<<>>), difflines)
  IN  IF p.pre = NoPath /\ p.post = NoPath THEN p.ret ELSE p.ret \o Emit(p)
=============================================================================
