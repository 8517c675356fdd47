------------------------------ MODULE Frontend ------------------------------
(***************************************************************************)
(* The loop over the commits in src/scripts/entry.py: the changes of a     *)
(* commit are read from "git show", applied to a work tree, compiled to    *)
(* bitcode by make (src/scripts/bcbuild.py) and passed to                  *)
(* cisa.UpdateModules with their line numbers.                             *)
(***************************************************************************)
EXTENDS CommitDiff, FiniteSets

CONSTANTS
  Paths,       \* the files that a version of the repository may have, as git orders them
  Src,         \* the C files among them
  Configured,  \* those that the configuration compiles
  Dir, DirOf,  \* directories below the root, and the one of each file
  Version,     \* contents of a file
  NoFile,      \* in place of a version: there is no file
  Broken,      \* versions that do not compile
  Edits,       \* the edit that turns a version into another one
  Trees,       \* the trees that commits have: from File to Version or NoFile
  Modes,       \* sets of files that a commit may give a new mode
  MaxCommits,  \* bound: commits in the loop
  IncludeMerge \* option -m

File == {Paths[i] : i \in DOMAIN Paths}

ASSUME FrontendAssumption ==
  /\ Paths \in Seq(File) /\ NoPath \notin File
  /\ NoFile \notin Version /\ Broken \subseteq Version
  /\ \A v, w \in Version \cup {NoFile} : Edits[v, w] \in Seq(Mark)
  /\ \A v \in Version : \A i \in DOMAIN Edits[NoFile, v] : Edits[NoFile, v][i] = "+"
  /\ Configured \subseteq Src /\ Src \subseteq File
  /\ DirOf \in [File -> Dir]
  /\ Trees \subseteq [File -> Version \cup {NoFile}]
  /\ Modes \subseteq SUBSET File
  /\ MaxCommits \in Nat
  /\ IncludeMerge \in BOOLEAN

VARIABLES
  history,  \* the commits of the loop up to now; the first one is only built
  tree,     \* the files in the work tree
  dirs,     \* the directories in it
  bc,       \* for each source, the version that its bitcode file was made from
  changes,  \* what GetChangeInfos returned
  loaded,   \* for each source, the version that the C++ part has
  updates,  \* the arguments of the last cisa.UpdateModules
  aggregated, \* its argument do_agg
  phase,    \* where the loop is
  linear,   \* so far every commit was the child of the one before it
  readable  \* so far no section of "git show" was hidden from the parser

vars == <<history, tree, dirs, bc, changes, loaded, updates, aggregated, phase,
          linear, readable>>

Commit == history[Len(history)]
Parent == history[Commit.parent]

-----------------------------------------------------------------------------
(* git *)

\* The commits that git log may print next: their tree; the index of their
\* first parent; whether they have other parents; the renames that git
\* finds, at most one here; the files with a new mode; whether a line of the
\* message begins with @@.
Renames(old, new) ==
  {{}} \cup {{r} : r \in {r \in File \X File :
    /\ old[r[1]] # NoFile /\ new[r[1]] = NoFile
    /\ old[r[2]] = NoFile /\ new[r[2]] # NoFile}}

Remoded(old, new, renames) ==
  {fs \in Modes : \A f \in fs : new[f] # NoFile /\ (old[f] # NoFile \/ \E r \in renames : r[2] = f)}

CommitsOf(p, t) ==
  {c \in [tree : {t}, parent : {p}, merge : BOOLEAN, at_in_message : BOOLEAN,
          renames : Renames(history[p].tree, t), modes : Modes] :
     c.modes \in Remoded(history[p].tree, t, c.renames)}

\* The section of file f in the diff of c against its first parent.
SectionOf(c, old, f) ==
  LET from == {r[1] : r \in {r \in c.renames : r[2] = f}}
      g    == IF from = {} THEN f ELSE CHOOSE g \in from : TRUE
  IN  Section(IF old[g] = NoFile THEN NoPath ELSE g,
              IF c.tree[f] = NoFile THEN NoPath ELSE f,
              f \in c.modes,
              IF old[g] = c.tree[f] THEN <<>> ELSE Edits[old[g], c.tree[f]])

\* The files with a section; a renamed file has one under its new name.
Differ(c, old, f) ==
  /\ old[f] # c.tree[f] \/ f \in c.modes
  /\ \A r \in c.renames : r[1] # f

Sections(c, old) ==
  FlattenSeq([i \in 1 .. Len(Paths) |->
    IF Differ(c, old, Paths[i]) THEN <<SectionOf(c, old, Paths[i])>> ELSE <<>>])

\* The parser sees all that happened to the tree: no section is overwritten
\* by the next one, and no file is renamed with a new mode, which hides its
\* old name.
Readable(c, old) ==
  /\ ~c.at_in_message
  /\ \A r \in c.renames : r[2] \notin c.modes
  /\ \A i \in 1 .. (Len(Sections(c, old)) - 1) : HasHunk(Sections(c, old)[i])

-----------------------------------------------------------------------------
(* make *)

Compiles(v) == v \notin Broken \cup {NoFile}

\* "make -k -i" goes on after errors; a file that does not compile, or is not
\* there, keeps the bitcode file it had.
Make(targets, files, old) ==
  [f \in Src |-> IF f \in targets /\ Compiles(files[f]) THEN files[f] ELSE old[f]]

-----------------------------------------------------------------------------
(* _UpdateRepo *)

InState(st)  == {c.src_path : c \in {changes[i] : i \in {i \in DOMAIN changes : changes[i].state = st}}}
NotDeleted   == InState("added") \cup InState("modified")

\* A slip: object and bitcode files do not keep a directory.
EmptiedSourceless(d) ==
  /\ \E f \in InState("deleted") : DirOf[f] = d
  /\ \A f \in File : DirOf[f] = d => tree[f] = NoFile \/ f \in InState("deleted")

\* _RemoveFileRec removes the directory of a file that was the last one in it.
Emptied(d) ==
  /\ \E f \in InState("deleted") : DirOf[f] = d
  /\ \A f \in File : DirOf[f] = d => tree[f] = NoFile \/ f \in InState("deleted")
  /\ \A f \in Src : DirOf[f] = d => bc[f] = NoFile

\* The next commit.  A branch that it merges may be older than the range of
\* commits.
GetChanges(c) ==
  /\ phase = "next"
  /\ Len(history) <= MaxCommits
  /\ history' = Append(history, c)
  /\ LET old == history[c.parent].tree IN
       /\ changes' = GetChangeInfos(GitShow(Sections(c, old), c.at_in_message))
       /\ linear' = (linear /\ c.parent = Len(history))
       /\ readable' = (readable /\ Readable(c, old))
  /\ phase' = "remove"
  /\ UNCHANGED <<tree, dirs, bc, loaded, updates, aggregated>>

RemoveFiles ==
  /\ phase = "remove"
  /\ \A f \in InState("deleted") : tree[f] # NoFile
  /\ tree' = [f \in File |-> IF f \in InState("deleted") THEN NoFile ELSE tree[f]]
  /\ dirs' = {d \in dirs : ~Emptied(d)}
  /\ phase' = "write"
  /\ UNCHANGED <<history, bc, changes, loaded, updates, aggregated, linear, readable>>

\* os.remove of a file that is not there raises.
RemoveFails ==
  /\ phase = "remove"
  /\ \E f \in InState("deleted") : tree[f] = NoFile
  /\ phase' = "crashed"
  /\ UNCHANGED <<history, tree, dirs, bc, changes, loaded, updates, aggregated,
                 linear, readable>>

\* A slip: the directory of an added file is not created.
NoDirUnmade(i) == changes[i].state # "deleted" /\ DirOf[changes[i].src_path] \notin dirs

\* The i-th change is a file in a directory that neither exists nor was
\* created for an added file before it.
NoDir(i) ==
  /\ changes[i].state = "modified"
  /\ DirOf[changes[i].src_path] \notin dirs
  /\ \A j \in 1 .. (i - 1) :
       changes[j].state = "added" => DirOf[changes[j].src_path] # DirOf[changes[i].src_path]

WriteFiles ==
  /\ phase = "write"
  /\ \A i \in DOMAIN changes : ~NoDir(i)
  /\ tree' = [f \in File |-> IF f \in NotDeleted THEN Commit.tree[f] ELSE tree[f]]
  /\ dirs' = dirs \cup {DirOf[f] : f \in InState("added")}
  /\ phase' = "build"
  /\ UNCHANGED <<history, bc, changes, loaded, updates, aggregated, linear, readable>>

\* open() in a directory that does not exist raises.
WriteFails ==
  /\ phase = "write"
  /\ \E i \in DOMAIN changes : NoDir(i)
  /\ phase' = "crashed"
  /\ UNCHANGED <<history, tree, dirs, bc, changes, loaded, updates, aggregated,
                 linear, readable>>

-----------------------------------------------------------------------------
(* Build and update. *)

\* "if the source code (*.c) exists but the object file doesn't [...] Just
\* ignore it": the modified sources that have a bitcode file.
ToBuild == {f \in Src \cap InState("modified") : bc[f] # NoFile}

\* "if the source code was newly added, build the parent directory."
ToBuildDirs == {DirOf[f] : f \in Src \cap InState("added")}

\* A slip: only the files that were added are built.
BuildAdded ==
  /\ phase = "build"
  /\ bc' = Make({f \in Configured \cap InState("added") : DirOf[f] \in ToBuildDirs}, tree, bc)
  /\ phase' = "load"
  /\ UNCHANGED <<history, tree, dirs, changes, loaded, updates, aggregated, linear, readable>>

Build ==
  /\ phase = "build"
  /\ bc' = Make(ToBuild \cup {f \in Configured : DirOf[f] \in ToBuildDirs}, tree, bc)
  /\ phase' = "load"
  /\ UNCHANGED <<history, tree, dirs, changes, loaded, updates, aggregated, linear, readable>>

\* A slip: the bitcode files of modified sources only.
WithBitcodeModified(c) == c.state = "modified" /\ c.src_path \in Src /\ bc[c.src_path] # NoFile

WithBitcode(c) == c.src_path \in Src /\ bc[c.src_path] # NoFile

UpdateOf(c) ==
  [file |-> c.src_path, state |-> c.state, pre |-> loaded[c.src_path], post |-> bc[c.src_path],
   del_lines |-> c.del_lines, add_lines |-> c.add_lines]

\* The C++ part loads the bitcode file of every changed source, also of a
\* deleted one.
UpdateModules ==
  /\ phase = "load"
  /\ updates' = {UpdateOf(changes[i]) : i \in {i \in DOMAIN changes : WithBitcode(changes[i])}}
  /\ loaded' = [f \in Src |-> IF f \in {u.file : u \in updates'} THEN bc[f] ELSE loaded[f]]
  /\ aggregated' = (~Commit.merge \/ IncludeMerge)
  /\ phase' = "next"
  /\ UNCHANGED <<history, tree, dirs, bc, changes, linear, readable>>

-----------------------------------------------------------------------------
\* The initial commit is checked out and built, and all bitcode is loaded.
Init ==
  /\ tree \in Trees
  /\ history = <<[tree |-> tree, parent |-> 0]>>
  /\ dirs = {DirOf[f] : f \in {f \in File : tree[f] # NoFile}}
  /\ bc = Make(Configured, tree, [f \in Src |-> NoFile])
  /\ changes = <<>>
  /\ loaded = bc
  /\ updates = {} /\ aggregated = FALSE
  /\ phase = "next"
  /\ linear = TRUE /\ readable = TRUE

Next ==
  \/ \E p \in DOMAIN history, t \in Trees : \E c \in CommitsOf(p, t) : GetChanges(c)
  \/ RemoveFiles \/ RemoveFails \/ WriteFiles \/ WriteFails \/ Build \/ UpdateModules

Spec == Init /\ [][Next]_vars

-----------------------------------------------------------------------------
(* Properties *)

\* The lines of an edit that are deleted and added, in the numbering before
\* and after it.
DeletedIn(edits) ==
  {Cardinality({j \in 1 .. i : edits[j] # "+"}) : i \in {i \in DOMAIN edits : edits[i] = "-"}}
AddedIn(edits) ==
  {Cardinality({j \in 1 .. i : edits[j] # "-"}) : i \in {i \in DOMAIN edits : edits[i] = "+"}}

Ascending(s) == \A i \in 1 .. (Len(s) - 1) : s[i] < s[i + 1]

IsLinesOf(S, s) == Ascending(s) /\ {s[i] : i \in DOMAIN s} = S

\* Every variable has its type, and a file or a bitcode file lies in a
\* directory that exists.
TypeOK ==
  /\ Len(history) \in 1 .. (MaxCommits + 1)
  /\ tree \in [File -> Version \cup {NoFile}]
  /\ bc \in [Src -> Version \cup {NoFile}] /\ loaded \in [Src -> Version \cup {NoFile}]
  /\ phase \in {"next", "remove", "write", "build", "load", "crashed"}
  /\ \A i \in DOMAIN changes : changes[i].src_path \in File
  /\ \A f \in File : tree[f] # NoFile => DirOf[f] \in dirs
  /\ \A f \in Src : bc[f] # NoFile => DirOf[f] \in dirs
  /\ linear \in BOOLEAN /\ readable \in BOOLEAN

\* Whatever else git prints, a file with hunks and no new mode is reported
\* with what happened to it and its deleted and added lines, and nothing is
\* reported of a file that the commit does not touch (GetChangeInfos).
HunksReported ==
  phase = "remove" /\ ~Commit.at_in_message =>
    /\ \A f \in File :
         LET old == Parent.tree[f]
             new == Commit.tree[f]
         IN  old # new /\ f \notin Commit.modes /\ (\A r \in Commit.renames : f \notin {r[1], r[2]})
               /\ (\E i \in DOMAIN Edits[old, new] : Edits[old, new][i] # ".")
             => \E i \in DOMAIN changes :
                  /\ changes[i].src_path = f
                  /\ changes[i].state = IF old = NoFile THEN "added"
                                        ELSE IF new = NoFile THEN "deleted" ELSE "modified"
                  /\ changes[i].state # "deleted" =>
                       /\ IsLinesOf(DeletedIn(Edits[old, new]), changes[i].del_lines)
                       /\ IsLinesOf(AddedIn(Edits[old, new]), changes[i].add_lines)
    /\ \A i \in DOMAIN changes :
         Parent.tree[changes[i].src_path] # Commit.tree[changes[i].src_path]
           \/ changes[i].src_path \in Commit.modes

\* "This should include ALL files, including assembly." (entry.py:121): in a
\* linear history of which the parser misses nothing, the work tree is the
\* tree of the commit when the changed files are built.
TreeExact ==
  phase \in {"build", "load", "next"} /\ linear /\ readable => tree = Commit.tree

\* In such a history no file that is removed or written is missing, although
\* directories are removed with their last file.
NoCrash == linear /\ readable => phase # "crashed"

\* After each commit, whatever its parents and whatever the parser missed,
\* the module of a source that compiles, once loaded, is that of the source
\* in the work tree: a failed build, a deletion or a return is made good by
\* the next version that compiles.
LoadedCurrent ==
  phase = "next" =>
    \A f \in Src :
      Compiles(tree[f]) /\ loaded[f] # NoFile => loaded[f] = tree[f]

\* The line numbers that the analyses get with a modified module belong to
\* the module that they have and to the one that they load, unless the
\* build of one of the two failed.
LinesMatch ==
  phase = "next" /\ Len(history) > 1 /\ linear /\ readable =>
    \A u \in updates :
      /\ u.state = "modified" /\ u.pre # NoFile
      /\ Compiles(Parent.tree[u.file]) /\ Compiles(Commit.tree[u.file])
      => /\ u.pre # u.post
         /\ IsLinesOf(DeletedIn(Edits[u.pre, u.post]), u.del_lines)
         /\ IsLinesOf(AddedIn(Edits[u.pre, u.post]), u.add_lines)
=============================================================================
