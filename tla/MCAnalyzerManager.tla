-------------------------- MODULE MCAnalyzerManager --------------------------
(***************************************************************************)
(* Small histories for AnalyzerManager: f, g, h are functions, x and y     *)
(* tags, one and two source files.  A function is written with its head    *)
(* line, its tagged lines and its last line.                               *)
(***************************************************************************)
EXTENDS AnalyzerManager, TLC

CONSTANTS one, two, f, g, h, x, y, end

\* f reaches g, g reaches h, and what is below.
MCReaches == {<<f, g>>, <<g, h>>, <<f, h>>}

\* Bodies are edited, in place or not; functions are inserted, removed, moved
\* within the file and renamed; a body without lines of its own or without
\* End.
MixedTexts ==
  one :> { <<f, x, end, g, y, end>>, <<f, y, end, g, y, end>>,
           <<f, end, g, x, y, end>>, <<h, y, end, g, x>>, <<g, end, f, x, end>> } @@
  two :> { <<h, x, end>>, <<h, y, x, end>>, <<>> }

\* A line with a tag is deleted.
DeletionTexts == one :> { <<f, x, y, end>>, <<f, y, end>>, <<f, x, end>> } @@ two :> { <<>> }
=============================================================================
