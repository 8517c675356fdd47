--------------------------- MODULE MCGlobalContext ---------------------------
(***************************************************************************)
(* Small call graphs for GlobalContext: f, g, h, k are functions; f is a   *)
(* top-level function of the analysed library.                             *)
(***************************************************************************)
EXTENDS GlobalContext

CONSTANTS f, g, h, k

\* A diamond with a cycle and a way back to its top, and a clique.
Diamond == {<<f, g>>, <<f, h>>, <<g, k>>, <<h, k>>, <<k, h>>, <<k, f>>}
Clique  == Func \X Func

Chain   == {<<f, g>>, <<g, h>>, <<h, k>>}
Cut     == {<<f, g>>, <<g, h>>}
Back    == {<<f, g>>, <<g, h>>, <<h, g>>, <<g, f>>}
SomeGraphs == {Diamond, Clique, Chain, Cut, Back}

AllQueries == Func \X Func
=============================================================================
