--------------------------- MODULE MCOperAnalyzer ---------------------------
(***************************************************************************)
(* Small libraries for OperAnalyzer: s and t are top-level functions, m, n *)
(* and o are not; x and y are fields.                                      *)
(***************************************************************************)
EXTENDS OperAnalyzer

CONSTANTS s, t, m, n, o, x, y

MCTop == {s, t}

Library(funcs, calls, uses) == [funcs |-> funcs, calls |-> calls, uses |-> uses]

All   == {s, t, m, n, o}
Chain == {<<s, m>>, <<m, n>>, <<n, o>>}
Uses  == {<<o, MOD, x>>, <<n, MOD, y>>, <<t, REF, x>>, <<o, REF, y>>}

\* The chain from s to o is kept, cut in its middle, closed to a cycle or
\* shared with t; o modifies another field; n, or t, is not there.
Libraries == {
  Library(All, Chain, Uses),
  Library(All, Chain \ {<<m, n>>}, Uses),
  Library(All, Chain \cup {<<o, m>>, <<t, n>>}, Uses),
  Library(All, Chain \ {<<n, o>>}, {<<o, MOD, y>>, <<n, MOD, y>>, <<n, REF, x>>}),
  Library(All, Chain \cup {<<t, o>>}, {<<o, MOD, y>>, <<s, REF, x>>, <<m, MOD, x>>}),
  Library(All \ {n}, {<<s, m>>, <<m, o>>}, {<<o, MOD, x>>, <<o, REF, y>>}),
  Library(All \ {t}, Chain, {<<o, MOD, x>>, <<n, MOD, y>>, <<o, REF, y>>}) }

\* One field is no longer referred to under s.
RefLibraries == {
  Library({s, m, n}, {<<s, m>>}, {<<m, REF, x>>, <<m, MOD, x>>, <<n, MOD, x>>}),
  Library({s, t, m, n}, {<<s, m>>, <<t, n>>}, {<<m, MOD, x>>, <<n, MOD, x>>, <<n, REF, x>>}) }

ASSUME LibrariesApart == TopsApart
=============================================================================
