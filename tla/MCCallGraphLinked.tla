------------------------- MODULE MCCallGraphLinked -------------------------
(***************************************************************************)
(* Programs for CallGraphLinked: g moves between b and c, is static in one *)
(* version of b; h is static in a, exported by c and called from b.        *)
(***************************************************************************)
EXTENDS CallGraphLinked, TLC

CONSTANTS a, b, c, f, g, h, op

MCSigOf == [n \in Name |-> op]

Module(defs, statics, direct, icalls) ==
  [defs |-> defs, statics |-> statics, direct |-> direct, icalls |-> icalls,
   taken |-> {}, stores |-> {}, escapes |-> {}]

MCVersions ==
  (a :> {Module({f}, {}, {<<f, g>>}, {}),
         Module({f, h}, {h}, {<<f, g>>, <<f, h>>, <<h, g>>}, {<<f, op, NoSlot>>})} @@
   b :> {Module({g}, {}, {}, {}),
         Module({g}, {}, {<<g, h>>}, {}),
         Module({f, g}, {f, g}, {<<f, g>>, <<g, h>>}, {}),
         Module({}, {}, {}, {})} @@
   c :> {Module({h}, {}, {<<h, f>>}, {}),
         Module({g}, {}, {<<g, f>>}, {}),
         Module({g, h}, {}, {<<h, g>>}, {})})
=============================================================================
