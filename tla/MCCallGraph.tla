---------------------------- MODULE MCCallGraph ----------------------------
(***************************************************************************)
(* Small programs for CallGraph.  f, g, h, k are function names; fun and   *)
(* op are the two signatures: f and g are called directly, h and k have    *)
(* the signature of the indirect calls; cb is the struct field a callback  *)
(* is stored into.                                                         *)
(***************************************************************************)
EXTENDS CallGraph, TLC

CONSTANTS a, b, c, f, g, h, k, fun, op, cb

MCSigOf == [n \in Name |-> IF n \in {h, k} THEN op ELSE fun]

Module(defs, statics, direct, icalls, taken, stores) ==
  [defs |-> defs, statics |-> statics, direct |-> direct, icalls |-> icalls,
   taken |-> taken, stores |-> stores, escapes |-> {}]

Escaping(m) == [m EXCEPT !.escapes = {cb}]

\* Files whose g moves between b and c, is static in some versions and
\* exported twice in others.  a calls through the field cb; b and c own the
\* callbacks h and k, and c takes the address of h where it is only declared.
MixedVersions ==
  (a :> {Module({f}, {}, {<<f, g>>}, {<<f, op, cb>>}, {}, {}),
         Module({f, h}, {h}, {<<f, g>>, <<f, h>>, <<h, g>>}, {}, {h}, {<<h, cb>>})} @@
   b :> {Module({g, h}, {}, {}, {}, {h}, {<<h, cb>>}),
         Module({g, k}, {g}, {<<k, g>>}, {}, {}, {}),
         Escaping(Module({k}, {}, {<<k, f>>}, {<<k, op, NoSlot>>}, {k}, {}))} @@
   c :> {Module({g, k}, {}, {<<g, k>>}, {}, {h}, {<<h, cb>>}),
         Module({h}, {}, {<<h, g>>, <<h, h>>}, {}, {}, {})})

\* b may be unreadable.
UnreadableVersions == [MixedVersions EXCEPT ![b] = @ \cup {NoBody}]
=============================================================================
