------------------------------- MODULE MCMLTA -------------------------------
(***************************************************************************)
(* A small program for MLTA.  Structs S { fp run; S *next; } and           *)
(* T { S in; S *at; }, arrays A of function pointers and B of T;           *)
(* functions f and e of module ma, h of mb, all of one signature.          *)
(***************************************************************************)
EXTENDS MLTA, TLC

CONSTANTS ma, mb, f, e, h, S, T, A, B, P, sig, other,
          s, s2, t, node, raw, arr,           \* arguments, a loop's pointer, others
          run, run2, inrun, tat, atrun, elt, elt0, binrun, \* addresses of fields
          nrun, nnext,
          lrun, linrun, latrun, lelt, lelt0, lbinrun, lnext, lat, lnrun,   \* loads
          tab, top, gv, ini,                  \* constants
          c1, c2, c3, c4, c5, c6, c7

MCElem == [x \in TypeIdx |-> IF x[1] = T /\ x[2] = 0 THEN S ELSE IF x[1] = B THEN T ELSE NoType]

Leaf == [kind |-> "leaf", ops |-> <<>>, base |-> NoType, fptr |-> NoType, ptr |-> TRUE,
         stored |-> FALSE, src |-> NoType, idxs |-> <<>>, first |-> FALSE, outside |-> FALSE]

Fn         == [Leaf EXCEPT !.fptr = sig]
Arg(ty)    == [Leaf EXCEPT !.kind = "arg", !.base = ty]
Load(p)    == [Leaf EXCEPT !.kind = "load", !.ops = <<p>>, !.fptr = sig]
LoadPtr(p) == [Leaf EXCEPT !.kind = "load", !.ops = <<p>>, !.base = S]
Gep(p, ty, i) == [Leaf EXCEPT !.kind = "gep", !.ops = <<p>>, !.src = ty, !.idxs = i]

MCIR ==
  f :> Fn @@ e :> Fn @@ h :> Fn @@ raw :> Leaf @@
  s :> Arg(S) @@ s2 :> Arg(S) @@ t :> Arg(T) @@ arr :> [Leaf EXCEPT !.base = A] @@
  run :> Gep(s, S, <<0, 0>>) @@ run2 :> Gep(s2, S, <<0, 0>>) @@
  inrun :> Gep(t, T, <<0, 0, 0>>) @@                       \* &t->in.run
  tat :> [Gep(t, T, <<0, 1>>) EXCEPT !.base = NoType] @@    \* &t->at
  lat :> LoadPtr(tat) @@ atrun :> Gep(lat, S, <<0, 0>>) @@  \* &t->at->run
  elt :> Gep(arr, A, <<0, AnyIndex>>) @@                   \* &arr[i]
  binrun :> Gep(arr, B, <<0, AnyIndex, 0, 0>>) @@ lbinrun :> Load(binrun) @@   \* &b[i].in.run
  elt0 :> Gep(arr, A, <<0, 0>>) @@
  node :> [Leaf EXCEPT !.kind = "phi", !.ops = <<lnext, s>>, !.base = S] @@
  nnext :> Gep(node, S, <<0, 1>>) @@ lnext :> LoadPtr(nnext) @@   \* n = n->next
  nrun :> Gep(node, S, <<0, 0>>) @@
  lrun :> Load(run2) @@ linrun :> Load(inrun) @@ latrun :> Load(atrun) @@
  lelt :> Load(elt) @@ lelt0 :> Load(elt0) @@ lnrun :> Load(nrun)

\* tab is an S with f; ini one with e, the initializer of the global gv; top
\* a T that holds tab and points to gv.
Holds(kind, x, cap) == [kind |-> kind, to |-> x, cap |-> cap]
MCOperands ==
  tab :> << Holds("func", f, NoType) >> @@
  ini :> << Holds("func", e, NoType) >> @@
  gv  :> << Holds("nested", ini, NoType) >> @@
  top :> << Holds("nested", tab, NoType), Holds("pointer", gv, S) >>

MCTypesOf == tab :> {S} @@ ini :> {S} @@ gv :> {P} @@ top :> {T}

Has(stores, init, calls) ==
  [taken |-> {}, stores |-> stores, passed |-> {}, init |-> init, calls |-> calls]

MCVersions ==
  ma :> { [Has({<<run, f>>}, NoConst, {c1}) EXCEPT !.taken = {f, e}],
          [Has({<<inrun, e>>, <<elt, f>>}, top, {c1, c4}) EXCEPT !.taken = {f, e}],
          [Has({<<atrun, e>>}, NoConst, {c1}) EXCEPT !.taken = {e}],
          [Has({}, tab, {c4, c6}) EXCEPT !.taken = {f, e}] } @@
  mb :> { [Has({<<inrun, lrun>>, <<elt, lrun>>}, NoConst, {c2, c5}) EXCEPT !.taken = {h}],
          [Has({<<run, lelt>>, <<elt, h>>, <<tat, s>>, <<inrun, raw>>}, NoConst, {c2})
             EXCEPT !.taken = {h}],
          [Has({}, NoConst, {c2, c3}) EXCEPT !.taken = {h}],
          [Has({}, NoConst, {c2, c7}) EXCEPT !.passed = {h}] }

MCModuleOf      == f :> ma @@ e :> ma @@ h :> mb
MCCallHash      == [c \in Call |-> IF c = c7 THEN other ELSE sig]
MCCalledOperand == c1 :> lrun @@ c2 :> linrun @@ c3 :> latrun @@ c4 :> lnrun @@ c5 :> lelt0 @@
                   c6 :> lbinrun @@ c7 :> lrun

\* No constant has two containers here, and the walks of the scan and of the
\* look-up agree, as the proofs assume.
ASSUME InitializersSimple == InitializersAreTrees
ASSUME WalksSimple == WalksAgree
=============================================================================
