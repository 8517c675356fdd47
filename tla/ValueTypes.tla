----------------------------- MODULE ValueTypes -----------------------------
(***************************************************************************)
(* How MLTA (src/src/callgraph/MLTA.cc) finds the types that a pointer     *)
(* passes through: the layers of a value of the IR.  A layer is a type and *)
(* an index into it.  The same walk serves to record where a function is   *)
(* stored (getBaseTypeChain) and to look up where a called pointer comes   *)
(* from (nextLayerBaseType).                                               *)
(***************************************************************************)
EXTENDS Integers, Sequences, FiniteSets

CONSTANTS
  Value, NoValue,  \* llvm::Value, and null
  Type, NoType,    \* values of typeHash (function types included), and none
  Index,           \* field numbers and constant array indices
  Elem,            \* Elem[t, i]: the type at index i of type t
  IR               \* the values: see Node

AnyIndex == -1     \* "-1 represents all possible fields of a struct"
TypeIdx  == Type \X (Index \cup {AnyIndex})

(* What the walk looks at in a value.  base is the composite type of the   *)
(* value, of what it points to, or of the struct pointer that              *)
(* collectAliasStructPtr found it cast to.                                 *)
Node == [ kind   : {"gep", "load", "cast", "phi", "arg", "leaf"},
          ops    : Seq(Value),        \* operands; a select is a cast of the first
          base   : Type \cup {NoType},
          fptr   : Type \cup {NoType},\* getFuncPtrType
          ptr    : BOOLEAN,           \* of pointer type
          stored : BOOLEAN,           \* the address some store writes to
          src    : Type \cup {NoType},\* of a GEP: its source element type,
          idxs   : Seq(Index \cup {AnyIndex}),  \* its indices, -1 if not constant,
          first  : BOOLEAN,           \* a use casts it to its first field,
          outside : BOOLEAN ]         \* it leaves its type, and a use casts it

ASSUME ValuesAssumption ==
  /\ NoValue \notin Value /\ NoType \notin Type
  /\ Index \subseteq Nat /\ 0 \in Index
  /\ Elem \in [TypeIdx -> Type \cup {NoType}]
  /\ IR \in [Value -> Node]
  /\ \A v \in Value :
       /\ IR[v].kind \in {"gep", "load", "cast", "phi"} => IR[v].ops # <<>>
       /\ IR[v].kind = "gep" => IR[v].src # NoType /\ IR[v].idxs # <<>>

-----------------------------------------------------------------------------
(* getGEPLayerTypes: the types that the indices lead through, innermost    *)
(* first; the first index only steps over the pointer.                     *)
GEPLayerTypes(v) ==
  LET i == IR[v].idxs
      n == Len(i)
      ty[k \in 1 .. n] == IF k = 1 THEN IR[v].src ELSE Elem[<<ty[k - 1], i[k]>>]
      inward == [k \in 1 .. n - 1 |-> <<ty[n - k], i[n - k + 1]>>]
  IN  IF IR[v].outside THEN <<>>
      ELSE IF IR[v].first THEN <<<<ty[n], 0>>>> \o inward
      ELSE inward

(* getBaseType and _getPhiBaseType: of a phi the first incoming value that *)
(* has a type.                                                             *)
BaseTypeOf[v \in Value \cup {NoValue}, seen \in SUBSET Value] ==
  IF v = NoValue \/ v \in seen THEN NoType
  ELSE IF IR[v].base # NoType THEN IR[v].base
  ELSE LET ops   == IF IR[v].kind \in {"load", "cast", "phi"} THEN IR[v].ops ELSE <<>>
           of(i) == BaseTypeOf[ops[i], seen \cup {v}]
           typed == {i \in 1 .. Len(ops) : of(i) # NoType}
       IN  IF typed = {} THEN NoType
           ELSE of(CHOOSE i \in typed : \A j \in typed : i <= j)

\* The layer of a GEP, or none, before the value that it starts from.
GEPLayer(v, types, seen) ==
  [types |-> types, more |-> types # <<>>, seen |-> seen \cup {v},
   next  |-> IF types = <<>> THEN NoValue ELSE IR[v].ops[1]]

(* nextLayerBaseType: the types of the next layer, the value behind them,  *)
(* whether there is such a layer, and the values seen.  Only a GEP has     *)
(* types; of a phi the first incoming value with types counts, or the last.*)
NextLayer[v \in Value \cup {NoValue}, seen \in SUBSET Value] ==
  LET ends(w) == [types |-> <<>>, next |-> w, more |-> FALSE, seen |-> seen]
      on      == seen \cup {v}
  IN  IF v = NoValue \/ v \in seen THEN ends(v)
      ELSE IF IR[v].kind = "arg" THEN ends(v)
      ELSE IF IR[v].kind = "gep"
           THEN GEPLayer(v, GEPLayerTypes(v), seen)
      ELSE IF IR[v].kind \in {"load", "cast"} THEN NextLayer[IR[v].ops[1], on]
      ELSE IF IR[v].kind = "phi"
           THEN LET n     == Len(IR[v].ops)
                    typed == {i \in 1 .. n : NextLayer[IR[v].ops[i], on].types # <<>>}
                    taken == IF typed = {} THEN n
                             ELSE CHOOSE i \in typed : \A j \in typed : i <= j
                IN  NextLayer[IR[v].ops[taken], on]
      ELSE ends(NoValue)

\* The loop of getBaseTypeChain: one layer after the other.
LayersFrom[v \in Value \cup {NoValue}, seen \in SUBSET Value] ==
  LET join(step, rest) == [types |-> step.types \o rest.types, next |-> rest.next]
      after(step) == IF step.more THEN join(step, LayersFrom[step.next, step.seen])
                     ELSE [types |-> <<>>, next |-> step.next]
  IN  after(NextLayer[v, seen])

\* It is complete unless it ends nowhere, at a pointer argument or at a
\* value that is stored to.
Chain(base, layers) ==
  [types    |-> (IF base = NoType THEN <<>> ELSE <<<<base, 0>>>>) \o layers.types,
   complete |-> /\ layers.next # NoValue
                /\ ~(IR[layers.next].kind = "arg" /\ IR[layers.next].ptr)
                /\ ~IR[layers.next].stored]

(* getBaseTypeChain: the base type, then every layer.                      *)
BaseTypeChain(v) == Chain(BaseTypeOf[v, {}], LayersFrom[v, {}])
=============================================================================
