----------------------------- MODULE KTDPProgram -----------------------------
(***************************************************************************)
(* A function over a value that KTDPValues has made: its arguments are     *)
(* given, operations are appended, by a builder that derives the type of   *)
(* the result or with the type that a text or a pass states, and MLIR's    *)
(* verifier looks at each.  Operations after one it rejects are not        *)
(* looked at.                                                              *)
(***************************************************************************)
EXTENDS KTDPValues, KTDPOperations, Functions

CONSTANTS Signatures,   \* functions: the value they are about and their argument types
          Static,       \* pairs of static_sizes and static_strides
          MemRefs, Tensors, TileShapes,   \* result types that texts state
          MaxOps        \* bound on a function, arguments included

\* The types without parameters are none of these, and an argument whose type has
\* parameters that Python and C make is the value itself.
ASSUME SignaturesAssumption ==
  /\ \A t \in Types : t.mnemonic \notin {"memref", "tensor", "access_tile", "runtime_arg"}
  /\ \A t \in MemRefs : t.mnemonic = "memref"
  /\ \A t \in Tensors : t.mnemonic = "tensor"
  /\ \A static \in Static : static[1] \in Seq(Int) /\ static[2] \in Seq(Int)
  /\ \A s \in Signatures :
       /\ s.args \in Seq(Range(s.args))
       /\ \A t \in Range(s.args) : t.mnemonic = "runtime_arg" => t = s.value

VARIABLES
  ops,        \* the arguments and the operations; a value is the position it comes from
  verdict     \* "none", "accepted" so far, "rejected", or "uninferable": the builder fails

vars == <<valueVars, ops, verdict>>

\* A one-result value and its type; leaves are the views a memref is composed of.
Typed == {i \in DOMAIN ops : ops[i].results # <<>>}
T == [i \in Typed |-> ops[i].results[1]]
ValuesOf(mnemonic) == {i \in Typed : T[i].mnemonic = mnemonic}

Init == ValuesInit /\ ops = <<>> /\ verdict = "none"

Make == verdict = "none" /\ ValuesNext /\ UNCHANGED <<ops, verdict>>

Start ==
  /\ verdict = "none" /\ stage = "held"
  /\ \E s \in Signatures :
       /\ s.value = value[1]
       /\ ops' = [i \in DOMAIN s.args |->
                   [name |-> "argument", results |-> <<s.args[i]>>, leaves |-> {i}]]
  /\ verdict' = "accepted" /\ text' = <<>> /\ original' = <<>>
  /\ UNCHANGED <<asserts, stage, value>>

More == verdict = "accepted" /\ Len(ops) < MaxOps

\* Mutant: an operation is put at the start of the block.
EmitAtStart(op, accepted) ==
  /\ ops' = <<op>> \o ops
  /\ verdict' = IF accepted THEN "accepted" ELSE "rejected"
  /\ UNCHANGED valueVars

Emit(op, accepted) ==
  /\ ops' = Append(ops, op)
  /\ verdict' = IF accepted THEN "accepted" ELSE "rejected"
  /\ UNCHANGED valueVars

----------------------------------------------------------------------------
GetComputeTileId ==
  /\ More
  /\ \E n \in 0 .. 1 :
       LET op == [name |-> "get_compute_tile_id", results |-> [i \in 1 .. n |-> IndexType]]
       IN  Emit(op, GetComputeTileIdVerified(op))

\* Operands of index type in any number the static lists may ask for.
Indices == UNION {[1 .. n -> {i \in Typed : T[i] = IndexType}] : n \in 0 .. 1}

ConstructMemoryView ==
  /\ More /\ value[1].mnemonic = "memory_space"
  /\ \E static \in Static, sizes, strides \in Indices, type \in MemRefs :
       LET op == [name |-> "construct_memory_view", memory_space |-> value[1],
                  static_sizes |-> static[1], static_strides |-> static[2],
                  sizes |-> sizes, strides |-> strides, results |-> <<type>>,
                  leaves |-> {Len(ops) + 1}]
       IN  Emit(op, MemoryViewVerified(op))

ConstructDistributedMemoryView ==
  /\ More
  /\ \E n \in 1 .. 2 : \E memrefs \in [1 .. n -> ValuesOf("memref")], type \in MemRefs :
       LET op == [name |-> "construct_distributed_memory_view", memrefs |-> memrefs,
                  results |-> <<type>>,
                  leaves |-> UNION {ops[memrefs[i]].leaves : i \in 1 .. n}]
       IN  Emit(op, DistributedViewVerified(op, T))

ConstructAccessTile ==
  /\ More
  /\ \E base \in ValuesOf("memref") \cup ValuesOf("tensor"),
        shape \in TileShapes, dims \in 0 .. 1 :
       LET op == [name |-> "construct_access_tile", base |-> base, set |-> dims,
                  results |-> <<AccessTileType(shape, IndexType)>>]
       IN  Emit(op, AccessTileVerifiedRank(op))

\* A load whose type is stated, and one built from the element type.
Load ==
  /\ More
  /\ \E tile \in ValuesOf("access_tile"), type \in Tensors :
       LET op == [name |-> "load", tile |-> tile, built |-> FALSE, results |-> <<type>>]
       IN  Emit(op, LoadVerified(op, T))

LoadBuilt ==
  /\ More
  /\ \E tile \in ValuesOf("access_tile"), elem \in Scalars :
       LET op == [name |-> "load", tile |-> tile, built |-> TRUE,
                  results |-> <<LoadResult(T, tile, elem)>>]
       IN  Emit(op, LoadVerified(op, T))

Store ==
  /\ More
  /\ \E data \in ValuesOf("tensor"), tile \in ValuesOf("access_tile") :
       LET op == [name |-> "store", data |-> data, tile |-> tile, results |-> <<>>]
       IN  Emit(op, StoreVerified(op, T))

\* Likewise an extraction with a stated type and a built one.
RuntimeArgExtract ==
  /\ More
  /\ \E kind \in RuntimeArgExtractKind, input \in ValuesOf("runtime_arg"), built \in BOOLEAN :
       \E type \in IF built THEN {ExtractResult(T, kind, input)} ELSE Types :
         LET op == [name |-> "runtime_arg_extract", kind |-> kind, input |-> input,
                    built |-> built, results |-> <<type>>]
         IN  Emit(op, ExtractVerified(op, T))

\* The fused operations, with a stated type or with the inferred one.
Fused ==
  /\ More
  /\ \E name \in FusingOps \cup {"layernormscale_fused"}, operand \in Typed, type \in Types :
       LET op == [name |-> name, operand |-> operand, built |-> FALSE, results |-> <<type>>]
       IN  T[operand] \in Types /\ Emit(op, FusedVerified(op, T))

FusedBuilt ==
  /\ More
  /\ \E name \in FusingOps \cup {"layernormscale_fused"}, operand \in Typed :
       LET op == [name |-> name, operand |-> operand, built |-> TRUE,
                  results |-> inferReturnTypes(name, T[operand])]
       IN  IF op.results = <<>>
           THEN /\ ops' = Append(ops, op) /\ verdict' = "uninferable"
                /\ UNCHANGED valueVars
           ELSE Emit(op, FusedVerified(op, T))

Operate ==
  \/ GetComputeTileId \/ ConstructMemoryView \/ ConstructDistributedMemoryView
  \/ ConstructAccessTile \/ Load \/ LoadBuilt \/ Store \/ RuntimeArgExtract
  \/ Fused \/ FusedBuilt

Next == Make \/ Start \/ Operate

Spec == Init /\ [][Next]_vars

----------------------------------------------------------------------------
(* Properties *)

Names == {"argument", "get_compute_tile_id", "construct_memory_view",
          "construct_distributed_memory_view", "construct_access_tile", "load", "store",
          "runtime_arg_extract", "layernormscale_fused"} \cup FusingOps

OperandsOf(op) ==
  CASE op.name = "construct_memory_view" -> Range(op.sizes) \cup Range(op.strides)
    [] op.name = "construct_distributed_memory_view" -> Range(op.memrefs)
    [] op.name = "construct_access_tile" -> {op.base}
    [] op.name = "load" -> {op.tile}
    [] op.name = "store" -> {op.data, op.tile}
    [] op.name = "runtime_arg_extract" -> {op.input}
    [] op.name \in FusingOps \cup {"layernormscale_fused"} -> {op.operand}
    [] OTHER -> {}

\* Operations are known ones and use results that come before them; a program has a
\* function only while it holds the value the function is about.
TypeOK ==
  /\ ValuesTypeOK
  /\ ops \in Seq(Range(ops))
  /\ verdict \in {"none", "accepted", "rejected", "uninferable"}
  /\ verdict # "none" => stage = "held"
  /\ \A i \in DOMAIN ops :
       ops[i].name \in Names /\ OperandsOf(ops[i]) \subseteq {j \in Typed : j < i}

\* The operations that have passed the verifier, arguments included.
Accepted == {i \in DOMAIN ops : verdict = "accepted" \/ i < Len(ops)}
AcceptedOps(names) == {i \in Accepted : ops[i].name \in names}

\* However deep distributed views are nested, each view in the end composed has the
\* element type and the rank of the outermost one: verify compares neighbours only
\* (ConstructDistributedMemoryViewOp::verify).
PartsAgree ==
  \A i \in AcceptedOps({"construct_distributed_memory_view"}) :
    \A leaf \in ops[i].leaves :
      leaf \in Accepted /\ T[leaf].elem = T[i].elem /\ Len(T[leaf].shape) = Len(T[i].shape)

\* The number of the operand that a dynamic entry stands for.
DynamicRank(static, d) == CountDynamic(SubSeq(static, 1, d))

\* A dynamic size or stride finds the operand that stands for it, and no operand is left
\* over: sizes and strides are counted apart (ConstructMemoryViewOp::verify).
DynamicPartsHaveOperands ==
  \A i \in AcceptedOps({"construct_memory_view"}) :
    LET Served(static, operands) ==
          DOMAIN operands = {DynamicRank(static, d) : d \in {e \in DOMAIN static :
                                                              static[e] = kDynamic}}
    IN  /\ Served(ops[i].static_sizes, ops[i].sizes)
        /\ Served(ops[i].static_strides, ops[i].strides)

\* An accepted extraction of a granularity or an upper bound has one to extract, and in
\* a build with asserts a positive one, whichever way its type was made
\* (RuntimeArgExtractOp::verify, RuntimeArgType::verify).
ExtractionFindsConstraint ==
  \A i \in AcceptedOps({"runtime_arg_extract"}) :
    LET input == T[ops[i].input]
        Found(opt) == opt # <<>> /\ (asserts => opt[1] > 0)
    IN  /\ ops[i].kind = "granularity" => Found(input.gran)
        /\ ops[i].kind = "upperbound" => Found(input.ub)

\* The verifier refuses what a type-deriving builder has built only where no type would
\* do; and the inference fails only where the operand is not one of the operation's
\* (LoadOp::build, RuntimeArgExtractOp::build, inferReturnTypes).
BuildersFitVerifiers ==
  verdict \in {"rejected", "uninferable"} /\ "built" \in DOMAIN ops[Len(ops)] =>
    LET op == ops[Len(ops)]
    IN  op.built =>
          \/ op.name = "runtime_arg_extract" /\ op.kind = "granularity" /\ T[op.input].gran = <<>>
          \/ op.name = "runtime_arg_extract" /\ op.kind = "upperbound" /\ T[op.input].ub = <<>>
          \/ /\ verdict = "uninferable" /\ op.name \notin {"load", "runtime_arg_extract"}
             /\ ~OperandAllowed(op.name, T[op.operand])

\* Scaling a fused pair gives back the float that was fused: the two inferences are
\* inverses of each other (fusedPairOf, scalarBehind).
ScalingUndoesFusing ==
  \A i \in AcceptedOps({"layernormscale_fused"}) :
    LET pair == ops[i].operand
    IN  ops[pair].name \in FusingOps => T[i] = T[ops[pair].operand]

\* The data tile of a store has the element type of the view its access tile is over
\* ("The destination element type must match the element type of the data tile", KTDP.td).
StoreMatchesDestination ==
  \A i \in AcceptedOps({"store"}) :
    LET tile == ops[ops[i].tile]
    IN  tile.name = "construct_access_tile" => T[ops[i].data].elem = T[tile.base].elem
=============================================================================
