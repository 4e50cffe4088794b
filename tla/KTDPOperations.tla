--------------------------- MODULE KTDPOperations ---------------------------
(***************************************************************************)
(* The verifiers and type-inferring builders of the operations on memory   *)
(* views, tiles and runtime arguments (KTDPOps.cpp), and the type          *)
(* inference of SpyreOp's fused operations (SpyreOpOps.cpp).  A value is a *)
(* number and T gives its type; an operation names its operands by theirs  *)
(* and lists the types of its results.                                     *)
(***************************************************************************)
EXTENDS KTDPTypes, FiniteSets

CONSTANTS F16, DF16, F32, FP16Fused, DF16Fused, FP32Fused

Scalars == {F16, DF16, F32}
AnyFused == {FP16Fused, DF16Fused, FP32Fused}

ASSUME FloatsAssumption ==
  LET all == <<F16, DF16, F32, FP16Fused, DF16Fused, FP32Fused>>
  IN  \A i, j \in DOMAIN all : all[i] \in Types /\ (all[i] = all[j] => i = j)

MemRefType(shape, elem) == [mnemonic |-> "memref", shape |-> shape, elem |-> elem]
RankedTensorType(shape, elem) == [mnemonic |-> "tensor", shape |-> shape, elem |-> elem]

----------------------------------------------------------------------------
GetComputeTileIdVerified(op) ==
  Len(op.results) >= 1 /\ \A i \in DOMAIN op.results : op.results[i] = IndexType

CountDynamic(static) == Cardinality({d \in DOMAIN static : static[d] = kDynamic})

\* Mutant: both kinds of operands are counted together.
MemoryViewVerifiedTogether(op) ==
  /\ Len(op.static_strides) = Len(op.static_sizes)
  /\ Len(op.sizes) + Len(op.strides) =
       CountDynamic(op.static_sizes) + CountDynamic(op.static_strides)
  /\ Len(op.results[1].shape) = Len(op.static_sizes)

MemoryViewVerified(op) ==
  /\ Len(op.static_strides) = Len(op.static_sizes)
  /\ Len(op.sizes) = CountDynamic(op.static_sizes)
  /\ Len(op.strides) = CountDynamic(op.static_strides)
  /\ Len(op.results[1].shape) = Len(op.static_sizes)

\* Mutant: each input is compared with the first one only.
DistributedViewVerifiedAmongInputs(op, T) ==
  \A i \in DOMAIN op.memrefs :
    /\ T[op.memrefs[i]].elem = T[op.memrefs[1]].elem
    /\ Len(T[op.memrefs[i]].shape) = Len(T[op.memrefs[1]].shape)

DistributedViewVerified(op, T) ==
  \A i \in DOMAIN op.memrefs :
    /\ T[op.memrefs[i]].elem = op.results[1].elem
    /\ Len(T[op.memrefs[i]].shape) = Len(op.results[1].shape)

\* What verify of construct_access_tile says of the type (the rest is in AccessTile).
AccessTileVerifiedRank(op) == Len(op.results[1].shape) = op.set

\* Mutant: the result has the rank of the tile only.
LoadResultRank(T, tile, elem) ==
  RankedTensorType([i \in DOMAIN T[tile].shape |-> kDynamic], elem)

LoadResult(T, tile, elem) == RankedTensorType(T[tile].shape, elem)
LoadVerified(op, T) == T[op.tile].shape = op.results[1].shape

StoreVerified(op, T) == T[op.tile].shape = T[op.data].shape

RuntimeArgExtractKind == {"value", "granularity", "upperbound"}

ExtractResult(T, kind, input) == IF kind = "value" THEN T[input].under ELSE IndexType

\* Mutant: an absent upper bound goes unnoticed.
ExtractVerifiedLax(op, T) ==
  LET result == op.results[1]
  IN  /\ op.kind = "value" => result = T[op.input].under
      /\ op.kind = "granularity" => T[op.input].gran # <<>> /\ result = IndexType
      /\ op.kind = "upperbound" => result = IndexType

ExtractVerified(op, T) ==
  LET result == op.results[1]
  IN  /\ op.kind = "value" => result = T[op.input].under
      /\ op.kind = "granularity" => T[op.input].gran # <<>> /\ result = IndexType
      /\ op.kind = "upperbound" => T[op.input].ub # <<>> /\ result = IndexType

----------------------------------------------------------------------------
(* SpyreOp.  An inference that fails is <<>>. *)

FusingOps == {"exx2_fused", "exx2_zeromean_fused"}

fusedPairOf(scalar) ==
  CASE scalar = F16 -> <<FP16Fused>>
    [] scalar = DF16 -> <<DF16Fused>>
    [] scalar = F32 -> <<FP32Fused>>
    [] OTHER -> <<>>

\* Mutant: both halves taken for IEEE floats.
scalarBehindF16(fused) ==
  CASE fused \in {FP16Fused, DF16Fused} -> <<F16>>
    [] fused = FP32Fused -> <<F32>>
    [] OTHER -> <<>>

scalarBehind(fused) ==
  CASE fused = FP16Fused -> <<F16>>
    [] fused = DF16Fused -> <<DF16>>
    [] fused = FP32Fused -> <<F32>>
    [] OTHER -> <<>>

inferReturnTypes(name, operand) ==
  IF name \in FusingOps THEN fusedPairOf(operand) ELSE scalarBehind(operand)

\* The constraints of SpyreOp.td on operand and result, and InferTypeOpInterface.
OperandAllowed(name, operand) == operand \in IF name \in FusingOps THEN Scalars ELSE AnyFused

FusedVerified(op, T) ==
  /\ OperandAllowed(op.name, T[op.operand])
  /\ op.results[1] \in IF op.name \in FusingOps THEN AnyFused ELSE Scalars
  /\ inferReturnTypes(op.name, T[op.operand]) = op.results
=============================================================================
