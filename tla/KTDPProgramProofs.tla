-------------------------- MODULE KTDPProgramProofs --------------------------
(***************************************************************************)
(* Proofs about KTDPProgram: the properties of the value hold of the whole *)
(* specification, and what is known of each operation when it is appended  *)
(* stays true of it, because an operation is never changed and the values  *)
(* before it never change their types.                                     *)
(***************************************************************************)
EXTENDS KTDPProgram, KTDPValuesProofs, EnumerationLemmas

----------------------------------------------------------------------------
(* The value *)

LEMMA StartKeepsValue ==
  ASSUME ValuesInv, Start
  PROVE  ValuesInv'
<1> DEFINE v == value[1]
<1>1. value = <<v>> /\ IsValue(v) /\ stage = "held" /\ (asserts => Verified(v))
  BY HeldValue DEF Start, ValuesInv, HeldIsVerified
<1>2. UNCHANGED <<asserts, stage, value>> /\ text' = <<>> /\ original' = <<>>
  BY DEF Start
<1> HIDE DEF v
<1> QED
  BY <1>1, <1>2, Makes

LEMMA OperateKeepsValue ==
  ASSUME Operate
  PROVE  /\ UNCHANGED valueVars /\ verdict = "accepted"
         /\ verdict' \in {"accepted", "rejected", "uninferable"}
BY DEF Operate, More, Emit, GetComputeTileId, ConstructMemoryView, ConstructDistributedMemoryView,
       ConstructAccessTile, Load, LoadBuilt, Store, RuntimeArgExtract, Fused, FusedBuilt

LEMMA ValueInvariant == Spec => []ValuesInv
<1>1. Init => ValuesInv
  BY ValuesInitially DEF Init
<1>2. ValuesInv /\ [Next]_vars => ValuesInv'
  <2> SUFFICES ASSUME ValuesInv, [Next]_vars PROVE ValuesInv'
    OBVIOUS
  <2>1. CASE Make
    BY <2>1, ValuesStep DEF Make
  <2>2. CASE Start
    BY <2>2, StartKeepsValue
  <2>3. CASE Operate
    BY <2>3, OperateKeepsValue, ValuesStutter
  <2>4. CASE UNCHANGED vars
    BY <2>4, ValuesStutter DEF vars
  <2> QED
    BY <2>1, <2>2, <2>3, <2>4 DEF Next
<1> QED
  BY <1>1, <1>2, PTL DEF Spec

\* However a value is made, edited and copied, a build with asserts holds only verified
\* ones (get and getChecked of every type, C API, bindings and Builders).
THEOREM HeldIsVerifiedHolds == Spec => []HeldIsVerified
<1>1. ValuesInv => HeldIsVerified
  BY DEF ValuesInv
<1> QED
  BY <1>1, ValueInvariant, PTL

\* Whatever precedes it, a print followed by a parse gives the value back or refuses a
\* value that was never verified.
THEOREM TextIsFaithfulHolds == Spec => []TextIsFaithful
<1>1. ValuesInv => TextIsFaithful
  BY DEF ValuesInv
<1> QED
  BY <1>1, ValueInvariant, PTL

\* Whatever precedes it, Python's copy of a verified value is the value.
THEOREM AccessorsMirrorValueHolds == Spec => []AccessorsMirrorValue
<1>1. ValuesInv => AccessorsMirrorValue
  BY DEF ValuesInv
<1> QED
  BY <1>1, ValueInvariant, PTL

----------------------------------------------------------------------------
(* The invariant of the operations *)

ViewMakers == {"argument", "construct_memory_view", "construct_distributed_memory_view"}
AllFused == FusingOps \cup {"layernormscale_fused"}

\* A runtime_arg is an argument, so it is the value the function is about.
RuntimeArgsAreTheValue == \A i \in ValuesOf("runtime_arg") : T[i] = value[1]

\* A memref comes from an operation that has leaves, and agrees with them.
MemRefsHaveLeaves == \A i \in ValuesOf("memref") : ops[i].name \in ViewMakers
LeavesAgree ==
  \A i \in AcceptedOps(ViewMakers) :
    /\ i \in Typed
    /\ \A leaf \in ops[i].leaves :
         /\ leaf \in Accepted /\ leaf \in Typed
         /\ T[leaf].elem = T[i].elem /\ Len(T[leaf].shape) = Len(T[i].shape)

ExtractionsVerified ==
  \A i \in AcceptedOps({"runtime_arg_extract"}) :
    ops[i].input \in ValuesOf("runtime_arg") /\ ExtractVerified(ops[i], T)

FusionsVerified ==
  \A i \in AcceptedOps(AllFused) :
    i \in Typed /\ ops[i].operand \in Typed /\ FusedVerified(ops[i], T)

\* The static lists of a view are lists of integers, its operands a list.
ViewTyped(op) ==
  /\ op.static_sizes \in Seq(Int) /\ op.static_strides \in Seq(Int)
  /\ op.sizes \in Seq(Range(op.sizes)) /\ op.strides \in Seq(Range(op.strides))

ViewsVerified ==
  \A i \in AcceptedOps({"construct_memory_view"}) :
    ViewTyped(ops[i]) /\ MemoryViewVerified(ops[i])

OpsInv ==
  /\ TypeOK
  /\ verdict = "none" => ops = <<>>
  /\ RuntimeArgsAreTheValue
  /\ MemRefsHaveLeaves /\ LeavesAgree
  /\ ExtractionsVerified
  /\ FusionsVerified
  /\ ViewsVerified

\* What is known of an operation when it is appended.
Appended(op, accepted) ==
  /\ op.name \in Names \ {"argument"} /\ OperandsOf(op) \subseteq Typed
  /\ op.results # <<>> => /\ op.results[1].mnemonic # "runtime_arg"
                          /\ op.results[1].mnemonic = "memref" => op.name \in ViewMakers
  /\ op.name = "construct_memory_view" =>
       /\ op.results # <<>> /\ op.leaves = {Len(ops) + 1}
       /\ ViewTyped(op)
       /\ accepted => MemoryViewVerified(op)
  /\ op.name = "construct_distributed_memory_view" =>
       /\ op.results # <<>>
       /\ \A k \in DOMAIN op.memrefs : op.memrefs[k] \in ValuesOf("memref")
       /\ op.leaves = UNION {ops[op.memrefs[k]].leaves : k \in DOMAIN op.memrefs}
       /\ accepted => DistributedViewVerified(op, T)
  /\ op.name = "runtime_arg_extract" =>
       op.input \in ValuesOf("runtime_arg") /\ (accepted => ExtractVerified(op, T))
  /\ op.name \in AllFused =>
       /\ op.operand \in Typed
       /\ accepted => op.results # <<>> /\ FusedVerified(op, T)

AppendsOne ==
  \E op : /\ ops' = Append(ops, op) /\ Appended(op, verdict' = "accepted")
          /\ verdict = "accepted" /\ verdict' \in {"accepted", "rejected", "uninferable"}
          /\ UNCHANGED valueVars

----------------------------------------------------------------------------
LEMMA OpsOf ==
  ASSUME TypeOK
  PROVE  /\ Len(ops) \in Nat /\ DOMAIN ops = 1 .. Len(ops)
         /\ Typed \subseteq 1 .. Len(ops)
         /\ \A i \in Typed : T[i] = ops[i].results[1]
<1>1. Len(ops) \in Nat /\ DOMAIN ops = 1 .. Len(ops)
  BY LenProperties DEF TypeOK
<1> QED
  BY <1>1 DEF Typed, T

LEMMA AppendFacts ==
  ASSUME TypeOK, NEW op, ops' = Append(ops, op)
  PROVE  /\ ops' \in Seq(Range(ops'))
         /\ Len(ops) \in Nat /\ Len(ops') = Len(ops) + 1
         /\ DOMAIN ops = 1 .. Len(ops) /\ DOMAIN ops' = 1 .. Len(ops) + 1
         /\ \A i \in 1 .. Len(ops) : ops'[i] = ops[i]
         /\ ops'[Len(ops) + 1] = op
<1> DEFINE S == Range(ops) \cup {op}
<1>1. Len(ops) \in Nat /\ DOMAIN ops = 1 .. Len(ops) /\ ops \in Seq(Range(ops))
  BY OpsOf DEF TypeOK
<1>2. ops \in Seq(S)
  BY <1>1, SeqMonotonic
<1>3. /\ Append(ops, op) \in Seq(S) /\ Len(Append(ops, op)) = Len(ops) + 1
      /\ \A i \in 1 .. Len(ops) : Append(ops, op)[i] = ops[i]
      /\ Append(ops, op)[Len(ops) + 1] = op
  BY <1>1, <1>2, AppendProperties
<1>4. DOMAIN ops' = 1 .. Len(ops) + 1 /\ Len(ops') = Len(ops) + 1
  BY <1>1, <1>3, LenProperties
<1>5. ops' \in [1 .. Len(ops) + 1 -> Range(ops')]
  <2>1. \A i \in DOMAIN ops' : ops'[i] \in Range(ops')
    BY DEF Range
  <2>2. ops' \in [1 .. Len(ops') -> S]
    BY <1>3, LenProperties
  <2> QED
    BY <1>4, <2>1, <2>2
<1>6. ops' \in Seq(Range(ops'))
  BY <1>1, <1>5, Len(ops) + 1 \in Nat, FunctionIsSeq
<1> QED
  BY <1>1, <1>3, <1>4, <1>6

LEMMA TypesKept ==
  ASSUME TypeOK, NEW op, ops' = Append(ops, op)
  PROVE  /\ Typed \subseteq Typed'
         /\ Typed' \subseteq Typed \cup {Len(ops) + 1}
         /\ \A i \in Typed : T'[i] = T[i]
         /\ op.results # <<>> =>
              Len(ops) + 1 \in Typed' /\ T'[Len(ops) + 1] = op.results[1]
         /\ Len(ops) + 1 \in Typed' => op.results # <<>>
<1>1. /\ Len(ops) \in Nat /\ DOMAIN ops = 1 .. Len(ops) /\ DOMAIN ops' = 1 .. Len(ops) + 1
      /\ \A i \in 1 .. Len(ops) : ops'[i] = ops[i]
      /\ ops'[Len(ops) + 1] = op
  BY AppendFacts
<1>2. \A i \in 1 .. Len(ops) + 1 : i \in 1 .. Len(ops) \/ i = Len(ops) + 1
  BY <1>1
<1>3. 1 .. Len(ops) \subseteq 1 .. Len(ops) + 1 /\ Len(ops) + 1 \in 1 .. Len(ops) + 1
  BY <1>1
<1>4. Typed \subseteq Typed' /\ Typed' \subseteq Typed \cup {Len(ops) + 1}
  BY <1>1, <1>2, <1>3 DEF Typed
<1>5. \A i \in Typed : T'[i] = T[i]
  <2> TAKE i \in Typed
  <2>1. i \in Typed' /\ i \in 1 .. Len(ops)
    BY <1>1, <1>4 DEF Typed
  <2> QED
    BY <1>1, <2>1 DEF T
<1>6. /\ op.results # <<>> =>
           Len(ops) + 1 \in Typed' /\ T'[Len(ops) + 1] = op.results[1]
      /\ Len(ops) + 1 \in Typed' => op.results # <<>>
  BY <1>1, <1>3 DEF Typed, T
<1> QED
  BY <1>4, <1>5, <1>6
LEMMA Floats ==
  /\ Scalars \subseteq Types /\ AnyFused \subseteq Types
  /\ F16 # DF16 /\ F16 # F32 /\ DF16 # F32
  /\ FP16Fused # DF16Fused /\ FP16Fused # FP32Fused /\ DF16Fused # FP32Fused
<1> DEFINE all == <<F16, DF16, F32, FP16Fused, DF16Fused, FP32Fused>>
<1>1. /\ DOMAIN all = 1 .. 6
      /\ all[1] = F16 /\ all[2] = DF16 /\ all[3] = F32
      /\ all[4] = FP16Fused /\ all[5] = DF16Fused /\ all[6] = FP32Fused
  OBVIOUS
<1>2. \A i, j \in DOMAIN all : all[i] \in Types /\ (all[i] = all[j] => i = j)
  BY FloatsAssumption
<1> HIDE DEF all
<1>3. \A i, j \in 1 .. 6 : all[i] \in Types /\ (all[i] = all[j] => i = j)
  BY <1>1, <1>2
<1>4. {1, 2, 3, 4, 5, 6} \subseteq 1 .. 6
  OBVIOUS
<1> QED
  BY <1>1, <1>3, <1>4 DEF Scalars, AnyFused

LEMMA InferredIsFloat ==
  ASSUME NEW name, NEW operand, inferReturnTypes(name, operand) # <<>>
  PROVE  inferReturnTypes(name, operand)[1] \in Types
BY Floats DEF inferReturnTypes, fusedPairOf, scalarBehind, Scalars, AnyFused

LEMMA RuntimeArgTyped ==
  ASSUME ValuesInv, OpsInv, NEW i \in ValuesOf("runtime_arg")
  PROVE  T[i] = value[1] /\ IsArg(value[1]) /\ value[1].under \in Types
<1>1. T[i] = value[1] /\ value[1].mnemonic = "runtime_arg"
  BY DEF OpsInv, RuntimeArgsAreTheValue, ValuesOf
<1>2. ops # <<>>
  BY OpsOf DEF ValuesOf, Typed, OpsInv
<1>3. IsValue(value[1])
  <2>1. stage = "held"
    BY <1>2 DEF OpsInv, TypeOK
  <2> QED
    BY <2>1, HeldValue
<1>4. IsArg(value[1])
  BY <1>1, <1>3, MnemonicTells
<1> QED
  BY <1>1, <1>4 DEF IsArg

LEMMA PlainTypes ==
  ASSUME NEW t \in Types
  PROVE  t.mnemonic \notin {"memref", "tensor", "access_tile", "runtime_arg"}
BY SignaturesAssumption

LEMMA IndexIsPlain == IndexType \in Types
BY TypesAssumption

LEMMA IndicesAreLists == \A s \in Indices : s \in Seq(Range(s))
<1> SUFFICES ASSUME NEW n \in 0 .. 1, NEW S, NEW s \in [1 .. n -> S]
             PROVE  s \in Seq(Range(s))
  BY DEF Indices
<1>1. s \in [1 .. n -> Range(s)]
  BY DEF Range
<1> QED
  BY <1>1, n \in Nat, FunctionIsSeq

LEMMA OperateAppends ==
  ASSUME ValuesInv, OpsInv, Operate
  PROVE  AppendsOne
<1>0. /\ UNCHANGED valueVars /\ verdict = "accepted"
      /\ verdict' \in {"accepted", "rejected", "uninferable"}
  BY OperateKeepsValue
<1> SUFFICES \E op : ops' = Append(ops, op) /\ Appended(op, verdict' = "accepted")
  BY <1>0 DEF AppendsOne
<1>1. CASE GetComputeTileId
  <2>1. PICK n \in 0 .. 1 :
          ops' = Append(ops, [name |-> "get_compute_tile_id",
                              results |-> [i \in 1 .. n |-> IndexType]])
    BY <1>1 DEF GetComputeTileId, Emit
  <2> DEFINE r == [i \in 1 .. n |-> IndexType]
             op == [name |-> "get_compute_tile_id", results |-> r]
  <2>2. r # <<>> => r[1] = IndexType
    <3>1. CASE n = 0
      <4>1. r = <<>>
        BY <3>1
      <4> QED
        BY <4>1
    <3>2. CASE n = 1
      BY <3>2
    <3> QED
      BY <3>1, <3>2
  <2>3. op.name = "get_compute_tile_id" /\ op.results = r
    OBVIOUS
  <2>4. ops' = Append(ops, op)
    BY <2>1
  <2> HIDE DEF r, op
  <2>5. OperandsOf(op) = {}
    BY <2>3 DEF OperandsOf, FusingOps
  <2>6. Appended(op, verdict' = "accepted")
    BY <2>2, <2>3, <2>5, IndexIsPlain, PlainTypes DEF Appended, Names, AllFused, FusingOps, ViewMakers
  <2> QED
    BY <2>4, <2>6
<1>2. CASE ConstructMemoryView
  <2>1. PICK static \in Static, sizes \in Indices, strides \in Indices, type \in MemRefs :
          LET op == [name |-> "construct_memory_view", memory_space |-> value[1],
                     static_sizes |-> static[1], static_strides |-> static[2],
                     sizes |-> sizes, strides |-> strides, results |-> <<type>>,
                     leaves |-> {Len(ops) + 1}]
          IN  /\ ops' = Append(ops, op)
              /\ verdict' = "accepted" => MemoryViewVerified(op)
    BY <1>2 DEF ConstructMemoryView, Emit
  <2> DEFINE op == [name |-> "construct_memory_view", memory_space |-> value[1],
                  static_sizes |-> static[1], static_strides |-> static[2],
                  sizes |-> sizes, strides |-> strides, results |-> <<type>>,
                  leaves |-> {Len(ops) + 1}]
  <2>2. /\ op.name = "construct_memory_view" /\ op.results # <<>> /\ op.results[1] = type
        /\ op.sizes = sizes /\ op.strides = strides /\ op.leaves = {Len(ops) + 1}
        /\ op.static_sizes = static[1] /\ op.static_strides = static[2]
    OBVIOUS
  <2>3. ops' = Append(ops, op) /\ (verdict' = "accepted" => MemoryViewVerified(op))
    BY <2>1
  <2> HIDE DEF op
  <2>4. Range(sizes) \subseteq Typed /\ Range(strides) \subseteq Typed
    BY DEF Indices, Range
  <2>5. OperandsOf(op) \subseteq Typed
    BY <2>2, <2>4 DEF OperandsOf, FusingOps
  <2>6. ViewTyped(op)
    <3>1. static[1] \in Seq(Int) /\ static[2] \in Seq(Int)
      BY SignaturesAssumption
    <3>2. sizes \in Seq(Range(sizes)) /\ strides \in Seq(Range(strides))
      BY IndicesAreLists
    <3> QED
      BY <2>2, <3>1, <3>2 DEF ViewTyped
  <2>7. Appended(op, verdict' = "accepted")
    BY <2>2, <2>3, <2>5, <2>6, SignaturesAssumption
       DEF Appended, Names, AllFused, FusingOps, ViewMakers
  <2> QED
    BY <2>3, <2>7
<1>3. CASE ConstructDistributedMemoryView
  <2>1. PICK n \in 1 .. 2 : \E memrefs \in [1 .. n -> ValuesOf("memref")], type \in MemRefs :
       LET op == [name |-> "construct_distributed_memory_view", memrefs |-> memrefs,
                  results |-> <<type>>,
                  leaves |-> UNION {ops[memrefs[i]].leaves : i \in 1 .. n}]
       IN  Emit(op, DistributedViewVerified(op, T))
    BY <1>3 DEF ConstructDistributedMemoryView
  <2>2. PICK memrefs \in [1 .. n -> ValuesOf("memref")], type \in MemRefs :
       LET op == [name |-> "construct_distributed_memory_view", memrefs |-> memrefs,
                  results |-> <<type>>,
                  leaves |-> UNION {ops[memrefs[i]].leaves : i \in 1 .. n}]
       IN  Emit(op, DistributedViewVerified(op, T))
    BY <2>1
  <2> DEFINE op == [name |-> "construct_distributed_memory_view", memrefs |-> memrefs,
                    results |-> <<type>>,
                    leaves |-> UNION {ops[memrefs[i]].leaves : i \in 1 .. n}]
  <2>3. /\ ops' = Append(ops, op)
        /\ verdict' = "accepted" => DistributedViewVerified(op, T)
    BY <2>2 DEF Emit
  <2>4. /\ op.name = "construct_distributed_memory_view" /\ op.results # <<>>
        /\ op.results[1] = type /\ op.memrefs = memrefs /\ DOMAIN op.memrefs = 1 .. n
        /\ op.leaves = UNION {ops[op.memrefs[k]].leaves : k \in DOMAIN op.memrefs}
    OBVIOUS
  <2> HIDE DEF op
  <2>5. /\ \A k \in DOMAIN op.memrefs : op.memrefs[k] \in ValuesOf("memref")
        /\ OperandsOf(op) \subseteq Typed
    BY <2>4 DEF OperandsOf, Range, ValuesOf, FusingOps
  <2>6. Appended(op, verdict' = "accepted")
    BY <2>3, <2>4, <2>5, SignaturesAssumption DEF Appended, Names, AllFused, FusingOps, ViewMakers
  <2> QED
    BY <2>3, <2>6
<1>4. CASE ConstructAccessTile
  <2>1. PICK base \in Typed, shape \in TileShapes, dims \in 0 .. 1 :
          ops' = Append(ops, [name |-> "construct_access_tile", base |-> base, set |-> dims,
                              results |-> <<AccessTileType(shape, IndexType)>>])
    BY <1>4 DEF ConstructAccessTile, Emit, ValuesOf
  <2> DEFINE op == [name |-> "construct_access_tile", base |-> base, set |-> dims,
                    results |-> <<AccessTileType(shape, IndexType)>>]
  <2>2. /\ op.name = "construct_access_tile" /\ op.results[1].mnemonic = "access_tile"
        /\ op.base = base
    BY DEF AccessTileType
  <2>3. ops' = Append(ops, op)
    BY <2>1
  <2> HIDE DEF op
  <2>4. OperandsOf(op) \subseteq Typed
    BY <2>1, <2>2 DEF OperandsOf, FusingOps
  <2>5. Appended(op, verdict' = "accepted")
    BY <2>2, <2>4 DEF Appended, Names, AllFused, FusingOps
  <2> QED
    BY <2>3, <2>5
<1>5. CASE Load \/ LoadBuilt
  <2>1. PICK tile \in Typed : \E built \in BOOLEAN : \E type :
          /\ type.mnemonic = "tensor"
          /\ ops' = Append(ops, [name |-> "load", tile |-> tile, built |-> built,
                                 results |-> <<type>>])
    <3>1. CASE Load
      BY <3>1, SignaturesAssumption DEF Load, Emit, ValuesOf
    <3>2. CASE LoadBuilt
      <4>1. PICK tile \in ValuesOf("access_tile"), elem \in Scalars :
              ops' = Append(ops, [name |-> "load", tile |-> tile, built |-> TRUE,
                                  results |-> <<LoadResult(T, tile, elem)>>])
        BY <3>2 DEF LoadBuilt, Emit
      <4>2. LoadResult(T, tile, elem).mnemonic = "tensor"
        BY DEF LoadResult, RankedTensorType
      <4> QED
        BY <4>1, <4>2 DEF ValuesOf
    <3> QED
      BY <1>5, <3>1, <3>2
  <2>2. PICK built \in BOOLEAN : \E type :
          /\ type.mnemonic = "tensor"
          /\ ops' = Append(ops, [name |-> "load", tile |-> tile, built |-> built,
                                 results |-> <<type>>])
    BY <2>1
  <2>3. PICK type :
          /\ type.mnemonic = "tensor"
          /\ ops' = Append(ops, [name |-> "load", tile |-> tile, built |-> built,
                                 results |-> <<type>>])
    BY <2>2
  <2> DEFINE op == [name |-> "load", tile |-> tile, built |-> built, results |-> <<type>>]
  <2>4. op.name = "load" /\ op.results[1] = type /\ op.tile = tile
    OBVIOUS
  <2>5. ops' = Append(ops, op)
    BY <2>3
  <2> HIDE DEF op
  <2>6. OperandsOf(op) \subseteq Typed
    BY <2>3, <2>4 DEF OperandsOf, FusingOps
  <2>7. Appended(op, verdict' = "accepted")
    BY <2>3, <2>4, <2>6 DEF Appended, Names, AllFused, FusingOps
  <2> QED
    BY <2>5, <2>7
<1>6. CASE Store
  <2>1. PICK data \in Typed, tile \in Typed :
          ops' = Append(ops, [name |-> "store", data |-> data, tile |-> tile, results |-> <<>>])
    BY <1>6 DEF Store, Emit, ValuesOf
  <2> DEFINE op == [name |-> "store", data |-> data, tile |-> tile, results |-> <<>>]
  <2>2. op.name = "store" /\ op.results = <<>> /\ op.tile = tile /\ op.data = data
    OBVIOUS
  <2>3. ops' = Append(ops, op)
    BY <2>1
  <2> HIDE DEF op
  <2>4. OperandsOf(op) \subseteq Typed
    BY <2>1, <2>2 DEF OperandsOf, FusingOps
  <2>5. Appended(op, verdict' = "accepted")
    BY <2>2, <2>4 DEF Appended, Names, AllFused, FusingOps
  <2> QED
    BY <2>3, <2>5
<1>7. CASE RuntimeArgExtract
  <2>1. PICK kind \in RuntimeArgExtractKind, input \in ValuesOf("runtime_arg"),
             built \in BOOLEAN :
         \E type \in IF built THEN {ExtractResult(T, kind, input)} ELSE Types :
           LET op == [name |-> "runtime_arg_extract", kind |-> kind, input |-> input,
                      built |-> built, results |-> <<type>>]
           IN  Emit(op, ExtractVerified(op, T))
    BY <1>7 DEF RuntimeArgExtract
  <2>2. PICK type \in IF built THEN {ExtractResult(T, kind, input)} ELSE Types :
         LET op == [name |-> "runtime_arg_extract", kind |-> kind, input |-> input,
                    built |-> built, results |-> <<type>>]
         IN  Emit(op, ExtractVerified(op, T))
    BY <2>1
  <2> DEFINE op == [name |-> "runtime_arg_extract", kind |-> kind, input |-> input,
                    built |-> built, results |-> <<type>>]
  <2>3. ExtractResult(T, kind, input) \in Types
    BY RuntimeArgTyped, IndexIsPlain DEF ExtractResult
  <2>4. type \in Types
    BY <2>3
  <2>5. ops' = Append(ops, op) /\ (verdict' = "accepted" => ExtractVerified(op, T))
    BY <2>2 DEF Emit
  <2>6. op.name = "runtime_arg_extract" /\ op.results[1] = type /\ op.input = input
    OBVIOUS
  <2> HIDE DEF op
  <2>7. OperandsOf(op) \subseteq Typed
    BY <2>6 DEF OperandsOf, ValuesOf, FusingOps
  <2>8. Appended(op, verdict' = "accepted")
    BY <2>4, <2>5, <2>6, <2>7, PlainTypes DEF Appended, Names, AllFused, FusingOps
  <2> QED
    BY <2>5, <2>8
<1>8. CASE Fused
  <2>1. PICK name \in AllFused, operand \in Typed, type \in Types :
         LET op == [name |-> name, operand |-> operand, built |-> FALSE, results |-> <<type>>]
         IN  Emit(op, FusedVerified(op, T))
    BY <1>8 DEF Fused, AllFused
  <2> DEFINE op == [name |-> name, operand |-> operand, built |-> FALSE, results |-> <<type>>]
  <2>2. ops' = Append(ops, op) /\ (verdict' = "accepted" => FusedVerified(op, T))
    BY <2>1 DEF Emit
  <2>3. op.name \in AllFused /\ op.results # <<>> /\ op.results[1] = type /\ op.operand = operand
    BY <2>1
  <2> HIDE DEF op
  <2>4. OperandsOf(op) \subseteq Typed
    BY <2>3 DEF OperandsOf, AllFused, FusingOps
  <2>5. Appended(op, verdict' = "accepted")
    BY <2>2, <2>3, <2>4, PlainTypes DEF Appended, Names, AllFused, FusingOps
  <2> QED
    BY <2>2, <2>5
<1>9. CASE FusedBuilt
  <2>1. PICK name \in AllFused, operand \in Typed :
         LET op == [name |-> name, operand |-> operand, built |-> TRUE,
                    results |-> inferReturnTypes(name, T[operand])]
         IN  IF op.results = <<>>
             THEN /\ ops' = Append(ops, op) /\ verdict' = "uninferable"
                  /\ UNCHANGED valueVars
             ELSE Emit(op, FusedVerified(op, T))
    BY <1>9 DEF FusedBuilt, AllFused
  <2> DEFINE r == inferReturnTypes(name, T[operand])
             op == [name |-> name, operand |-> operand, built |-> TRUE, results |-> r]
  <2>2. r # <<>> => r[1] \in Types
    BY InferredIsFloat
  <2>3. /\ ops' = Append(ops, op)
        /\ verdict' = "accepted" => r # <<>> /\ FusedVerified(op, T)
    BY <2>1 DEF Emit
  <2>4. op.name \in AllFused /\ op.results = r /\ op.operand = operand
    BY <2>1
  <2> HIDE DEF op, r
  <2>5. OperandsOf(op) \subseteq Typed
    BY <2>4 DEF OperandsOf, AllFused, FusingOps
  <2>6. Appended(op, verdict' = "accepted")
    BY <2>2, <2>3, <2>4, <2>5, PlainTypes DEF Appended, Names, AllFused, FusingOps
  <2> QED
    BY <2>3, <2>6
<1> QED
  BY <1>1, <1>2, <1>3, <1>4, <1>5, <1>6, <1>7, <1>8, <1>9 DEF Operate
----------------------------------------------------------------------------
(* Its preservation *)

LEMMA NoOperations ==
  ASSUME ops = <<>>, ValuesTypeOK, verdict = "none"
  PROVE  OpsInv
<1>1. Typed = {} /\ Accepted = {} /\ DOMAIN ops = {}
  BY DEF Typed, Accepted
<1>2. ops \in Seq(Range(ops))
  BY NoElement
<1> QED
  BY <1>1, <1>2 DEF OpsInv, TypeOK, RuntimeArgsAreTheValue, MemRefsHaveLeaves, LeavesAgree,
                    ExtractionsVerified, FusionsVerified, ViewsVerified, AcceptedOps, ValuesOf

LEMMA OpsInitially == Init => OpsInv
BY NoOperations, ValuesInitially DEF Init, ValuesInv

LEMMA MakeKeepsOps ==
  ASSUME ValuesInv, OpsInv, Make
  PROVE  OpsInv'
<1>1. ops' = <<>> /\ verdict' = "none"
  BY DEF Make, OpsInv
<1>2. ValuesTypeOK'
  BY ValuesStep DEF Make, ValuesInv
<1>3. Typed' = {} /\ Accepted' = {} /\ DOMAIN ops' = {}
  BY <1>1 DEF Typed, Accepted
<1>4. ops' \in Seq(Range(ops'))
  BY <1>1, NoElement
<1> QED
  BY <1>1, <1>2, <1>3, <1>4
     DEF OpsInv, TypeOK, RuntimeArgsAreTheValue, MemRefsHaveLeaves, LeavesAgree,
         ExtractionsVerified, FusionsVerified, ViewsVerified, AcceptedOps, ValuesOf

LEMMA StartKeepsOps ==
  ASSUME ValuesInv, OpsInv, Start
  PROVE  OpsInv'
<1>1. PICK s \in Signatures :
        /\ s.value = value[1]
        /\ ops' = [i \in DOMAIN s.args |->
                    [name |-> "argument", results |-> <<s.args[i]>>, leaves |-> {i}]]
  BY DEF Start
<1>2. /\ s.args \in Seq(Range(s.args))
      /\ \A t \in Range(s.args) : t.mnemonic = "runtime_arg" => t = value[1]
  BY <1>1, SignaturesAssumption
<1>3. Len(s.args) \in Nat /\ DOMAIN s.args = 1 .. Len(s.args)
  BY <1>2, LenProperties
<1>4. /\ DOMAIN ops' = 1 .. Len(s.args)
      /\ \A i \in 1 .. Len(s.args) :
           /\ ops'[i].name = "argument" /\ ops'[i].results = <<s.args[i]>>
           /\ ops'[i].leaves = {i}
  BY <1>1, <1>3
<1>5. /\ verdict' = "accepted" /\ stage' = "held" /\ value' = value /\ ValuesTypeOK'
  BY StartKeepsValue DEF Start, ValuesInv
<1>6. ops' \in Seq(Range(ops'))
  <2>1. ops' \in [1 .. Len(s.args) -> Range(ops')]
    BY <1>1, <1>3 DEF Range
  <2> QED
    BY <1>3, <2>1, FunctionIsSeq
<1>7. /\ Typed' = 1 .. Len(s.args) /\ Accepted' = 1 .. Len(s.args)
      /\ \A i \in 1 .. Len(s.args) : T'[i] = s.args[i]
  <2>1. Typed' = 1 .. Len(s.args)
    BY <1>4 DEF Typed
  <2> QED
    BY <1>4, <1>5, <2>1 DEF T, Accepted
<1>8. \A i \in 1 .. Len(s.args) : OperandsOf(ops'[i]) = {}
  BY <1>4 DEF OperandsOf, FusingOps
<1>9. TypeOK'
  BY <1>4, <1>5, <1>6, <1>8 DEF TypeOK, Names
<1>10. RuntimeArgsAreTheValue'
  BY <1>2, <1>3, <1>5, <1>7 DEF RuntimeArgsAreTheValue, ValuesOf, Range
<1>11. MemRefsHaveLeaves' /\ LeavesAgree'
  BY <1>4, <1>7 DEF MemRefsHaveLeaves, LeavesAgree, ValuesOf, AcceptedOps, ViewMakers
<1>12. ExtractionsVerified' /\ FusionsVerified' /\ ViewsVerified'
  BY <1>4, <1>7 DEF ExtractionsVerified, FusionsVerified, ViewsVerified, AcceptedOps, AllFused,
                    FusingOps
<1> QED
  BY <1>5, <1>9, <1>10, <1>11, <1>12 DEF OpsInv

\* What an appended operation is and what becomes of those before it, for all the
\* conjuncts of the invariant.
LEMMA AcceptedAfter ==
  ASSUME TypeOK, NEW op, ops' = Append(ops, op), verdict = "accepted"
  PROVE  /\ Accepted = 1 .. Len(ops) /\ Accepted \subseteq Accepted'
         /\ Len(ops) + 1 \in Accepted' => verdict' = "accepted"
         /\ \A i \in Accepted' : i \in Accepted \/ i = Len(ops) + 1
<1>1. /\ Len(ops) \in Nat /\ Len(ops') = Len(ops) + 1
      /\ DOMAIN ops = 1 .. Len(ops) /\ DOMAIN ops' = 1 .. Len(ops) + 1
  BY AppendFacts
<1>2. Accepted = 1 .. Len(ops)
  BY <1>1 DEF Accepted
<1>3. \A i \in 1 .. Len(ops) : i \in 1 .. Len(ops) + 1 /\ i < Len(ops) + 1
  BY <1>1
<1>4. \A i \in 1 .. Len(ops) + 1 : i \in 1 .. Len(ops) \/ i = Len(ops) + 1
  BY <1>1
<1>5. ~(Len(ops) + 1 < Len(ops) + 1)
  BY <1>1
<1> QED
  BY <1>1, <1>2, <1>3, <1>4, <1>5 DEF Accepted

LEMMA AppendKeepsOps ==
  ASSUME ValuesInv, OpsInv, AppendsOne
  PROVE  OpsInv'
<1>1. PICK op : /\ ops' = Append(ops, op) /\ Appended(op, verdict' = "accepted")
                /\ verdict = "accepted" /\ verdict' \in {"accepted", "rejected", "uninferable"}
                /\ UNCHANGED valueVars
  BY DEF AppendsOne
<1> DEFINE n == Len(ops) + 1
<1>0. TypeOK
  BY DEF OpsInv
<1>2. /\ ops' \in Seq(Range(ops'))
      /\ Len(ops) \in Nat
      /\ DOMAIN ops = 1 .. Len(ops) /\ DOMAIN ops' = 1 .. n
      /\ \A i \in 1 .. Len(ops) : ops'[i] = ops[i]
      /\ ops'[n] = op
  BY <1>0, <1>1, AppendFacts
<1>3. /\ Typed \subseteq Typed' /\ \A i \in Typed' : i \in Typed \/ i = n
      /\ \A i \in Typed : T'[i] = T[i]
      /\ op.results # <<>> => n \in Typed' /\ T'[n] = op.results[1]
      /\ n \in Typed' => op.results # <<>>
  BY <1>0, <1>1, TypesKept
<1>4. /\ Accepted = 1 .. Len(ops) /\ Accepted \subseteq Accepted'
      /\ n \in Accepted' => verdict' = "accepted"
      /\ \A i \in Accepted' : i \in Accepted \/ i = n
  BY <1>0, <1>1, AcceptedAfter
<1>5. /\ Typed \subseteq 1 .. Len(ops) /\ n \notin 1 .. Len(ops)
      /\ \A i \in 1 .. n : i \in 1 .. Len(ops) \/ i = n
      /\ \A i \in 1 .. Len(ops) : i < n
  BY <1>0, <1>2, OpsOf
<1>6. UNCHANGED <<asserts, stage, value>> /\ ValuesTypeOK'
  BY <1>1, ValuesStutter DEF valueVars, ValuesInv
<1> HIDE DEF n
<1>7. TypeOK'
  <2>1. \A i \in 1 .. Len(ops) :
          ops'[i].name \in Names /\ OperandsOf(ops'[i]) \subseteq {j \in Typed' : j < i}
    BY <1>0, <1>2, <1>3 DEF TypeOK
  <2>2. op.name \in Names /\ OperandsOf(op) \subseteq {j \in Typed' : j < n}
    BY <1>1, <1>3, <1>5 DEF Appended
  <2>3. \A i \in DOMAIN ops' :
          ops'[i].name \in Names /\ OperandsOf(ops'[i]) \subseteq {j \in Typed' : j < i}
    BY <1>2, <1>5, <2>1, <2>2
  <2>4. stage' = "held"
    BY <1>0, <1>1, <1>6 DEF TypeOK
  <2> QED
    BY <1>1, <1>2, <1>6, <2>3, <2>4 DEF TypeOK
<1>8. RuntimeArgsAreTheValue'
  <2> SUFFICES ASSUME NEW i \in Typed', T'[i].mnemonic = "runtime_arg" PROVE T'[i] = value'[1]
    BY DEF RuntimeArgsAreTheValue, ValuesOf
  <2>1. CASE i \in Typed
    BY <1>3, <1>6, <2>1 DEF OpsInv, RuntimeArgsAreTheValue, ValuesOf
  <2>2. CASE i = n
    BY <1>1, <1>3, <2>2 DEF Appended
  <2> QED
    BY <1>3, <2>1, <2>2
<1>9. MemRefsHaveLeaves'
  <2> SUFFICES ASSUME NEW i \in Typed', T'[i].mnemonic = "memref"
               PROVE  ops'[i].name \in ViewMakers
    BY DEF MemRefsHaveLeaves, ValuesOf
  <2>1. CASE i \in Typed
    BY <1>2, <1>3, <1>5, <2>1 DEF OpsInv, MemRefsHaveLeaves, ValuesOf
  <2>2. CASE i = n
    BY <1>1, <1>2, <1>3, <2>2 DEF Appended
  <2> QED
    BY <1>3, <2>1, <2>2
<1>10. LeavesAgree'
  <2> SUFFICES ASSUME NEW i \in Accepted', ops'[i].name \in ViewMakers
               PROVE  /\ i \in Typed'
                      /\ \A leaf \in ops'[i].leaves :
                           /\ leaf \in Accepted' /\ leaf \in Typed'
                           /\ T'[leaf].elem = T'[i].elem
                           /\ Len(T'[leaf].shape) = Len(T'[i].shape)
    BY DEF LeavesAgree, AcceptedOps
  <2>1. CASE i \in Accepted
    <3>1. i \in AcceptedOps(ViewMakers) /\ ops'[i] = ops[i]
      BY <1>2, <1>4, <2>1 DEF AcceptedOps
    <3>2. /\ i \in Typed
          /\ \A leaf \in ops[i].leaves :
               /\ leaf \in Accepted /\ leaf \in Typed
               /\ T[leaf].elem = T[i].elem /\ Len(T[leaf].shape) = Len(T[i].shape)
      BY <3>1 DEF OpsInv, LeavesAgree
    <3> QED
      BY <1>3, <1>4, <3>1, <3>2
  <2>2. CASE i = n
    <3>1. verdict' = "accepted" /\ ops'[i] = op /\ op.name \in ViewMakers \ {"argument"}
      BY <1>1, <1>2, <1>4, <2>2 DEF Appended
    <3>2. CASE op.name = "construct_memory_view"
      <4>1. op.results # <<>> /\ op.leaves = {n}
        BY <1>1, <3>2 DEF Appended, n
      <4> QED
        BY <1>3, <2>2, <3>1, <4>1
    <3>3. CASE op.name = "construct_distributed_memory_view"
      <4>1. /\ op.results # <<>>
            /\ \A k \in DOMAIN op.memrefs : op.memrefs[k] \in ValuesOf("memref")
            /\ op.leaves = UNION {ops[op.memrefs[k]].leaves : k \in DOMAIN op.memrefs}
            /\ DistributedViewVerified(op, T)
        BY <1>1, <3>1, <3>3 DEF Appended
      <4>2. n \in Typed' /\ T'[n] = op.results[1]
        BY <1>3, <4>1
      <4>3. ASSUME NEW leaf \in op.leaves
            PROVE  /\ leaf \in Accepted' /\ leaf \in Typed'
                   /\ T'[leaf].elem = T'[n].elem /\ Len(T'[leaf].shape) = Len(T'[n].shape)
        <5>1. PICK k \in DOMAIN op.memrefs : leaf \in ops[op.memrefs[k]].leaves
          BY <4>1
        <5> DEFINE m == op.memrefs[k]
        <5>2. m \in AcceptedOps(ViewMakers)
          BY <1>4, <1>5, <4>1 DEF OpsInv, MemRefsHaveLeaves, AcceptedOps, ValuesOf
        <5>3. /\ leaf \in Accepted /\ leaf \in Typed
              /\ T[leaf].elem = T[m].elem /\ Len(T[leaf].shape) = Len(T[m].shape)
          BY <5>1, <5>2 DEF OpsInv, LeavesAgree
        <5>4. /\ T[m].elem = op.results[1].elem
              /\ Len(T[m].shape) = Len(op.results[1].shape)
          BY <4>1 DEF DistributedViewVerified
        <5> QED
          BY <1>3, <1>4, <4>2, <5>3, <5>4
      <4> QED
        BY <2>2, <3>1, <4>2, <4>3
    <3> QED
      BY <3>1, <3>2, <3>3 DEF ViewMakers
  <2> QED
    BY <1>4, <2>1, <2>2
<1>11. ExtractionsVerified'
  <2> SUFFICES ASSUME NEW i \in Accepted', ops'[i].name = "runtime_arg_extract"
               PROVE  /\ ops'[i].input \in Typed' /\ T'[ops'[i].input].mnemonic = "runtime_arg"
                      /\ ExtractVerified(ops'[i], T')
    BY DEF ExtractionsVerified, AcceptedOps, ValuesOf, ExtractVerified
  <2>1. /\ ops'[i].input \in Typed /\ T[ops'[i].input].mnemonic = "runtime_arg"
        /\ ExtractVerified(ops'[i], T)
    <3>1. CASE i \in Accepted
      BY <1>2, <1>4, <3>1 DEF OpsInv, ExtractionsVerified, AcceptedOps, ValuesOf
    <3>2. CASE i = n
      BY <1>1, <1>2, <1>4, <3>2 DEF Appended, ValuesOf
    <3> QED
      BY <1>4, <3>1, <3>2
  <2> QED
    BY <1>3, <2>1 DEF ExtractVerified
<1>12. FusionsVerified'
  <2> SUFFICES ASSUME NEW i \in Accepted', ops'[i].name \in AllFused
               PROVE  /\ i \in Typed' /\ ops'[i].operand \in Typed'
                      /\ FusedVerified(ops'[i], T')
    BY DEF FusionsVerified, AcceptedOps, FusedVerified
  <2>1. i \in Typed' /\ ops'[i].operand \in Typed /\ FusedVerified(ops'[i], T)
    <3>1. CASE i \in Accepted
      BY <1>2, <1>3, <1>4, <3>1 DEF OpsInv, FusionsVerified, AcceptedOps
    <3>2. CASE i = n
      BY <1>1, <1>2, <1>3, <1>4, <3>2 DEF Appended
    <3> QED
      BY <1>4, <3>1, <3>2
  <2> QED
    BY <1>3, <2>1 DEF FusedVerified
<1>13. ViewsVerified'
  <2> SUFFICES ASSUME NEW i \in Accepted', ops'[i].name = "construct_memory_view"
               PROVE  ViewTyped(ops'[i]) /\ MemoryViewVerified(ops'[i])
    BY DEF ViewsVerified, AcceptedOps, ViewTyped, MemoryViewVerified
  <2>1. CASE i \in Accepted
    BY <1>2, <1>4, <2>1 DEF OpsInv, ViewsVerified, AcceptedOps
  <2>2. CASE i = n
    BY <1>1, <1>2, <1>4, <2>2 DEF Appended
  <2> QED
    BY <1>4, <2>1, <2>2
<1> QED
  BY <1>1, <1>7, <1>8, <1>9, <1>10, <1>11, <1>12, <1>13 DEF OpsInv

LEMMA OpsInvariant == Spec => [](ValuesInv /\ OpsInv)
<1>1. Init => OpsInv
  BY OpsInitially
<1>2. ValuesInv /\ OpsInv /\ [Next]_vars => OpsInv'
  <2> SUFFICES ASSUME ValuesInv, OpsInv, [Next]_vars PROVE OpsInv'
    OBVIOUS
  <2>1. CASE Make
    BY <2>1, MakeKeepsOps
  <2>2. CASE Start
    BY <2>2, StartKeepsOps
  <2>3. CASE Operate
    BY <2>3, OperateAppends, AppendKeepsOps
  <2>4. CASE UNCHANGED vars
    <3>1. Typed' = Typed /\ T' = T /\ Accepted' = Accepted /\ ValuesTypeOK'
      BY <2>4, ValuesStutter DEF vars, valueVars, Typed, T, Accepted, ValuesInv
    <3>2. TypeOK'
      BY <2>4, <3>1 DEF OpsInv, TypeOK, vars, valueVars
    <3> QED
      BY <2>4, <3>1, <3>2
         DEF OpsInv, vars, valueVars, RuntimeArgsAreTheValue, MemRefsHaveLeaves, LeavesAgree,
             ExtractionsVerified, FusionsVerified, ViewsVerified, AcceptedOps, ValuesOf,
             ExtractVerified, FusedVerified, ViewTyped, MemoryViewVerified
  <2> QED
    BY <2>1, <2>2, <2>3, <2>4 DEF Next
<1> QED
  BY <1>1, <1>2, ValueInvariant, PTL DEF Spec

----------------------------------------------------------------------------
\* Every program uses only results that come before, whatever it builds.
THEOREM TypeCorrect == Spec => []TypeOK
<1>1. OpsInv => TypeOK
  BY DEF OpsInv
<1> QED
  BY <1>1, OpsInvariant, PTL

\* Nested to any depth, the views of a distributed view agree with it in element type and
\* rank, although verify compares it with its direct operands only.
THEOREM PartsAgreeHolds == Spec => []PartsAgree
<1>1. OpsInv => PartsAgree
  BY DEF OpsInv, LeavesAgree, PartsAgree, AcceptedOps, ViewMakers
<1> QED
  BY <1>1, OpsInvariant, PTL

\* The ranks of the dynamic entries of a static list count from 1 to their number.
LEMMA DynamicRanks ==
  ASSUME NEW static \in Seq(Int)
  PROVE  {DynamicRank(static, d) : d \in {e \in DOMAIN static : static[e] = kDynamic}}
           = 1 .. CountDynamic(static)
<1> DEFINE sel == {e \in DOMAIN static : static[e] = kDynamic}
<1>1. Len(static) \in Nat /\ DOMAIN static = 1 .. Len(static)
  BY LenProperties
<1>2. sel \subseteq Int /\ IsFiniteSet(sel)
  <2>1. IsFiniteSet(DOMAIN static)
    BY <1>1, FS_Interval
  <2>2. sel \in SUBSET DOMAIN static
    OBVIOUS
  <2>3. sel \subseteq Int
    BY <1>1
  <2> HIDE DEF sel
  <2> QED
    BY <2>1, <2>2, <2>3, FS_Subset
<1>3. \A d \in sel : DynamicRank(static, d) = Cardinality({e \in sel : e <= d})
  <2> TAKE d \in sel
  <2>1. d \in 1 .. Len(static)
    BY <1>1
  <2>2. /\ DOMAIN SubSeq(static, 1, d) = 1 .. d
        /\ \A e \in 1 .. d : SubSeq(static, 1, d)[e] = static[e]
    <3>1. /\ Len(SubSeq(static, 1, d)) = d /\ SubSeq(static, 1, d) \in Seq(Int)
          /\ \A e \in 1 .. d : SubSeq(static, 1, d)[e] = static[e]
      BY <1>1, <2>1, SubSeqProperties
    <3> QED
      BY <3>1, LenProperties
  <2>3. \A e : e \in 1 .. d <=> e \in 1 .. Len(static) /\ e <= d
    BY <1>1, <2>1
  <2>4. {e \in DOMAIN SubSeq(static, 1, d) : SubSeq(static, 1, d)[e] = kDynamic}
          = {e \in sel : e <= d}
    BY <1>1, <2>2, <2>3
  <2> QED
    BY <2>4 DEF DynamicRank, CountDynamic
<1>4. CountDynamic(static) = Cardinality(sel)
  BY DEF CountDynamic
<1>5. /\ \A d \in sel : Cardinality({e \in sel : e <= d}) \in 1 .. Cardinality(sel)
      /\ \A k \in 1 .. Cardinality(sel) : \E d \in sel : Cardinality({e \in sel : e <= d}) = k
  <2> HIDE DEF sel
  <2> QED
    BY <1>2, RanksCount
<1>6. {DynamicRank(static, d) : d \in sel} = 1 .. Cardinality(sel)
  <2> HIDE DEF sel
  <2> QED
    BY <1>3, <1>5
<1> QED
  BY <1>4, <1>6

\* In every accepted view, of any rank, the dynamic entries number the operands without a
\* gap and without one left over.
THEOREM DynamicPartsHaveOperandsHolds == Spec => []DynamicPartsHaveOperands
<1>1. OpsInv => DynamicPartsHaveOperands
  <2> SUFFICES ASSUME OpsInv, NEW i \in AcceptedOps({"construct_memory_view"})
               PROVE  LET Served(static, operands) ==
                            DOMAIN operands = {DynamicRank(static, d) :
                              d \in {e \in DOMAIN static : static[e] = kDynamic}}
                      IN  /\ Served(ops[i].static_sizes, ops[i].sizes)
                          /\ Served(ops[i].static_strides, ops[i].strides)
    BY DEF DynamicPartsHaveOperands
  <2>1. ViewTyped(ops[i]) /\ MemoryViewVerified(ops[i])
    BY DEF OpsInv, ViewsVerified
  <2>2. /\ DOMAIN ops[i].sizes = 1 .. CountDynamic(ops[i].static_sizes)
        /\ DOMAIN ops[i].strides = 1 .. CountDynamic(ops[i].static_strides)
    BY <2>1, LenProperties DEF ViewTyped, MemoryViewVerified
  <2> QED
    BY <2>1, <2>2, DynamicRanks DEF ViewTyped
<1> QED
  BY <1>1, OpsInvariant, PTL

\* What an accepted extraction asks for is there and, in a build with asserts, positive.
THEOREM ExtractionFindsConstraintHolds == Spec => []ExtractionFindsConstraint
<1>1. ValuesInv /\ OpsInv => ExtractionFindsConstraint
  <2> SUFFICES ASSUME ValuesInv, OpsInv, NEW i \in AcceptedOps({"runtime_arg_extract"})
               PROVE  LET input == T[ops[i].input]
                          Found(opt) == opt # <<>> /\ (asserts => opt[1] > 0)
                      IN  /\ ops[i].kind = "granularity" => Found(input.gran)
                          /\ ops[i].kind = "upperbound" => Found(input.ub)
    BY DEF ExtractionFindsConstraint
  <2> DEFINE v == value[1]
  <2>1. /\ T[ops[i].input] = v /\ IsArg(v) /\ ExtractVerified(ops[i], T)
    BY RuntimeArgTyped DEF OpsInv, ExtractionsVerified
  <2>2. asserts => Verified(v)
    <3>1. ops # <<>>
      BY OpsOf DEF AcceptedOps, Accepted, OpsInv
    <3>2. stage = "held"
      BY <3>1 DEF OpsInv, TypeOK
    <3> QED
      BY <3>2 DEF ValuesInv, HeldIsVerified
  <2> HIDE DEF v
  <2>3. /\ v.mnemonic = "runtime_arg" /\ v.gran \in Seq(Int) /\ Len(v.gran) <= 1
        /\ v.ub \in Seq(Int) /\ Len(v.ub) <= 1
    BY <2>1 DEF IsArg
  <2>4. asserts => /\ \A k \in DOMAIN v.gran : v.gran[k] > 0
                   /\ \A k \in DOMAIN v.ub : v.ub[k] > 0
    BY <2>2, <2>3 DEF Verified, RuntimeArgVerified
  <2>5. v.gran # <<>> => 1 \in DOMAIN v.gran
    BY <2>3, AtMostOne
  <2>6. v.ub # <<>> => 1 \in DOMAIN v.ub
    BY <2>3, AtMostOne
  <2>7. /\ ops[i].kind = "granularity" => v.gran # <<>>
        /\ ops[i].kind = "upperbound" => v.ub # <<>>
    BY <2>1 DEF ExtractVerified
  <2> QED
    BY <2>1, <2>4, <2>5, <2>6, <2>7
<1> QED
  BY <1>1, OpsInvariant, PTL

LEMMA InferredIsOne ==
  ASSUME NEW t
  PROVE  /\ fusedPairOf(t) # <<>> => fusedPairOf(t) = <<fusedPairOf(t)[1]>>
         /\ scalarBehind(t) # <<>> => scalarBehind(t) = <<scalarBehind(t)[1]>>
<1>1. fusedPairOf(t) # <<>> => fusedPairOf(t) = <<fusedPairOf(t)[1]>>
  BY Floats DEF fusedPairOf
<1>2. scalarBehind(t) # <<>> => scalarBehind(t) = <<scalarBehind(t)[1]>>
  BY Floats DEF scalarBehind, AnyFused
<1> QED
  BY <1>1, <1>2

LEMMA InferencesInverse ==
  ASSUME NEW scalar \in Scalars, NEW fused, NEW back,
         fusedPairOf(scalar) = <<fused>>, scalarBehind(fused) = <<back>>
  PROVE  back = scalar
<1>1. CASE scalar = F16
  <2>1. fused = FP16Fused
    BY <1>1, Floats DEF fusedPairOf
  <2> QED
    BY <1>1, <2>1, Floats DEF scalarBehind
<1>2. CASE scalar = DF16
  <2>1. fused = DF16Fused
    BY <1>2, Floats DEF fusedPairOf
  <2> QED
    BY <1>2, <2>1, Floats DEF scalarBehind
<1>3. CASE scalar = F32
  <2>1. fused = FP32Fused
    BY <1>3, Floats DEF fusedPairOf
  <2> QED
    BY <1>3, <2>1, Floats DEF scalarBehind
<1> QED
  BY <1>1, <1>2, <1>3 DEF Scalars

\* layernormscale_fused undoes exx2_fused and exx2_zeromean_fused, whichever of the types
\* of the two operations were stated and whichever inferred.
THEOREM ScalingUndoesFusingHolds == Spec => []ScalingUndoesFusing
<1>1. OpsInv => ScalingUndoesFusing
  <2> SUFFICES ASSUME OpsInv, NEW i \in AcceptedOps({"layernormscale_fused"}),
                      ops[ops[i].operand].name \in FusingOps
               PROVE  T[i] = T[ops[ops[i].operand].operand]
    BY DEF ScalingUndoesFusing
  <2> DEFINE pair == ops[i].operand
             x == ops[pair].operand
  <2>1. ops[i].name = "layernormscale_fused" /\ i \in Accepted /\ i \in AcceptedOps(AllFused)
    BY DEF AcceptedOps, AllFused
  <2>2. i \in Typed /\ pair \in Typed /\ FusedVerified(ops[i], T)
    BY <2>1 DEF OpsInv, FusionsVerified
  <2>3. pair \in AcceptedOps(AllFused)
    <3>1. i \in DOMAIN ops /\ OperandsOf(ops[i]) = {pair}
      BY <2>1 DEF Accepted, OperandsOf, FusingOps
    <3>2. pair < i
      BY <3>1 DEF OpsInv, TypeOK
    <3>3. pair \in 1 .. Len(ops) /\ i \in 1 .. Len(ops) /\ Len(ops) \in Nat
          /\ DOMAIN ops = 1 .. Len(ops)
      BY <2>2, <3>1, OpsOf DEF OpsInv
    <3>4. pair < Len(ops)
      BY <3>2, <3>3
    <3> QED
      BY <3>3, <3>4 DEF AcceptedOps, Accepted, AllFused
  <2>4. pair \in Typed /\ x \in Typed /\ FusedVerified(ops[pair], T)
    BY <2>3 DEF OpsInv, FusionsVerified
  <2>5. scalarBehind(T[pair]) = ops[i].results /\ T[i] = ops[i].results[1]
    BY <2>1, <2>2 DEF FusedVerified, inferReturnTypes, FusingOps, T
  <2>6. /\ fusedPairOf(T[x]) = ops[pair].results /\ T[pair] = ops[pair].results[1]
        /\ T[x] \in Scalars
    BY <2>4 DEF FusedVerified, inferReturnTypes, OperandAllowed, T
  <2>7. scalarBehind(T[pair]) = <<T[i]>>
    BY <2>2, <2>5, InferredIsOne DEF Typed
  <2>8. fusedPairOf(T[x]) = <<T[pair]>>
    BY <2>4, <2>6, InferredIsOne DEF Typed
  <2> HIDE DEF pair, x
  <2>9. T[i] = T[x]
    BY <2>6, <2>7, <2>8, InferencesInverse
  <2> QED
    BY <2>9 DEF pair, x
<1> QED
  BY <1>1, OpsInvariant, PTL
----------------------------------------------------------------------------
(* What the builders make and the verifiers refuse *)

\* Why an operation built with a derived type may fail.
NoTypeWouldDo(op, how) ==
  \/ /\ op.name = "runtime_arg_extract" /\ op.input \in Typed
     /\ \/ op.kind = "granularity" /\ T[op.input].gran = <<>>
        \/ op.kind = "upperbound" /\ T[op.input].ub = <<>>
  \/ /\ how = "uninferable" /\ op.name \notin {"load", "runtime_arg_extract"}
     /\ op.operand \in Typed /\ ~OperandAllowed(op.name, T[op.operand])

LEMMA AppendFits ==
  ASSUME TypeOK, NEW op, ops' = Append(ops, op),
         verdict' \in {"rejected", "uninferable"} /\ "built" \in DOMAIN op /\ op.built =>
           NoTypeWouldDo(op, verdict')
  PROVE  BuildersFitVerifiers'
<1>1. ops'[Len(ops')] = op
  BY AppendFacts
<1>2. \A i \in Typed : T'[i] = T[i]
  BY TypesKept
<1> SUFFICES ASSUME verdict' \in {"rejected", "uninferable"}, "built" \in DOMAIN op, op.built
             PROVE  \/ /\ op.name = "runtime_arg_extract" /\ op.kind = "granularity"
                       /\ T'[op.input].gran = <<>>
                    \/ /\ op.name = "runtime_arg_extract" /\ op.kind = "upperbound"
                       /\ T'[op.input].ub = <<>>
                    \/ /\ verdict' = "uninferable"
                       /\ op.name \notin {"load", "runtime_arg_extract"}
                       /\ ~OperandAllowed(op.name, T'[op.operand])
  BY <1>1 DEF BuildersFitVerifiers
<1> QED
  BY <1>2 DEF NoTypeWouldDo

LEMMA InferenceTotal ==
  ASSUME NEW name \in AllFused, NEW t, OperandAllowed(name, t)
  PROVE  /\ inferReturnTypes(name, t) # <<>>
         /\ inferReturnTypes(name, t)[1] \in IF name \in FusingOps THEN AnyFused ELSE Scalars
<1>1. CASE name \in FusingOps
  <2>1. t \in Scalars /\ inferReturnTypes(name, t) = fusedPairOf(t)
    BY <1>1 DEF OperandAllowed, inferReturnTypes
  <2> QED
    BY <1>1, <2>1, Floats DEF fusedPairOf, Scalars, AnyFused
<1>2. CASE name \notin FusingOps
  <2>1. t \in AnyFused /\ inferReturnTypes(name, t) = scalarBehind(t)
    BY <1>2 DEF OperandAllowed, inferReturnTypes
  <2> QED
    BY <1>2, <2>1, Floats DEF scalarBehind, Scalars, AnyFused
<1> QED
  BY <1>1, <1>2

LEMMA OperateFits ==
  ASSUME ValuesInv, OpsInv, Operate
  PROVE  BuildersFitVerifiers'
<1>0. TypeOK
  BY DEF OpsInv
<1>1. CASE GetComputeTileId
  <2>1. PICK n : ops' = Append(ops, [name |-> "get_compute_tile_id",
                                     results |-> [i \in 1 .. n |-> IndexType]])
    BY <1>1 DEF GetComputeTileId, Emit
  <2>2. "built" \notin DOMAIN [name |-> "get_compute_tile_id",
                               results |-> [i \in 1 .. n |-> IndexType]]
    OBVIOUS
  <2> QED
    BY <1>0, <2>1, <2>2, AppendFits
<1>2. CASE ConstructMemoryView
  <2>1. PICK m, a, b, c, d, e, f :
          ops' = Append(ops, [name |-> "construct_memory_view", memory_space |-> m,
                              static_sizes |-> a, static_strides |-> b, sizes |-> c,
                              strides |-> d, results |-> e, leaves |-> f])
    BY <1>2 DEF ConstructMemoryView, Emit
  <2>2. "built" \notin DOMAIN [name |-> "construct_memory_view", memory_space |-> m,
                               static_sizes |-> a, static_strides |-> b, sizes |-> c,
                               strides |-> d, results |-> e, leaves |-> f]
    OBVIOUS
  <2> QED
    BY <1>0, <2>1, <2>2, AppendFits
<1>3. CASE ConstructDistributedMemoryView
  <2>1. PICK a, b, c :
          ops' = Append(ops, [name |-> "construct_distributed_memory_view", memrefs |-> a,
                              results |-> b, leaves |-> c])
    BY <1>3 DEF ConstructDistributedMemoryView, Emit
  <2>2. "built" \notin DOMAIN [name |-> "construct_distributed_memory_view", memrefs |-> a,
                               results |-> b, leaves |-> c]
    OBVIOUS
  <2> QED
    BY <1>0, <2>1, <2>2, AppendFits
<1>4. CASE ConstructAccessTile
  <2>1. PICK a, b, c :
          ops' = Append(ops, [name |-> "construct_access_tile", base |-> a, set |-> b,
                              results |-> c])
    BY <1>4 DEF ConstructAccessTile, Emit
  <2>2. "built" \notin DOMAIN [name |-> "construct_access_tile", base |-> a, set |-> b,
                               results |-> c]
    OBVIOUS
  <2> QED
    BY <1>0, <2>1, <2>2, AppendFits
<1>5. CASE Load
  <2>1. PICK a, b : ops' = Append(ops, [name |-> "load", tile |-> a, built |-> FALSE, results |-> b])
    BY <1>5 DEF Load, Emit
  <2>2. ~[name |-> "load", tile |-> a, built |-> FALSE, results |-> b].built
    OBVIOUS
  <2> QED
    BY <1>0, <2>1, <2>2, AppendFits
<1>6. CASE LoadBuilt
  <2>1. PICK tile, elem :
       LET op == [name |-> "load", tile |-> tile, built |-> TRUE,
                  results |-> <<LoadResult(T, tile, elem)>>]
       IN  Emit(op, LoadVerified(op, T))
    BY <1>6 DEF LoadBuilt
  <2> DEFINE op == [name |-> "load", tile |-> tile, built |-> TRUE,
                    results |-> <<LoadResult(T, tile, elem)>>]
  <2>2. op.tile = tile /\ op.results[1].shape = T[tile].shape
    BY DEF LoadResult, RankedTensorType
  <2>3. LoadVerified(op, T)
    BY <2>2 DEF LoadVerified
  <2>4. ops' = Append(ops, op) /\ verdict' = "accepted"
    BY <2>1, <2>3 DEF Emit
  <2> QED
    BY <1>0, <2>4, AppendFits
<1>7. CASE Store
  <2>1. PICK a, b : ops' = Append(ops, [name |-> "store", data |-> a, tile |-> b, results |-> <<>>])
    BY <1>7 DEF Store, Emit
  <2>2. "built" \notin DOMAIN [name |-> "store", data |-> a, tile |-> b, results |-> <<>>]
    OBVIOUS
  <2> QED
    BY <1>0, <2>1, <2>2, AppendFits
<1>8. CASE RuntimeArgExtract
  <2>1. PICK kind \in RuntimeArgExtractKind, input \in ValuesOf("runtime_arg"),
             built \in BOOLEAN :
         \E type \in IF built THEN {ExtractResult(T, kind, input)} ELSE Types :
           LET op == [name |-> "runtime_arg_extract", kind |-> kind, input |-> input,
                      built |-> built, results |-> <<type>>]
           IN  Emit(op, ExtractVerified(op, T))
    BY <1>8 DEF RuntimeArgExtract
  <2>2. PICK type \in IF built THEN {ExtractResult(T, kind, input)} ELSE Types :
         LET op == [name |-> "runtime_arg_extract", kind |-> kind, input |-> input,
                    built |-> built, results |-> <<type>>]
         IN  Emit(op, ExtractVerified(op, T))
    BY <2>1
  <2> DEFINE op == [name |-> "runtime_arg_extract", kind |-> kind, input |-> input,
                    built |-> built, results |-> <<type>>]
  <2>3. ops' = Append(ops, op) /\ (verdict' # "accepted" => ~ExtractVerified(op, T))
    BY <2>2 DEF Emit
  <2>4. /\ op.name = "runtime_arg_extract" /\ op.kind = kind /\ op.input = input
        /\ op.results[1] = type /\ op.built = built
    OBVIOUS
  <2> HIDE DEF op
  <2>5. op.built => op.results[1] = ExtractResult(T, kind, input)
    BY <2>4
  <2>6. input \in Typed
    BY DEF ValuesOf
  <2>7. op.built /\ ~ExtractVerified(op, T) => NoTypeWouldDo(op, verdict')
    BY <2>4, <2>5, <2>6 DEF ExtractVerified, ExtractResult, NoTypeWouldDo
  <2> QED
    BY <1>0, <2>3, <2>7, AppendFits
<1>9. CASE Fused
  <2>1. PICK a, b, c : ops' = Append(ops, [name |-> a, operand |-> b, built |-> FALSE, results |-> c])
    BY <1>9 DEF Fused, Emit
  <2>2. ~[name |-> a, operand |-> b, built |-> FALSE, results |-> c].built
    OBVIOUS
  <2> QED
    BY <1>0, <2>1, <2>2, AppendFits
<1>10. CASE FusedBuilt
  <2>1. PICK name \in AllFused, operand \in Typed :
         LET op == [name |-> name, operand |-> operand, built |-> TRUE,
                    results |-> inferReturnTypes(name, T[operand])]
         IN  IF op.results = <<>>
             THEN /\ ops' = Append(ops, op) /\ verdict' = "uninferable"
                  /\ UNCHANGED valueVars
             ELSE Emit(op, FusedVerified(op, T))
    BY <1>10 DEF FusedBuilt, AllFused
  <2> DEFINE r == inferReturnTypes(name, T[operand])
             op == [name |-> name, operand |-> operand, built |-> TRUE, results |-> r]
  <2>2. /\ ops' = Append(ops, op)
        /\ r = <<>> => verdict' = "uninferable"
        /\ r # <<>> => verdict' = IF FusedVerified(op, T) THEN "accepted" ELSE "rejected"
    BY <2>1 DEF Emit
  <2>3. op.name = name /\ op.operand = operand /\ op.results = r
    OBVIOUS
  <2> HIDE DEF op
  <2>4. name \notin {"load", "runtime_arg_extract"}
    BY DEF AllFused, FusingOps
  <2>5. CASE r = <<>>
    <3>1. ~OperandAllowed(name, T[operand])
      BY <2>5, InferenceTotal
    <3>2. NoTypeWouldDo(op, verdict')
      BY <2>2, <2>3, <2>4, <2>5, <3>1 DEF NoTypeWouldDo
    <3> QED
      BY <1>0, <2>2, <3>2, AppendFits
  <2>6. CASE r # <<>>
    <3>1. OperandAllowed(name, T[operand])
      BY <2>6, Floats
         DEF OperandAllowed, inferReturnTypes, fusedPairOf, scalarBehind, Scalars, AnyFused
    <3>2. FusedVerified(op, T)
      BY <2>3, <3>1, InferenceTotal DEF FusedVerified
    <3>3. verdict' = "accepted"
      BY <2>2, <2>6, <3>2
    <3> QED
      BY <1>0, <2>2, <3>3, AppendFits
  <2> QED
    BY <2>5, <2>6
<1> QED
  BY <1>1, <1>2, <1>3, <1>4, <1>5, <1>6, <1>7, <1>8, <1>9, <1>10 DEF Operate

\* A builder that derives the type of its result never loses to the verifier where some
\* type would do.
THEOREM BuildersFitVerifiersHolds == Spec => []BuildersFitVerifiers
<1>1. Init => BuildersFitVerifiers
  BY DEF Init, BuildersFitVerifiers
<1>2. ValuesInv /\ OpsInv /\ BuildersFitVerifiers /\ [Next]_vars => BuildersFitVerifiers'
  <2> SUFFICES ASSUME ValuesInv, OpsInv, BuildersFitVerifiers, [Next]_vars
               PROVE  BuildersFitVerifiers'
    OBVIOUS
  <2>1. CASE Make
    <3>1. verdict' = "none"
      BY <2>1 DEF Make
    <3> QED
      BY <3>1 DEF BuildersFitVerifiers
  <2>2. CASE Start
    <3>1. verdict' = "accepted"
      BY <2>2 DEF Start
    <3> QED
      BY <3>1 DEF BuildersFitVerifiers
  <2>3. CASE Operate
    BY <2>3, OperateFits
  <2>4. CASE UNCHANGED vars
    <3>1. ops' = ops /\ verdict' = verdict /\ T' = T
      BY <2>4 DEF vars, T, Typed
    <3> QED
      BY <3>1 DEF BuildersFitVerifiers
  <2> QED
    BY <2>1, <2>2, <2>3, <2>4 DEF Next
<1> QED
  BY <1>1, <1>2, OpsInvariant, PTL DEF Spec
=============================================================================
