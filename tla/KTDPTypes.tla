----------------------------- MODULE KTDPTypes -----------------------------
(***************************************************************************)
(* !ktdp.access_tile, !ktdp.runtime_arg and #ktdp.memory_space: what their *)
(* verifiers demand, their text, and the functions that C and Python make  *)
(* and read them with.  An optional value is <<>> or <<x>>; in the text of *)
(* a tile <<>> is the dimension `?'.  The types they are built from are    *)
(* opaque, and integers need no width: they are compared and copied only.  *)
(***************************************************************************)
EXTENDS Integers, Sequences

CONSTANTS Types,        \* the types that have no parameters here
          IndexType,
          BuiltinTypes, \* index, the integers and the floats
          kDynamic,     \* ShapedType::kDynamic, INT64_MIN
          Words         \* what a user may write for a keyword

Keys == {"granularity", "upperbound"}

ASSUME TypesAssumption ==
  /\ IndexType \in BuiltinTypes /\ BuiltinTypes \subseteq Types
  /\ kDynamic \in Int /\ kDynamic < 0
  /\ Keys \subseteq Words

MemorySpaceKind == {"global", "ct_local"}
Optional(S) == {<<>>} \cup {<<x>> : x \in S}

AccessTileType(shape, elem) == [mnemonic |-> "access_tile", shape |-> shape, elem |-> elem]
RuntimeArgType(under, gran, ub) ==
  [mnemonic |-> "runtime_arg", under |-> under, gran |-> gran, ub |-> ub]
MemorySpaceAttr(kind, ct) == [mnemonic |-> "memory_space", kind |-> kind, ct |-> ct]

IsTile(v) == v \in [mnemonic : {"access_tile"}, shape : Seq(Int), elem : Types]
IsArg(v) ==
  /\ v \in [mnemonic : {"runtime_arg"}, under : Types, gran : Seq(Int), ub : Seq(Int)]
  /\ Len(v.gran) <= 1 /\ Len(v.ub) <= 1
IsSpace(v) == v \in [mnemonic : {"memory_space"}, kind : MemorySpaceKind, ct : Int]
IsValue(v) == IsTile(v) \/ IsArg(v) \/ IsSpace(v)

----------------------------------------------------------------------------
(* Verifiers *)

AccessTileVerified(t) ==
  /\ t.elem = IndexType
  /\ \A i \in DOMAIN t.shape : t.shape[i] = kDynamic \/ t.shape[i] >= 0

RuntimeArgVerified(t) ==
  /\ t.under \in BuiltinTypes
  /\ \A i \in DOMAIN t.gran : t.gran[i] > 0
  /\ \A i \in DOMAIN t.ub : t.ub[i] > 0

MemorySpaceVerified(a) == a.ct = -1 \/ (a.ct >= 0 /\ a.kind = "ct_local")

Verified(v) ==
  /\ v.mnemonic = "access_tile" => AccessTileVerified(v)
  /\ v.mnemonic = "runtime_arg" => RuntimeArgVerified(v)
  /\ v.mnemonic = "memory_space" => MemorySpaceVerified(v)

----------------------------------------------------------------------------
(* Text.  That of a runtime_arg is a list of items `key=value'. *)

IsTileText(t) ==
  /\ t \in [mnemonic : {"access_tile"}, dims : Seq(Seq(Int)), elem : Types]
  /\ \A i \in DOMAIN t.dims : Len(t.dims[i]) <= 1
IsArgText(t) ==
  t \in [mnemonic : {"runtime_arg"}, under : Types, items : Seq([key : Words, value : Int])]
IsSpaceText(t) ==
  /\ t \in [mnemonic : {"memory_space"}, kind : MemorySpaceKind, ct : Seq(Int)]
  /\ Len(t.ct) <= 1
IsText(t) == IsTileText(t) \/ IsArgText(t) \/ IsSpaceText(t)

Item(key, opt) == [i \in DOMAIN opt |-> [key |-> key, value |-> opt[i]]]

PrintedDim(n) == IF n = kDynamic THEN <<>> ELSE <<n>>
PrintedTile(t) ==
  [mnemonic |-> "access_tile", dims |-> [i \in DOMAIN t.shape |-> PrintedDim(t.shape[i])],
   elem |-> t.elem]

PrintedArg(t) ==
  [mnemonic |-> "runtime_arg", under |-> t.under,
   items |-> Item("granularity", t.gran) \o Item("upperbound", t.ub)]

\* Mutant: ct_id is printed when it is positive.
PrintedSpacePositive(a) ==
  [mnemonic |-> "memory_space", kind |-> a.kind, ct |-> IF a.ct > 0 THEN <<a.ct>> ELSE <<>>]

\* The default of ct_id is not printed.
PrintedSpace(a) ==
  [mnemonic |-> "memory_space", kind |-> a.kind, ct |-> IF a.ct = -1 THEN <<>> ELSE <<a.ct>>]

Printed(v) ==
  CASE v.mnemonic = "access_tile" -> PrintedTile(v)
    [] v.mnemonic = "runtime_arg" -> PrintedArg(v)
    [] v.mnemonic = "memory_space" -> PrintedSpace(v)

\* A dimension is an unsigned literal: a minus sign is no part of a dimension list.
ParsesTile(text) ==
  /\ \A i \in DOMAIN text.dims : \A k \in DOMAIN text.dims[i] : text.dims[i][k] >= 0
  /\ text.elem = IndexType

ParsedTile(text) ==
  AccessTileType([i \in DOMAIN text.dims |->
                   IF text.dims[i] = <<>> THEN kDynamic ELSE text.dims[i][1]], text.elem)

\* Items come in any order, each keyword at most once.
ParsesArg(text) ==
  \A i, j \in DOMAIN text.items :
    text.items[i].key \in Keys /\ (text.items[i].key = text.items[j].key => i = j)

ItemOf(key, items) ==
  IF \E i \in DOMAIN items : items[i].key = key
  THEN <<items[CHOOSE i \in DOMAIN items : items[i].key = key].value>> ELSE <<>>

ParsedArg(text) ==
  RuntimeArgType(text.under, ItemOf("granularity", text.items), ItemOf("upperbound", text.items))

ParsedSpace(text) == MemorySpaceAttr(text.kind, IF text.ct = <<>> THEN -1 ELSE text.ct[1])

Parsed(text) ==
  CASE text.mnemonic = "access_tile" -> ParsedTile(text)
    [] text.mnemonic = "runtime_arg" -> ParsedArg(text)
    [] text.mnemonic = "memory_space" -> ParsedSpace(text)

\* Each parser ends in getChecked.
Parses(text) ==
  /\ text.mnemonic = "access_tile" => ParsesTile(text)
  /\ text.mnemonic = "runtime_arg" => ParsesArg(text)
  /\ Verified(Parsed(text))

----------------------------------------------------------------------------
(* C and Python *)

ValueOr(opt, default) == IF opt = <<>> THEN default ELSE opt[1]

\* Mutant: zero counts as absent.
OptionalPositive(n) == IF n > 0 THEN <<n>> ELSE <<>>

\* A negative integer stands for an absent one.
NonNegative(n) == IF n >= 0 THEN <<n>> ELSE <<>>

mlirKTDPRuntimeArgTypeGet(under, gran, ub) ==
  RuntimeArgType(under, NonNegative(gran), NonNegative(ub))
mlirKTDPRuntimeArgTypeGetGranularity(t) == ValueOr(t.gran, -1)
mlirKTDPRuntimeArgTypeGetUpperbound(t) == ValueOr(t.ub, -1)

PyRuntimeArgType(under, gran, ub) ==
  mlirKTDPRuntimeArgTypeGet(under, ValueOr(gran, -1), ValueOr(ub, -1))
PyGranularity(t) == NonNegative(mlirKTDPRuntimeArgTypeGetGranularity(t))
PyUpperbound(t) == NonNegative(mlirKTDPRuntimeArgTypeGetUpperbound(t))

\* The values of the two C enums; unwrap and wrap are unreachable for any other.
wrapMemorySpaceKind(kind) == IF kind = "global" THEN 0 ELSE 1
unwrapMemorySpaceKind(k) == IF k = 0 THEN "global" ELSE "ct_local"
IsMemorySpaceKind(k) == k \in {0, 1}

PyMemorySpaceAttr(k, ct) == MemorySpaceAttr(unwrapMemorySpaceKind(k), ValueOr(ct, -1))
PyKind(a) == wrapMemorySpaceKind(a.kind)
PyCtId(a) == NonNegative(a.ct)
=============================================================================
