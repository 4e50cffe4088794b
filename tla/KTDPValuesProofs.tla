-------------------------- MODULE KTDPValuesProofs --------------------------
(***************************************************************************)
(* Proofs about KTDPTypes and KTDPValues: that printing and parsing, and   *)
(* Python's properties and constructors, are inverses of each other, and   *)
(* the invariant of a value in the hands of a program.                     *)
(***************************************************************************)
EXTENDS KTDPValues, SequenceTheorems, TLAPS

----------------------------------------------------------------------------
(* Sequences *)

LEMMA OneElement ==
  ASSUME NEW S, NEW x \in S
  PROVE  <<x>> \in Seq(S) /\ Len(<<x>>) = 1 /\ <<x>>[1] = x
OBVIOUS

LEMMA NoElement ==
  ASSUME NEW S
  PROVE  <<>> \in Seq(S) /\ Len(<<>>) = 0
BY EmptySeq

LEMMA AtMostOne ==
  ASSUME NEW S, NEW s \in Seq(S), Len(s) <= 1
  PROVE  \/ s = <<>> /\ Len(s) = 0 /\ DOMAIN s = {}
         \/ s = <<s[1]>> /\ s[1] \in S /\ Len(s) = 1 /\ DOMAIN s = {1}
<1>1. Len(s) \in Nat /\ DOMAIN s = 1 .. Len(s)
  BY LenProperties
<1>2. CASE Len(s) = 0
  BY <1>1, <1>2, EmptySeq
<1>3. CASE Len(s) = 1
  <2>1. 1 \in 1 .. Len(s) /\ DOMAIN s = {1}
    BY <1>1, <1>3
  <2>2. s[1] \in S
    BY <2>1, ElementOfSeq
  <2>3. <<s[1]>> \in Seq(S) /\ Len(<<s[1]>>) = 1 /\ <<s[1]>>[1] = s[1]
    BY <2>2, OneElement
  <2>4. \A i \in 1 .. Len(s) : s[i] = <<s[1]>>[i]
    BY <1>3, <2>3
  <2>5. s = <<s[1]>>
    BY <1>3, <2>3, <2>4, SeqEqual
  <2> QED
    BY <2>1, <2>2, <2>5, <1>3
<1> QED
  BY <1>1, <1>2, <1>3

LEMMA FunctionIsSeq ==
  ASSUME NEW S, NEW n \in Nat, NEW f \in [1 .. n -> S]
  PROVE  f \in Seq(S) /\ Len(f) = n /\ DOMAIN f = 1 .. n
<1>1. f \in Seq(S) /\ DOMAIN f = 1 .. n
  BY SeqDef
<1>2. Len(f) \in Nat /\ DOMAIN f = 1 .. Len(f)
  BY <1>1, LenProperties
<1> QED
  BY <1>1, <1>2

----------------------------------------------------------------------------
(* Texts *)

LEMMA DimIsOptional ==
  ASSUME NEW n \in Int
  PROVE  PrintedDim(n) \in Seq(Int) /\ Len(PrintedDim(n)) <= 1
<1>1. CASE n = kDynamic
  <2>1. PrintedDim(n) = <<>>
    BY <1>1 DEF PrintedDim
  <2>2. <<>> \in Seq(Int) /\ Len(<<>>) = 0
    BY NoElement
  <2> QED
    BY <2>1, <2>2
<1>2. CASE n # kDynamic
  <2>1. PrintedDim(n) = <<n>>
    BY <1>2 DEF PrintedDim
  <2>2. <<n>> \in Seq(Int) /\ Len(<<n>>) = 1
    BY OneElement
  <2> QED
    BY <2>1, <2>2
<1> QED
  BY <1>1, <1>2

LEMMA ItemsOfKey ==
  ASSUME NEW key \in Words, NEW opt \in Seq(Int)
  PROVE  /\ Item(key, opt) \in Seq([key : Words, value : Int])
         /\ Len(Item(key, opt)) = Len(opt)
         /\ \A i \in 1 .. Len(opt) : Item(key, opt)[i] = [key |-> key, value |-> opt[i]]
<1>1. DOMAIN opt = 1 .. Len(opt) /\ Len(opt) \in Nat /\ \A i \in 1 .. Len(opt) : opt[i] \in Int
  BY LenProperties, ElementOfSeq
<1>2. Item(key, opt) \in [1 .. Len(opt) -> [key : Words, value : Int]]
  BY <1>1 DEF Item
<1>3. \A i \in 1 .. Len(opt) : Item(key, opt)[i] = [key |-> key, value |-> opt[i]]
  BY <1>1 DEF Item
<1> QED
  BY <1>1, <1>2, <1>3, FunctionIsSeq

LEMMA TileRoundTrip ==
  ASSUME NEW v, IsTile(v)
  PROVE  /\ IsTileText(PrintedTile(v))
         /\ ParsedTile(PrintedTile(v)) = v
         /\ AccessTileVerified(v) => ParsesTile(PrintedTile(v))
<1> DEFINE dims == [i \in DOMAIN v.shape |-> PrintedDim(v.shape[i])]
<1>0. v = [mnemonic |-> "access_tile", shape |-> v.shape, elem |-> v.elem]
      /\ v.shape \in Seq(Int) /\ v.elem \in Types
  BY DEF IsTile
<1>1. /\ DOMAIN v.shape = 1 .. Len(v.shape) /\ Len(v.shape) \in Nat
      /\ \A i \in DOMAIN v.shape : v.shape[i] \in Int
  BY <1>0
<1>2. \A i \in DOMAIN v.shape : dims[i] \in Seq(Int) /\ Len(dims[i]) <= 1
  BY <1>1, DimIsOptional
<1>3. dims \in Seq(Seq(Int)) /\ DOMAIN dims = DOMAIN v.shape
  <2>1. dims \in [1 .. Len(v.shape) -> Seq(Int)]
    BY <1>1, <1>2
  <2> QED
    BY <1>1, <2>1, FunctionIsSeq
<1>4. PrintedTile(v) = [mnemonic |-> "access_tile", dims |-> dims, elem |-> v.elem]
  BY DEF PrintedTile
<1>5. IsTileText(PrintedTile(v))
  BY <1>0, <1>2, <1>3, <1>4 DEF IsTileText
<1>6. \A i \in DOMAIN v.shape :
        (IF dims[i] = <<>> THEN kDynamic ELSE dims[i][1]) = v.shape[i]
  BY <1>1 DEF PrintedDim
<1>7. v.shape = [i \in DOMAIN v.shape |-> v.shape[i]]
  BY <1>1, <1>0
<1>8. ParsedTile(PrintedTile(v)) = v
  BY <1>0, <1>3, <1>4, <1>6, <1>7 DEF ParsedTile, AccessTileType
<1>9. ASSUME AccessTileVerified(v) PROVE ParsesTile(PrintedTile(v))
  <2>1. \A i \in DOMAIN dims : \A k \in DOMAIN dims[i] : dims[i][k] >= 0
    BY <1>1, <1>3, <1>9 DEF AccessTileVerified, PrintedDim
  <2> QED
    BY <1>4, <1>9, <2>1 DEF ParsesTile, AccessTileVerified
<1> QED
  BY <1>5, <1>8, <1>9

LEMMA ArgRoundTrip ==
  ASSUME NEW v, IsArg(v)
  PROVE  /\ IsArgText(PrintedArg(v))
         /\ ParsesArg(PrintedArg(v))
         /\ ParsedArg(PrintedArg(v)) = v
<1> DEFINE G == Item("granularity", v.gran)
           U == Item("upperbound", v.ub)
           Items == [key : Words, value : Int]
<1>0. /\ v = [mnemonic |-> "runtime_arg", under |-> v.under, gran |-> v.gran, ub |-> v.ub]
      /\ v.under \in Types /\ v.gran \in Seq(Int) /\ v.ub \in Seq(Int)
      /\ Len(v.gran) <= 1 /\ Len(v.ub) <= 1
  BY DEF IsArg
<1>c. /\ \/ v.gran = <<>> /\ Len(v.gran) = 0 /\ DOMAIN v.gran = {}
         \/ /\ v.gran = <<v.gran[1]>> /\ v.gran[1] \in Int
            /\ Len(v.gran) = 1 /\ DOMAIN v.gran = {1}
      /\ \/ v.ub = <<>> /\ Len(v.ub) = 0 /\ DOMAIN v.ub = {}
         \/ v.ub = <<v.ub[1]>> /\ v.ub[1] \in Int /\ Len(v.ub) = 1 /\ DOMAIN v.ub = {1}
  BY <1>0, AtMostOne
<1>a. /\ DOMAIN v.gran = 1 .. Len(v.gran) /\ Len(v.gran) \in 0 .. 1
      /\ DOMAIN v.ub = 1 .. Len(v.ub) /\ Len(v.ub) \in 0 .. 1
      /\ \A i \in DOMAIN v.gran : v.gran[i] \in Int
      /\ \A i \in DOMAIN v.ub : v.ub[i] \in Int
  BY <1>c
<1>k. "granularity" \in Words /\ "upperbound" \in Words
  BY TypesAssumption DEF Keys
<1> HIDE DEF G, U, Items
<1>d. /\ G \in Seq(Items) /\ Len(G) = Len(v.gran)
      /\ \A i \in 1 .. Len(v.gran) : G[i] = [key |-> "granularity", value |-> v.gran[i]]
  BY <1>0, <1>k, ItemsOfKey DEF G, Items
<1>e. /\ U \in Seq(Items) /\ Len(U) = Len(v.ub)
      /\ \A i \in 1 .. Len(v.ub) : U[i] = [key |-> "upperbound", value |-> v.ub[i]]
  BY <1>0, <1>k, ItemsOfKey DEF U, Items
<1>1. G \in Seq(Items) /\ U \in Seq(Items) /\ Len(G) = Len(v.gran) /\ Len(U) = Len(v.ub)
  BY <1>d, <1>e
<1>2. /\ \A i \in 1 .. Len(v.gran) : G[i] = [key |-> "granularity", value |-> v.gran[i]]
      /\ \A i \in 1 .. Len(v.ub) : U[i] = [key |-> "upperbound", value |-> v.ub[i]]
  BY <1>d, <1>e
<1>3. /\ G \o U \in Seq(Items) /\ Len(G \o U) = Len(G) + Len(U)
      /\ \A i \in 1 .. Len(G) : (G \o U)[i] = G[i]
      /\ \A i \in 1 .. Len(U) : (G \o U)[Len(G) + i] = U[i]
  <2>1. Len(G) \in Nat /\ Len(U) \in Nat
    BY <1>1, LenProperties
  <2>2. /\ G \o U \in Seq(Items) /\ Len(G \o U) = Len(G) + Len(U)
        /\ \A i \in 1 .. Len(G) + Len(U) :
             (G \o U)[i] = IF i <= Len(G) THEN G[i] ELSE U[i - Len(G)]
    BY <1>1, ConcatProperties
  <2>3. \A i \in 1 .. Len(G) : (G \o U)[i] = G[i]
    BY <2>1, <2>2
  <2>4. ASSUME NEW i \in 1 .. Len(U) PROVE (G \o U)[Len(G) + i] = U[i]
    <3>1. Len(G) + i \in 1 .. Len(G) + Len(U) /\ ~(Len(G) + i <= Len(G))
          /\ (Len(G) + i) - Len(G) = i
      BY <2>1
    <3> QED
      BY <2>2, <3>1
  <2> QED
    BY <2>2, <2>3, <2>4
<1>4. PrintedArg(v) = [mnemonic |-> "runtime_arg", under |-> v.under, items |-> G \o U]
  BY DEF PrintedArg, G, U
<1>5. IsArgText(PrintedArg(v))
  BY <1>0, <1>3, <1>4 DEF IsArgText, Items
<1>6. Len(G) \in 0 .. 1 /\ Len(U) \in 0 .. 1
  BY <1>a, <1>1
<1>7. DOMAIN (G \o U) = 1 .. Len(G) + Len(U)
  BY <1>3, LenProperties
<1> DEFINE S == G \o U
<1> HIDE DEF S
<1>b. /\ DOMAIN S = 1 .. Len(G) + Len(U)
      /\ \A i \in 1 .. Len(G) : S[i] = [key |-> "granularity", value |-> v.gran[i]]
      /\ \A i \in 1 .. Len(U) : S[Len(G) + i] = [key |-> "upperbound", value |-> v.ub[i]]
  <2>1. /\ \A i \in 1 .. Len(G) : S[i] = G[i]
        /\ \A i \in 1 .. Len(U) : S[Len(G) + i] = U[i]
    BY <1>3 DEF S
  <2> QED
    BY <1>1, <1>2, <1>7, <2>1 DEF S
<1>8. \A i \in DOMAIN S :
        \/ i \in 1 .. Len(G) /\ S[i].key = "granularity" /\ i = 1
        \/ i = Len(G) + 1 /\ 1 \in 1 .. Len(U) /\ S[i].key = "upperbound"
  <2> DEFINE g == Len(G)
             u == Len(U)
  <2>0. g \in 0 .. 1 /\ u \in 0 .. 1
    BY <1>6
  <2>2. \A i \in 1 .. g : S[i].key = "granularity"
    <3> TAKE i \in 1 .. g
    <3>1. S[i] = [key |-> "granularity", value |-> v.gran[i]]
      BY <1>b
    <3> QED
      BY <3>1
  <2>3. 1 \in 1 .. u => S[g + 1].key = "upperbound"
    <3> HAVE 1 \in 1 .. u
    <3>1. S[g + 1] = [key |-> "upperbound", value |-> v.ub[1]]
      BY <1>b
    <3> QED
      BY <3>1
  <2>4. DOMAIN S = 1 .. g + u
    BY <1>b
  <2> HIDE DEF g, u
  <2>5. \A i \in 1 .. g + u : (i \in 1 .. g /\ i = 1) \/ (i = g + 1 /\ 1 \in 1 .. u)
    BY <2>0
  <2>6. \A i \in DOMAIN S :
        \/ i \in 1 .. g /\ S[i].key = "granularity" /\ i = 1
        \/ i = g + 1 /\ 1 \in 1 .. u /\ S[i].key = "upperbound"
    BY <2>2, <2>3, <2>4, <2>5
  <2> QED
    BY <2>6 DEF g, u
<1>9. ParsesArg(PrintedArg(v))
  <2> SUFFICES ASSUME NEW i \in DOMAIN S, NEW j \in DOMAIN S
               PROVE  /\ S[i].key \in Keys
                      /\ S[i].key = S[j].key => i = j
    BY <1>4 DEF ParsesArg, S
  <2> QED
    BY <1>8 DEF Keys
<1>10. ItemOf("granularity", S) = v.gran
  <2>1. CASE v.gran = <<>>
    <3>0. Len(G) = 0
      BY <1>1, <1>c, <2>1
    <3>1. \A i \in DOMAIN S : S[i].key # "granularity"
      BY <3>0, <1>8
    <3> QED
      BY <3>1, <2>1 DEF ItemOf
  <2>2. CASE v.gran # <<>>
    <3>1. Len(v.gran) = 1 /\ v.gran = <<v.gran[1]>>
      BY <1>c, <2>2
    <3>2. 1 \in DOMAIN S /\ S[1] = [key |-> "granularity", value |-> v.gran[1]]
      BY <3>1, <1>1, <1>6, <1>b
    <3>3. \A i \in DOMAIN S : S[i].key = "granularity" => i = 1
      BY <1>8
    <3>4. (CHOOSE i \in DOMAIN S : S[i].key = "granularity") = 1
      BY <3>2, <3>3
    <3>5. S[1].key = "granularity" /\ S[1].value = v.gran[1]
      BY <3>2
    <3>6. ItemOf("granularity", S) = <<v.gran[1]>>
      BY <3>2, <3>4, <3>5 DEF ItemOf
    <3> QED
      BY <3>1, <3>6
  <2> QED
    BY <2>1, <2>2
<1>11. ItemOf("upperbound", S) = v.ub
  <2>1. CASE v.ub = <<>>
    <3>0. Len(U) = 0
      BY <1>1, <1>c, <2>1
    <3>1. \A i \in DOMAIN S : S[i].key # "upperbound"
      BY <1>8, <3>0
    <3> QED
      BY <3>1, <2>1 DEF ItemOf
  <2>2. CASE v.ub # <<>>
    <3>1. Len(v.ub) = 1 /\ v.ub = <<v.ub[1]>>
      BY <1>c, <2>2
    <3>2. /\ Len(G) + 1 \in DOMAIN S
          /\ S[Len(G) + 1] = [key |-> "upperbound", value |-> v.ub[1]]
      BY <3>1, <1>1, <1>6, <1>b
    <3>3. \A i \in DOMAIN S : S[i].key = "upperbound" => i = Len(G) + 1
      BY <1>8
    <3>4. (CHOOSE i \in DOMAIN S : S[i].key = "upperbound") = Len(G) + 1
      BY <3>2, <3>3
    <3>5. S[Len(G) + 1].key = "upperbound" /\ S[Len(G) + 1].value = v.ub[1]
      BY <3>2
    <3>6. ItemOf("upperbound", S) = <<v.ub[1]>>
      BY <3>2, <3>4, <3>5 DEF ItemOf
    <3> QED
      BY <3>1, <3>6
  <2> QED
    BY <2>1, <2>2
<1>12. ParsedArg(PrintedArg(v)) = v
  BY <1>0, <1>4, <1>10, <1>11 DEF ParsedArg, RuntimeArgType, S
<1> QED
  BY <1>5, <1>9, <1>12

LEMMA SpaceRoundTrip ==
  ASSUME NEW v, IsSpace(v)
  PROVE  IsSpaceText(PrintedSpace(v)) /\ ParsedSpace(PrintedSpace(v)) = v
BY DEF IsSpace, IsSpaceText, PrintedSpace, ParsedSpace, MemorySpaceAttr

\* A value's text reads as the value, and it is refused only where the verifier would
\* have refused the value (print and parse of KTDPTypes.cpp and KTDPAttrs.td).
THEOREM RoundTrip ==
  ASSUME NEW v, IsValue(v)
  PROVE  /\ IsText(Printed(v))
         /\ Parsed(Printed(v)) = v
         /\ Parses(Printed(v)) <=> Verified(v)
<1>1. CASE IsTile(v)
  <2>1. /\ v.mnemonic = "access_tile" /\ Printed(v) = PrintedTile(v)
        /\ PrintedTile(v).mnemonic = "access_tile"
    BY <1>1 DEF IsTile, Printed, PrintedTile
  <2>2. Parsed(Printed(v)) = v
    BY <1>1, <2>1, TileRoundTrip DEF Parsed
  <2> QED
    BY <1>1, <2>1, <2>2, TileRoundTrip DEF IsText, Parses, Verified
<1>2. CASE IsArg(v)
  <2>1. /\ v.mnemonic = "runtime_arg" /\ Printed(v) = PrintedArg(v)
        /\ PrintedArg(v).mnemonic = "runtime_arg"
    BY <1>2 DEF IsArg, Printed, PrintedArg
  <2>2. Parsed(Printed(v)) = v
    BY <1>2, <2>1, ArgRoundTrip DEF Parsed
  <2> QED
    BY <1>2, <2>1, <2>2, ArgRoundTrip DEF IsText, Parses, Verified
<1>3. CASE IsSpace(v)
  <2>1. /\ v.mnemonic = "memory_space" /\ Printed(v) = PrintedSpace(v)
        /\ PrintedSpace(v).mnemonic = "memory_space"
    BY <1>3 DEF IsSpace, Printed, PrintedSpace
  <2>2. Parsed(Printed(v)) = v
    BY <1>3, <2>1, SpaceRoundTrip DEF Parsed
  <2> QED
    BY <1>3, <2>1, <2>2, SpaceRoundTrip DEF IsText, Parses, Verified
<1> QED
  BY <1>1, <1>2, <1>3 DEF IsValue

----------------------------------------------------------------------------
(* What Python reads and makes *)

LEMMA MnemonicTells ==
  ASSUME NEW v, IsValue(v)
  PROVE  /\ v.mnemonic \in {"access_tile", "runtime_arg", "memory_space"}
         /\ v.mnemonic = "access_tile" => IsTile(v)
         /\ v.mnemonic = "runtime_arg" => IsArg(v)
         /\ v.mnemonic = "memory_space" => IsSpace(v)
<1>1. IsTile(v) => v.mnemonic = "access_tile"
  BY DEF IsTile
<1>2. IsArg(v) => v.mnemonic = "runtime_arg"
  BY DEF IsArg
<1>3. IsSpace(v) => v.mnemonic = "memory_space"
  BY DEF IsSpace
<1> QED
  BY <1>1, <1>2, <1>3 DEF IsValue

LEMMA OptionalIsSeq ==
  ASSUME NEW S, S \subseteq Int, NEW opt \in Optional(S)
  PROVE  opt \in Seq(Int) /\ Len(opt) <= 1
<1>1. CASE opt = <<>>
  <2>1. <<>> \in Seq(Int) /\ Len(<<>>) = 0
    BY NoElement
  <2> QED
    BY <1>1, <2>1
<1>2. ASSUME NEW x \in S, opt = <<x>> PROVE opt \in Seq(Int) /\ Len(opt) <= 1
  <2>1. <<x>> \in Seq(Int) /\ Len(<<x>>) = 1
    BY OneElement
  <2> QED
    BY <1>2, <2>1
<1> QED
  BY <1>1, <1>2 DEF Optional

LEMMA NonNegativeIsOptional ==
  ASSUME NEW n \in Int
  PROVE  NonNegative(n) \in Seq(Int) /\ Len(NonNegative(n)) <= 1
<1>1. NonNegative(n) \in Optional(Int)
  BY DEF NonNegative, Optional
<1> QED
  BY <1>1, OptionalIsSeq

LEMMA ValueOrIsInt ==
  ASSUME NEW opt \in Seq(Int), Len(opt) <= 1, NEW default \in Int
  PROVE  ValueOr(opt, default) \in Int
BY AtMostOne DEF ValueOr

LEMMA SentinelsUndone ==
  ASSUME NEW opt \in Seq(Int), Len(opt) <= 1, \A i \in DOMAIN opt : opt[i] > 0
  PROVE  NonNegative(ValueOr(opt, -1)) = opt
<1>1. CASE opt = <<>>
  BY <1>1 DEF ValueOr, NonNegative
<1>2. CASE opt # <<>>
  <2>1. opt = <<opt[1]>> /\ opt[1] \in Int /\ DOMAIN opt = {1}
    BY <1>2, AtMostOne
  <2>2. ValueOr(opt, -1) = opt[1] /\ opt[1] >= 0
    BY <1>2, <2>1 DEF ValueOr
  <2>3. NonNegative(opt[1]) = <<opt[1]>>
    BY <2>2 DEF NonNegative
  <2> QED
    BY <2>1, <2>2, <2>3
<1> QED
  BY <1>1, <1>2

LEMMA PyArgIsArg ==
  ASSUME NEW under \in Types, NEW gran \in Seq(Int), Len(gran) <= 1,
         NEW ub \in Seq(Int), Len(ub) <= 1
  PROVE  IsArg(PyRuntimeArgType(under, gran, ub))
<1> DEFINE g == NonNegative(ValueOr(gran, -1))
           u == NonNegative(ValueOr(ub, -1))
<1>1. ValueOr(gran, -1) \in Int /\ ValueOr(ub, -1) \in Int
  <2>1. ValueOr(gran, -1) \in Int
    BY -1 \in Int, ValueOrIsInt
  <2>2. ValueOr(ub, -1) \in Int
    BY -1 \in Int, ValueOrIsInt
  <2> QED
    BY <2>1, <2>2
<1>2. g \in Seq(Int) /\ Len(g) <= 1 /\ u \in Seq(Int) /\ Len(u) <= 1
  BY <1>1, NonNegativeIsOptional
<1>3. PyRuntimeArgType(under, gran, ub) =
        [mnemonic |-> "runtime_arg", under |-> under, gran |-> g, ub |-> u]
  BY DEF PyRuntimeArgType, mlirKTDPRuntimeArgTypeGet, RuntimeArgType
<1> HIDE DEF g, u
<1> QED
  BY <1>2, <1>3 DEF IsArg

LEMMA PySpaceIsSpace ==
  ASSUME NEW k, NEW ct \in Seq(Int), Len(ct) <= 1
  PROVE  IsSpace(PyMemorySpaceAttr(k, ct))
<1>1. ValueOr(ct, -1) \in Int
  BY ValueOrIsInt
<1> QED
  BY <1>1 DEF IsSpace, PyMemorySpaceAttr, MemorySpaceAttr, unwrapMemorySpaceKind, MemorySpaceKind

\* The properties that Python reads of a runtime_arg make a runtime_arg, and the same
\* one when it is verified (bindings of RuntimeArgType, KTIRModule.cpp and KTDP.cpp).
THEOREM PyArgRoundTrip ==
  ASSUME NEW v, IsArg(v)
  PROVE  /\ IsArg(PyRuntimeArgType(v.under, PyGranularity(v), PyUpperbound(v)))
         /\ Verified(v) => PyRuntimeArgType(v.under, PyGranularity(v), PyUpperbound(v)) = v
<1>0. /\ v = [mnemonic |-> "runtime_arg", under |-> v.under, gran |-> v.gran, ub |-> v.ub]
      /\ v.under \in Types /\ v.gran \in Seq(Int) /\ v.ub \in Seq(Int)
      /\ Len(v.gran) <= 1 /\ Len(v.ub) <= 1
  BY DEF IsArg
<1>1. ValueOr(v.gran, -1) \in Int /\ ValueOr(v.ub, -1) \in Int
  BY <1>0, ValueOrIsInt
<1>2. /\ PyGranularity(v) = NonNegative(ValueOr(v.gran, -1))
      /\ PyUpperbound(v) = NonNegative(ValueOr(v.ub, -1))
  BY DEF PyGranularity, PyUpperbound, mlirKTDPRuntimeArgTypeGetGranularity,
         mlirKTDPRuntimeArgTypeGetUpperbound
<1>3. /\ PyGranularity(v) \in Seq(Int) /\ Len(PyGranularity(v)) <= 1
      /\ PyUpperbound(v) \in Seq(Int) /\ Len(PyUpperbound(v)) <= 1
  BY <1>1, <1>2, NonNegativeIsOptional
<1>4. IsArg(PyRuntimeArgType(v.under, PyGranularity(v), PyUpperbound(v)))
  BY <1>0, <1>3, PyArgIsArg
<1>5. ASSUME Verified(v)
      PROVE  PyRuntimeArgType(v.under, PyGranularity(v), PyUpperbound(v)) = v
  <2>1. /\ \A i \in DOMAIN v.gran : v.gran[i] > 0
        /\ \A i \in DOMAIN v.ub : v.ub[i] > 0
    BY <1>0, <1>5 DEF Verified, RuntimeArgVerified
  <2>2. /\ NonNegative(ValueOr(v.gran, -1)) = v.gran
        /\ NonNegative(ValueOr(v.ub, -1)) = v.ub
    BY <1>0, <2>1, SentinelsUndone
  <2>3. PyGranularity(v) = v.gran /\ PyUpperbound(v) = v.ub
    BY <1>2, <2>2
  <2> QED
    BY <1>0, <2>2, <2>3 DEF PyRuntimeArgType, mlirKTDPRuntimeArgTypeGet, RuntimeArgType
<1> QED
  BY <1>4, <1>5

\* Likewise of a memory space, whose absent ct_id is -1 in C++ and None in Python.
THEOREM PySpaceRoundTrip ==
  ASSUME NEW v, IsSpace(v)
  PROVE  /\ IsSpace(PyMemorySpaceAttr(PyKind(v), PyCtId(v)))
         /\ Verified(v) => PyMemorySpaceAttr(PyKind(v), PyCtId(v)) = v
<1>0. /\ v = [mnemonic |-> "memory_space", kind |-> v.kind, ct |-> v.ct]
      /\ v.kind \in {"global", "ct_local"} /\ v.ct \in Int
  BY DEF IsSpace, MemorySpaceKind
<1>1. PyCtId(v) \in Seq(Int) /\ Len(PyCtId(v)) <= 1
  BY <1>0, NonNegativeIsOptional DEF PyCtId
<1>2. ASSUME Verified(v) PROVE PyMemorySpaceAttr(PyKind(v), PyCtId(v)) = v
  <2>1. v.ct = -1 \/ v.ct >= 0
    BY <1>0, <1>2 DEF Verified, MemorySpaceVerified
  <2>2. ValueOr(PyCtId(v), -1) = v.ct
    <3>1. CASE v.ct = -1
      <4>1. PyCtId(v) = <<>>
        BY <3>1 DEF PyCtId, NonNegative
      <4> QED
        BY <3>1, <4>1 DEF ValueOr
    <3>2. CASE v.ct >= 0
      <4>1. PyCtId(v) = <<v.ct>>
        BY <3>2 DEF PyCtId, NonNegative
      <4> QED
        BY <4>1 DEF ValueOr
    <3> QED
      BY <2>1, <3>1, <3>2
  <2>3. unwrapMemorySpaceKind(PyKind(v)) = v.kind
    BY <1>0 DEF unwrapMemorySpaceKind, PyKind, wrapMemorySpaceKind
  <2> QED
    BY <1>0, <2>2, <2>3 DEF PyMemorySpaceAttr, MemorySpaceAttr
<1> QED
  BY <1>1, <1>2, PySpaceIsSpace

----------------------------------------------------------------------------
(* The invariant.  A copy is compared with its original when it is read; until then the *)
(* text must still be the original's, and a Builder must have forgotten the original.   *)

OriginalKept ==
  /\ \/ original = <<>>
     \/ /\ original = <<original[1]>> /\ IsValue(original[1].value)
        /\ original[1].via \in {"text", "python"}
  /\ stage \in {"empty", "building"} => original = <<>>
  /\ stage = "text" /\ original # <<>> =>
       original[1].via = "text" /\ text[1] = Printed(original[1].value)
  /\ original # <<>> /\ original[1].via = "text" => stage \in {"text", "held", "error"}

ValuesInv ==
  ValuesTypeOK /\ HeldIsVerified /\ TextIsFaithful /\ AccessorsMirrorValue /\ OriginalKept

\* A step that fails and one that makes a value keep the invariant when no original is
\* left to compare with.
LEMMA Stops ==
  ASSUME ValuesInv, stage' \in {"raised", "aborted", "undefined"},
         UNCHANGED <<asserts, value>>, text' \in {text, <<>>}, original' = <<>>
  PROVE  ValuesInv'
<1>1. ValuesTypeOK'
  BY DEF ValuesInv, ValuesTypeOK, Stages
<1> QED
  BY <1>1 DEF ValuesInv, HeldIsVerified, TextIsFaithful, AccessorsMirrorValue, OriginalKept

LEMMA Makes ==
  ASSUME ValuesInv, NEW v, IsValue(v), asserts' = asserts, value' = <<v>>,
         \/ stage' = "held" /\ (asserts => Verified(v))
         \/ stage' = "building",
         text' \in {text, <<>>}, original' = <<>>
  PROVE  ValuesInv'
<1>1. value'[1] = v /\ value' # <<>>
  OBVIOUS
<1>2. ValuesTypeOK'
  BY <1>1 DEF ValuesInv, ValuesTypeOK, Stages
<1>3. HeldIsVerified'
  BY <1>1 DEF HeldIsVerified
<1> QED
  BY <1>2, <1>3 DEF ValuesInv, TextIsFaithful, AccessorsMirrorValue, OriginalKept

LEMMA Gets ==
  ASSUME ValuesInv, NEW v, IsValue(v), Get(v) \/ GetChecked(v) \/ Unreachable,
         asserts' = asserts, text' \in {text, <<>>}, original' = <<>>
  PROVE  ValuesInv'
<1>1. \/ stage' = "held" /\ value' = <<v>> /\ (asserts => Verified(v))
      \/ stage' \in {"raised", "aborted", "undefined"} /\ value' = value
  BY DEF Get, GetChecked, Unreachable
<1>2. CASE stage' = "held" /\ value' = <<v>> /\ (asserts => Verified(v))
  BY <1>2, Makes
<1>3. CASE stage' \in {"raised", "aborted", "undefined"} /\ value' = value
  BY <1>3, Stops
<1> QED
  BY <1>1, <1>2, <1>3

LEMMA HeldValue ==
  ASSUME ValuesInv, stage \in {"held", "building"}
  PROVE  value # <<>> /\ value = <<value[1]>> /\ IsValue(value[1])
BY DEF ValuesInv, ValuesTypeOK

LEMMA WriteKeeps ==
  ASSUME ValuesInv, Write
  PROVE  ValuesInv'
<1>1. PICK t \in Texts : stage' = "text" /\ text' = <<t>>
  BY DEF Write
<1>2. IsText(t) /\ text'[1] = t /\ text' # <<>>
  BY <1>1, ArgumentsAssumption
<1>3. original' = <<>> /\ UNCHANGED <<asserts, value>>
  BY DEF Write, ValuesInv, OriginalKept
<1>4. ValuesTypeOK'
  BY <1>1, <1>2, <1>3 DEF ValuesInv, ValuesTypeOK, Stages
<1> QED
  BY <1>1, <1>3, <1>4 DEF ValuesInv, HeldIsVerified, TextIsFaithful, AccessorsMirrorValue,
                          OriginalKept

LEMMA PrintOutKeeps ==
  ASSUME ValuesInv, PrintOut
  PROVE  ValuesInv'
<1>0. IsValue(value[1]) /\ value # <<>>
  BY HeldValue DEF PrintOut
<1> DEFINE t == Printed(value[1])
<1>1. IsText(t)
  BY <1>0, RoundTrip
<1>2. /\ stage' = "text" /\ text' = <<t>> /\ UNCHANGED <<asserts, value>>
      /\ original' = <<[via |-> "text", value |-> value[1]]>>
  BY DEF PrintOut
<1> HIDE DEF t
<1>3. ValuesTypeOK'
  BY <1>1, <1>2 DEF ValuesInv, ValuesTypeOK, Stages
<1>4. /\ original'[1].via = "text" /\ original'[1].value = value[1] /\ original' # <<>>
      /\ text'[1] = t /\ original' = <<original'[1]>>
  BY <1>2
<1>5. OriginalKept'
  BY <1>0, <1>2, <1>4 DEF OriginalKept, t
<1> QED
  BY <1>2, <1>3, <1>4, <1>5
     DEF ValuesInv, HeldIsVerified, TextIsFaithful, AccessorsMirrorValue
LEMMA ParsedIsValue ==
  ASSUME NEW t, IsText(t)
  PROVE  IsValue(Parsed(t))
<1>1. CASE IsTileText(t)
  <2>1. t.mnemonic = "access_tile" /\ t.dims \in Seq(Seq(Int)) /\ t.elem \in Types
    BY <1>1 DEF IsTileText
  <2> DEFINE shape == [i \in DOMAIN t.dims |-> IF t.dims[i] = <<>> THEN kDynamic ELSE t.dims[i][1]]
  <2>2. /\ Len(t.dims) \in Nat /\ DOMAIN t.dims = 1 .. Len(t.dims)
        /\ \A i \in 1 .. Len(t.dims) : t.dims[i] \in Seq(Int) /\ Len(t.dims[i]) <= 1
    BY <1>1, <2>1, LenProperties, ElementOfSeq DEF IsTileText
  <2>3. \A i \in 1 .. Len(t.dims) : shape[i] \in Int
    <3> TAKE i \in 1 .. Len(t.dims)
    <3>1. t.dims[i] = <<>> \/ t.dims[i][1] \in Int
      BY <2>2, AtMostOne
    <3> QED
      BY <2>2, <3>1, TypesAssumption
  <2>4. shape \in [1 .. Len(t.dims) -> Int]
    BY <2>2, <2>3
  <2>5. shape \in Seq(Int)
    BY <2>2, <2>4, FunctionIsSeq
  <2>6. Parsed(t) = [mnemonic |-> "access_tile", shape |-> shape, elem |-> t.elem]
    BY <2>1 DEF Parsed, ParsedTile, AccessTileType
  <2> HIDE DEF shape
  <2> QED
    BY <2>1, <2>5, <2>6 DEF IsValue, IsTile
<1>2. CASE IsArgText(t)
  <2>1. /\ t.mnemonic = "runtime_arg" /\ t.under \in Types
        /\ t.items \in Seq([key : Words, value : Int])
    BY <1>2 DEF IsArgText
  <2>2. ASSUME NEW key PROVE ItemOf(key, t.items) \in Optional(Int)
    <3>1. \A i \in DOMAIN t.items : t.items[i].value \in Int
      <4>1. DOMAIN t.items = 1 .. Len(t.items)
        BY <2>1, LenProperties
      <4>2. \A i \in 1 .. Len(t.items) : t.items[i] \in [key : Words, value : Int]
        BY <2>1, ElementOfSeq
      <4> QED
        BY <4>1, <4>2
    <3>2. CASE \E i \in DOMAIN t.items : t.items[i].key = key
      <4> DEFINE i == CHOOSE i \in DOMAIN t.items : t.items[i].key = key
      <4>1. i \in DOMAIN t.items
        BY <3>2
      <4>2. ItemOf(key, t.items) = <<t.items[i].value>>
        BY <3>2 DEF ItemOf
      <4> HIDE DEF i
      <4> QED
        BY <3>1, <4>1, <4>2 DEF Optional
    <3>3. CASE ~\E i \in DOMAIN t.items : t.items[i].key = key
      <4>1. ItemOf(key, t.items) = <<>>
        BY <3>3 DEF ItemOf
      <4> QED
        BY <4>1 DEF Optional
    <3> QED
      BY <3>2, <3>3
  <2> DEFINE g == ItemOf("granularity", t.items)
             u == ItemOf("upperbound", t.items)
  <2>3. g \in Seq(Int) /\ Len(g) <= 1 /\ u \in Seq(Int) /\ Len(u) <= 1
    BY <2>2, OptionalIsSeq
  <2>4. Parsed(t) = [mnemonic |-> "runtime_arg", under |-> t.under, gran |-> g, ub |-> u]
    BY <2>1 DEF Parsed, ParsedArg, RuntimeArgType
  <2> HIDE DEF g, u
  <2> QED
    BY <2>1, <2>3, <2>4 DEF IsValue, IsArg
<1>3. CASE IsSpaceText(t)
  <2>1. /\ t.mnemonic = "memory_space" /\ t.kind \in MemorySpaceKind
        /\ t.ct \in Seq(Int) /\ Len(t.ct) <= 1
    BY <1>3 DEF IsSpaceText
  <2>2. (IF t.ct = <<>> THEN -1 ELSE t.ct[1]) \in Int
    BY <2>1, AtMostOne
  <2>3. Parsed(t) = [mnemonic |-> "memory_space", kind |-> t.kind,
                     ct |-> IF t.ct = <<>> THEN -1 ELSE t.ct[1]]
    BY <2>1 DEF Parsed, ParsedSpace, MemorySpaceAttr
  <2> QED
    BY <2>1, <2>2, <2>3 DEF IsValue, IsSpace
<1> QED
  BY <1>1, <1>2, <1>3 DEF IsText

\* A copy read from the original's text is the original by RoundTrip.
LEMMA ParseKeeps ==
  ASSUME ValuesInv, Parse
  PROVE  ValuesInv'
<1> DEFINE t == text[1]
           v == Parsed(t)
<1>0. /\ stage = "text" /\ text # <<>> /\ IsText(t) /\ text = <<t>>
      /\ UNCHANGED <<asserts, text, original>>
  BY DEF Parse, ValuesInv, ValuesTypeOK
<1>1. IsValue(v)
  BY <1>0, ParsedIsValue
<1>2. Parses(t) => Verified(v)
  BY DEF Parses
<1>3. \/ Parses(t) /\ stage' = "held" /\ value' = <<v>>
      \/ ~Parses(t) /\ stage' = "error" /\ value' = value
  BY DEF Parse
<1>4. original # <<>> =>
        /\ original = <<original[1]>> /\ IsValue(original[1].value)
        /\ original[1].via = "text" /\ t = Printed(original[1].value)
        /\ v = original[1].value /\ (Parses(t) <=> Verified(original[1].value))
  <2> HAVE original # <<>>
  <2>1. /\ original = <<original[1]>> /\ IsValue(original[1].value)
        /\ original[1].via = "text" /\ t = Printed(original[1].value)
    BY <1>0 DEF ValuesInv, OriginalKept
  <2> QED
    BY <2>1, RoundTrip
<1> HIDE DEF t, v
<1>5. CASE Parses(t) /\ stage' = "held" /\ value' = <<v>>
  <2>1. value' # <<>> /\ value'[1] = v
    BY <1>5
  <2>2. ValuesTypeOK'
    BY <1>0, <1>1, <1>5, <2>1 DEF ValuesInv, ValuesTypeOK, Stages
  <2> QED
    BY <1>0, <1>2, <1>4, <1>5, <2>1, <2>2 
       DEF ValuesInv, HeldIsVerified, TextIsFaithful, AccessorsMirrorValue, OriginalKept
<1>6. CASE ~Parses(t) /\ stage' = "error" /\ value' = value
  <2>1. ValuesTypeOK'
    BY <1>0, <1>6 DEF ValuesInv, ValuesTypeOK, Stages
  <2> QED
    BY <1>0, <1>4, <1>6, <2>1
       DEF ValuesInv, HeldIsVerified, TextIsFaithful, AccessorsMirrorValue, OriginalKept
<1> QED
  BY <1>3, <1>5, <1>6

LEMMA PyCopyKeeps ==
  ASSUME ValuesInv, PyCopy
  PROVE  ValuesInv'
<1> DEFINE v == value[1]
<1>0. IsValue(v) /\ value # <<>> /\ value = <<v>> /\ stage = "held"
  BY HeldValue DEF PyCopy
<1>1. PICK w : /\ IsValue(w) /\ (Verified(v) => w = v)
               /\ Get(w) \/ GetChecked(w)
  <2>1. CASE v.mnemonic = "access_tile" /\ Get(AccessTileType(v.shape, v.elem))
    <3>1. v = [mnemonic |-> "access_tile", shape |-> v.shape, elem |-> v.elem]
      BY <1>0, <2>1, MnemonicTells DEF IsTile
    <3>2. AccessTileType(v.shape, v.elem) = v
      BY <3>1 DEF AccessTileType
    <3> QED
      BY <1>0, <2>1, <3>2
  <2>2. CASE /\ v.mnemonic = "runtime_arg"
             /\ Get(PyRuntimeArgType(v.under, PyGranularity(v), PyUpperbound(v)))
    <3>1. IsArg(v)
      BY <1>0, <2>2, MnemonicTells
    <3> QED
      BY <2>2, <3>1, PyArgRoundTrip DEF IsValue
  <2>3. CASE /\ v.mnemonic = "memory_space"
             /\ GetChecked(PyMemorySpaceAttr(PyKind(v), PyCtId(v)))
    <3>1. IsSpace(v)
      BY <1>0, <2>3, MnemonicTells
    <3> QED
      BY <2>3, <3>1, PySpaceRoundTrip DEF IsValue
  <2> QED
    BY <2>1, <2>2, <2>3 DEF PyCopy
<1>2. /\ original' = <<[via |-> "python", value |-> v]>> /\ UNCHANGED <<asserts, text>>
  BY DEF PyCopy
<1> HIDE DEF v
<1>3. /\ original' # <<>> /\ original'[1].via = "python" /\ original'[1].value = v
      /\ original' = <<original'[1]>>
  BY <1>2
<1>4. \/ stage' = "held" /\ value' = <<w>> /\ (asserts => Verified(w))
      \/ stage' \in {"aborted", "raised"} /\ value' = value /\ ~Verified(w)
  BY <1>1 DEF Get, GetChecked
<1>5. CASE stage' = "held" /\ value' = <<w>> /\ (asserts => Verified(w))
  <2>1. value' # <<>> /\ value'[1] = w
    BY <1>5
  <2>2. ValuesTypeOK'
    BY <1>1, <1>2, <1>5, <2>1 DEF ValuesInv, ValuesTypeOK, Stages
  <2> QED
    BY <1>0, <1>1, <1>2, <1>3, <1>5, <2>1, <2>2
       DEF ValuesInv, HeldIsVerified, TextIsFaithful, AccessorsMirrorValue, OriginalKept
<1>6. CASE stage' \in {"aborted", "raised"} /\ value' = value /\ ~Verified(w)
  <2>1. ~Verified(v)
    BY <1>1, <1>6
  <2>2. ValuesTypeOK'
    BY <1>2, <1>6 DEF ValuesInv, ValuesTypeOK, Stages
  <2> QED
    BY <1>0, <1>2, <1>3, <1>6, <2>1, <2>2
       DEF ValuesInv, HeldIsVerified, TextIsFaithful, AccessorsMirrorValue, OriginalKept
<1> QED
  BY <1>4, <1>5, <1>6
LEMMA PythonMakes ==
  ASSUME ValuesInv, PyGetTile \/ PyGetArg \/ PyGetSpace \/ PyGetSpaceUnchecked
  PROVE  ValuesInv'
<1>0. UNCHANGED <<asserts, text>> /\ original' = <<>>
  BY DEF PyGetTile, PyGetArg, PyGetSpace, PyGetSpaceUnchecked, ValuesInv, OriginalKept
<1>1. CASE PyGetTile
  <2>1. PICK shape \in Shapes, elem \in Types : Get(AccessTileType(shape, elem))
    BY <1>1 DEF PyGetTile
  <2>2. IsTile(AccessTileType(shape, elem))
    BY ArgumentsAssumption DEF IsTile, AccessTileType
  <2> QED
    BY <1>0, <2>1, <2>2, Gets DEF IsValue
<1>2. CASE PyGetArg
  <2>1. PICK under \in Types, gran \in Optional(Numbers), ub \in Optional(Numbers) :
          Get(PyRuntimeArgType(under, gran, ub))
    BY <1>2 DEF PyGetArg
  <2>2. IsArg(PyRuntimeArgType(under, gran, ub))
    BY ArgumentsAssumption, OptionalIsSeq, PyArgIsArg
  <2> QED
    BY <1>0, <2>1, <2>2, Gets DEF IsValue
<1>3. CASE PyGetSpace \/ PyGetSpaceUnchecked
  <2>1. PICK k \in KindNumbers, ct \in Optional(Numbers) :
          \/ GetChecked(PyMemorySpaceAttr(k, ct)) 
          \/ Get(PyMemorySpaceAttr(k, ct))
          \/ Unreachable
    BY <1>3 DEF PyGetSpace, PyGetSpaceUnchecked
  <2>2. IsSpace(PyMemorySpaceAttr(k, ct))
    BY ArgumentsAssumption, OptionalIsSeq, PySpaceIsSpace
  <2> QED
    BY <1>0, <2>1, <2>2, Gets DEF IsValue
<1> QED
  BY <1>1, <1>2, <1>3

LEMMA StartBuilderKeeps ==
  ASSUME ValuesInv, StartBuilder
  PROVE  ValuesInv'
<1>1. value = <<value[1]>> /\ IsValue(value[1])
  BY HeldValue DEF StartBuilder
<1> DEFINE v == value[1]
<1>2. value' = <<v>> /\ IsValue(v)
  BY <1>1 DEF StartBuilder
<1> HIDE DEF v
<1>3. asserts' = asserts /\ stage' = "building" /\ text' \in {text, <<>>} /\ original' = <<>>
  BY DEF StartBuilder
<1> QED
  BY <1>2, <1>3, Makes

LEMMA DimsEdited ==
  ASSUME NEW shape \in Seq(Int), NEW pos \in Nat, NEW n \in Int
  PROVE  /\ pos < Len(shape) => WithoutDim(shape, pos) \in Seq(Int)
         /\ pos <= Len(shape) => WithDim(shape, n, pos) \in Seq(Int)
<1>1. Len(shape) \in Nat /\ \A i \in 1 .. Len(shape) : shape[i] \in Int
  BY LenProperties, ElementOfSeq
<1>2. ASSUME pos < Len(shape) PROVE WithoutDim(shape, pos) \in Seq(Int)
  <2>1. \A i \in 1 .. Len(shape) - 1 : shape[i] \in Int /\ shape[i + 1] \in Int
    BY <1>1
  <2>2. WithoutDim(shape, pos) \in [1 .. Len(shape) - 1 -> Int]
    BY <2>1 DEF WithoutDim
  <2>3. Len(shape) - 1 \in Nat
    BY <1>1, <1>2
  <2> QED
    BY <2>2, <2>3, FunctionIsSeq
<1>3. ASSUME pos <= Len(shape) PROVE WithDim(shape, n, pos) \in Seq(Int)
  <2>1. \A i \in 1 .. Len(shape) + 1 :
          (IF i <= pos THEN shape[i] ELSE IF i = pos + 1 THEN n ELSE shape[i - 1]) \in Int
    <3> TAKE i \in 1 .. Len(shape) + 1
    <3>1. CASE i <= pos
      <4>1. i \in 1 .. Len(shape)
        BY <1>1, <1>3, <3>1
      <4> QED
        BY <1>1, <3>1, <4>1
    <3>2. CASE i = pos + 1
      BY <3>2
    <3>3. CASE i > pos + 1
      <4>1. i - 1 \in 1 .. Len(shape) /\ ~(i <= pos) /\ i # pos + 1
        BY <1>1, <1>3, <3>3
      <4> QED
        BY <1>1, <4>1
    <3> QED
      BY <1>1, <3>1, <3>2, <3>3
  <2>2. WithDim(shape, n, pos) \in [1 .. Len(shape) + 1 -> Int]
    BY <2>1 DEF WithDim
  <2>3. Len(shape) + 1 \in Nat
    BY <1>1
  <2> QED
    BY <2>2, <2>3, FunctionIsSeq
<1> QED
  BY <1>2, <1>3

LEMMA BuilderKeeps ==
  ASSUME ValuesInv, BuilderNext
  PROVE  ValuesInv'
<1> DEFINE v == value[1]
<1>0. /\ stage = "building" /\ IsValue(v) /\ original = <<>>
      /\ UNCHANGED <<asserts, text, original>>
  BY HeldValue DEF BuilderNext, SetTile, DropDim, InsertDim, SetArg, Convert, Building, ValuesInv,
                   OriginalKept
<1>a. IsTile(v) => v = [mnemonic |-> "access_tile", shape |-> v.shape, elem |-> v.elem]
                   /\ v.shape \in Seq(Int) /\ v.elem \in Types
  BY DEF IsTile
<1>b. IsArg(v) => /\ v = [mnemonic |-> "runtime_arg", under |-> v.under,
                          gran |-> v.gran, ub |-> v.ub]
                  /\ v.under \in Types /\ v.gran \in Seq(Int) /\ v.ub \in Seq(Int)
                  /\ Len(v.gran) <= 1 /\ Len(v.ub) <= 1
  BY DEF IsArg
<1>t. ASSUME NEW shape \in Seq(Int), IsTile(v), value' = <<[v EXCEPT !.shape = shape]>>,
             UNCHANGED stage
      PROVE  ValuesInv'
  <2>1. [v EXCEPT !.shape = shape] = [mnemonic |-> "access_tile", shape |-> shape, elem |-> v.elem]
    BY <1>a, <1>t
  <2>2. IsTile([v EXCEPT !.shape = shape])
    BY <1>a, <1>t, <2>1 DEF IsTile
  <2> HIDE DEF v
  <2> QED
    BY <1>0, <1>t, <2>2, Makes DEF IsValue
<1>1. CASE SetTile
  <2>1. IsTile(v) /\ UNCHANGED stage
    BY <1>0, <1>1, MnemonicTells DEF SetTile, Building
  <2>2. ASSUME NEW shape \in Shapes, value' = <<[v EXCEPT !.shape = shape]>> PROVE ValuesInv'
    BY <1>t, <2>1, <2>2, ArgumentsAssumption
  <2>3. ASSUME NEW elem \in Types, value' = <<[v EXCEPT !.elem = elem]>> PROVE ValuesInv'
    <3>1. [v EXCEPT !.elem = elem] = [mnemonic |-> "access_tile", shape |-> v.shape, elem |-> elem]
      BY <1>a, <2>1
    <3>2. IsTile([v EXCEPT !.elem = elem])
      BY <1>a, <2>1, <3>1 DEF IsTile
    <3> HIDE DEF v
    <3> QED
      BY <1>0, <2>1, <2>3, <3>2, Makes DEF IsValue
  <2> QED
    BY <1>1, <2>2, <2>3 DEF SetTile
<1>2. CASE DropDim
  <2>1. IsTile(v)
    BY <1>0, <1>2, MnemonicTells DEF DropDim, Building
  <2>2. Len(v.shape) \in Nat
    BY <1>a, <2>1, LenProperties
  <2>3. PICK pos \in 0 .. Len(v.shape) :
          \/ /\ pos < Len(v.shape)
             /\ value' = <<[v EXCEPT !.shape = WithoutDim(@, pos)]>> /\ UNCHANGED stage
          \/ Unreachable
    BY <1>2 DEF DropDim
  <2>4. pos \in Nat
    BY <2>2
  <2>5. CASE Unreachable
    BY <1>0, <2>5, Gets
  <2>6. CASE /\ pos < Len(v.shape)
             /\ value' = <<[v EXCEPT !.shape = WithoutDim(v.shape, pos)]>> /\ UNCHANGED stage
    <3>1. WithoutDim(v.shape, pos) \in Seq(Int)
      BY <1>a, <2>1, <2>4, <2>6, 0 \in Int, DimsEdited
    <3> QED
      BY <1>t, <2>1, <2>6, <3>1
  <2> QED
    BY <2>3, <2>5, <2>6
<1>3. CASE InsertDim
  <2>1. IsTile(v)
    BY <1>0, <1>3, MnemonicTells DEF InsertDim, Building
  <2>2. Len(v.shape) \in Nat
    BY <1>a, <2>1, LenProperties
  <2>3. PICK pos \in 0 .. Len(v.shape) + 1, n \in Numbers \cup {kDynamic} :
          \/ /\ pos <= Len(v.shape)
             /\ value' = <<[v EXCEPT !.shape = WithDim(@, n, pos)]>> /\ UNCHANGED stage
          \/ Unreachable
    BY <1>3 DEF InsertDim
  <2>4. pos \in Nat /\ n \in Int
    BY <2>2, ArgumentsAssumption, TypesAssumption
  <2>5. CASE Unreachable
    BY <1>0, <2>5, Gets
  <2>6. CASE /\ pos <= Len(v.shape)
             /\ value' = <<[v EXCEPT !.shape = WithDim(v.shape, n, pos)]>> /\ UNCHANGED stage
    <3>1. WithDim(v.shape, n, pos) \in Seq(Int)
      BY <1>a, <2>1, <2>4, <2>6, DimsEdited
    <3> QED
      BY <1>t, <2>1, <2>6, <3>1
  <2> QED
    BY <2>3, <2>5, <2>6
<1>4. CASE SetArg
  <2>1. IsArg(v) /\ UNCHANGED stage
    BY <1>0, <1>4, MnemonicTells DEF SetArg, Building
  <2>2. PICK w : value' = <<w>> /\ IsArg(w)
    <3>1. ASSUME NEW under \in Types, value' = <<[v EXCEPT !.under = under]>>
          PROVE  IsArg([v EXCEPT !.under = under])
      <4>1. [v EXCEPT !.under = under] =
              [mnemonic |-> "runtime_arg", under |-> under, gran |-> v.gran, ub |-> v.ub]
        BY <1>b, <2>1
      <4> QED
        BY <1>b, <2>1, <4>1 DEF IsArg
    <3>2. ASSUME NEW gran \in Optional(Numbers)
          PROVE  IsArg([v EXCEPT !.gran = gran])
      <4>1. [v EXCEPT !.gran = gran] =
              [mnemonic |-> "runtime_arg", under |-> v.under, gran |-> gran, ub |-> v.ub]
        BY <1>b, <2>1
      <4>2. gran \in Seq(Int) /\ Len(gran) <= 1
        BY ArgumentsAssumption, OptionalIsSeq
      <4> QED
        BY <1>b, <2>1, <4>1, <4>2 DEF IsArg
    <3>3. ASSUME NEW ub \in Optional(Numbers)
          PROVE  IsArg([v EXCEPT !.ub = ub])
      <4>1. [v EXCEPT !.ub = ub] =
              [mnemonic |-> "runtime_arg", under |-> v.under, gran |-> v.gran, ub |-> ub]
        BY <1>b, <2>1
      <4>2. ub \in Seq(Int) /\ Len(ub) <= 1
        BY ArgumentsAssumption, OptionalIsSeq
      <4> QED
        BY <1>b, <2>1, <4>1, <4>2 DEF IsArg
    <3> QED
      BY <1>4, <3>1, <3>2, <3>3 DEF SetArg
  <2> QED
    BY <1>0, <2>1, <2>2, Makes DEF IsValue
<1>5. CASE Convert
  <2>1. Get(v)
    BY <1>5 DEF Convert
  <2> HIDE DEF v
  <2> QED
    BY <1>0, <2>1, Gets
<1> QED
  BY <1>1, <1>2, <1>3, <1>4, <1>5 DEF BuilderNext

LEMMA CloneKeeps ==
  ASSUME ValuesInv, Clone
  PROVE  ValuesInv'
<1> DEFINE v == value[1]
<1>0. IsValue(v)
  BY HeldValue DEF Clone
<1>1. asserts' = asserts /\ text' \in {text, <<>>} /\ original' = <<>>
  BY DEF Clone
<1>2. PICK w : IsValue(w) /\ Get(w)
  <2>1. ASSUME v.mnemonic = "access_tile", NEW shape \in Shapes \cup {v.shape}, NEW elem \in Types
        PROVE  IsValue(AccessTileType(shape, elem))
    <3>1. v.shape \in Seq(Int)
      BY <1>0, <2>1, MnemonicTells DEF IsTile
    <3>2. shape \in Seq(Int)
      BY <3>1, ArgumentsAssumption
    <3> QED
      BY <3>2 DEF IsValue, IsTile, AccessTileType
  <2>2. ASSUME NEW under \in Types, NEW gran \in Optional(Numbers), NEW ub \in Optional(Numbers)
        PROVE  IsValue(RuntimeArgType(under, gran, ub))
    <3>1. gran \in Seq(Int) /\ Len(gran) <= 1 /\ ub \in Seq(Int) /\ Len(ub) <= 1
      BY ArgumentsAssumption, OptionalIsSeq
    <3> QED
      BY <3>1 DEF IsValue, IsArg, RuntimeArgType
  <2> QED
    BY <2>1, <2>2 DEF Clone
<1> QED
  BY <1>1, <1>2, Gets

LEMMA ValuesInitially == ValuesInit => ValuesInv
BY DEF ValuesInit, ValuesInv, ValuesTypeOK, Stages, HeldIsVerified, TextIsFaithful,
       AccessorsMirrorValue, OriginalKept

LEMMA ValuesStep ==
  ASSUME ValuesInv, ValuesNext
  PROVE  ValuesInv'
BY WriteKeeps, ParseKeeps, PrintOutKeeps, StartBuilderKeeps, BuilderKeeps, CloneKeeps,
   PythonMakes, PyCopyKeeps DEF ValuesNext

LEMMA ValuesStutter ==
  ASSUME ValuesInv, UNCHANGED valueVars
  PROVE  ValuesInv'
BY DEF valueVars, ValuesInv, ValuesTypeOK, HeldIsVerified, TextIsFaithful,
       AccessorsMirrorValue, OriginalKept
=============================================================================
