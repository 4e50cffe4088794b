--------------------------- MODULE MCKTDPProgram ---------------------------
(***************************************************************************)
(* Small functions over values of the three kinds.  A text has at most two *)
(* dimensions or items; the functions over a memory space compose views of *)
(* two element types and ranks.                                            *)
(***************************************************************************)
EXTENDS KTDPProgram

CONSTANTS index, f16, df16, f32, fp16_fused, df16_fused, fp32_fused

Simple(name) == [mnemonic |-> name]
Index == Simple(index)
TheF16 == Simple(f16)
TheDF16 == Simple(df16)
TheF32 == Simple(f32)
TheFP16Fused == Simple(fp16_fused)
TheDF16Fused == Simple(df16_fused)
TheFP32Fused == Simple(fp32_fused)
SimpleTypes == {Index, TheF16, TheDF16, TheF32, TheFP16Fused, TheDF16Fused, TheFP32Fused}
Builtins == {Index, TheF16, TheF32}
Dynamic == -9

Dims == {<<>>, <<-1>>, <<0>>, <<2>>}
TileTexts == {[mnemonic |-> "access_tile", dims |-> d, elem |-> e] :
                d \in UNION {[1 .. n -> Dims] : n \in 0 .. 2}, e \in {Index, TheF16}}
SmallWords == Keys \cup {"bound"}
Items == [key : SmallWords, value : {-1, 0, 3}]
ArgTexts == {[mnemonic |-> "runtime_arg", under |-> u, items |-> s] :
               u \in {Index, TheDF16}, s \in UNION {[1 .. n -> Items] : n \in 0 .. 2}}
SpaceTexts == {[mnemonic |-> "memory_space", kind |-> k, ct |-> ct] :
                 k \in MemorySpaceKind, ct \in {<<>>, <<-5>>, <<-1>>, <<0>>, <<3>>}}
SmallTexts == TileTexts \cup ArgTexts \cup SpaceTexts

SmallShapes == {<<>>, <<Dynamic>>, <<-1>>, <<2, 0>>}
SmallNumbers == {-5, -1, 0, 3}
SmallKinds == {0, 1, 7}

ViewShapes == {<<>>, <<2>>, <<Dynamic>>}
SmallMemRefs == {MemRefType(<<2>>, TheF16), MemRefType(<<2>>, TheF32), MemRefType(<<>>, TheF16)}
SmallStatic == {<<<<2>>, <<1>>>>, <<<<Dynamic>>, <<1>>>>, <<<<2>>, <<Dynamic>>>>,
                <<<<2>>, <<>>>>, <<<<>>, <<>>>>}
SmallTiles == {<<2>>, <<>>}
SmallTensors == {RankedTensorType(<<2>>, TheF16), RankedTensorType(<<>>, TheF32)}

Global == MemorySpaceAttr("global", -1)
SmallSignatures ==
  {[value |-> Global, args |-> <<Index>>],
   [value |-> MemorySpaceAttr("ct_local", 3), args |-> <<Index, MemRefType(<<2>>, TheF16)>>],
   [value |-> Global, args |-> <<TheDF16, TheF16>>],
   [value |-> Global, args |-> <<TheF32>>],
   [value |-> AccessTileType(<<2, 0>>, Index), args |-> <<AccessTileType(<<2, 0>>, Index)>>]}
  \cup {[value |-> t, args |-> <<t>>] :
          t \in {RuntimeArgType(Index, g, u) : g \in {<<>>, <<0>>, <<3>>}, u \in {<<>>, <<3>>}}}

\* A view, a tile over it, a load of another element type, and its store.
StoreSignatures ==
  {[value |-> Global, args |-> <<MemRefType(<<2>>, TheF16)>>]}
=============================================================================
