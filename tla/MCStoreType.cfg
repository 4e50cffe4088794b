SPECIFICATION Spec
CONSTANTS
  index = "index"
  f16 = "f16"
  df16 = "df16"
  f32 = "f32"
  fp16_fused = "fp16_fused"
  df16_fused = "df16_fused"
  fp32_fused = "fp32_fused"
  Types <- SimpleTypes
  IndexType <- Index
  BuiltinTypes <- Builtins
  kDynamic <- Dynamic
  Words <- SmallWords
  F16 <- TheF16
  DF16 <- TheDF16
  F32 <- TheF32
  FP16Fused <- TheFP16Fused
  DF16Fused <- TheDF16Fused
  FP32Fused <- TheFP32Fused
  Texts <- SmallTexts
  Shapes <- SmallShapes
  Numbers <- SmallNumbers
  KindNumbers <- SmallKinds
  MaxRank = 3
  Signatures <- StoreSignatures
  Static <- SmallStatic
  MemRefs <- SmallMemRefs
  Tensors <- SmallTensors
  TileShapes <- SmallTiles
  MaxOps = 5
INVARIANT StoreMatchesDestination
CHECK_DEADLOCK FALSE
