SPECIFICATION FairSpec
CONSTANTS
  Window <- SixteenEachWay
  SymbolValues <- TwoEachWay
  TensorTypes = {"t", "u"}
  Dialects = {"arith", "tosa"}
  Programs <- Doubles
INVARIANT UnknownDialectFails
CHECK_DEADLOCK FALSE
