SPECIFICATION FairSpec
CONSTANTS
  Window <- SixteenEachWay
  SymbolValues <- TwoEachWay
  TensorTypes = {"t", "u"}
  Dialects = {"arith", "tosa"}
  Programs <- SmallPrograms
INVARIANTS
  TypeOK
  GroupValuesExact
  TilesOfExact
  DepTilesOfExact
  DiagnosedExactly
  FailedIffDiagnosed
  OneErrorPerOp
  ErrorNamesFirstGroup
  AcceptedGroupsAreIsolated
PROPERTIES
  Terminates
  ImplementsOracle
CHECK_DEADLOCK FALSE
