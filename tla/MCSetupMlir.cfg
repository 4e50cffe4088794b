SPECIFICATION Spec
CONSTANTS
  Procs = {p1, p2}
  Arguments <- SomeArguments
  Members = 3
  MlirMember = 2
  Faults = TRUE
SYMMETRY Symmetry
INVARIANTS
  TypeOK
  PartialOnlyIfCutShort
  PrintsIffSucceeds
  WheelOnlyOnRequest
PROPERTY
  DryRunWritesNothing
