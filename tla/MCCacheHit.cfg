SPECIFICATION Spec
CONSTANTS
  Procs = {p1}
  Arguments <- SomeArguments
  Members = 3
  MlirMember = 2
  Faults = TRUE
INVARIANT PrintsCompleteTree
