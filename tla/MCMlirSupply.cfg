SPECIFICATION FairSpec
CONSTANTS
  Runs = {r1, r2}
  Platforms = {p1}
  Platform = p1
  Events <- PushAndPR
  Expiring = FALSE
  Members = 2
  MlirMember = 1
  Faults = FALSE
INVARIANT TriggeredCIResolves
PROPERTY TriggeredCIEnds
CHECK_DEADLOCK FALSE
