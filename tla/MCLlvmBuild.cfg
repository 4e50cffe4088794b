SPECIFICATION Spec
CONSTANTS
  Runs = {r1, r2}
  Platforms = {p1, p2}
  Events <- PushAndPR
  Expiring = FALSE
SYMMETRY Symmetry
INVARIANTS
  TypeOK
  SuccessMeansPublished
  UploadsFindRelease
  CIHasBuilds
  AlwaysASource
CHECK_DEADLOCK FALSE
