SPECIFICATION Spec
CONSTANTS
  Runs = {r1, r2}
  Platforms = {p1}
  Events <- AllEvents
  Expiring = FALSE
INVARIANT RefreshKeepsArtifact
CHECK_DEADLOCK FALSE
