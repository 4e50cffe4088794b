SPECIFICATION Spec
CONSTANTS
  Runs = {r1, r2}
  Platforms = {p1}
  Events <- AllEvents
  Expiring = TRUE
SYMMETRY Symmetry
INVARIANTS
  RefreshedOnce
CHECK_DEADLOCK FALSE
