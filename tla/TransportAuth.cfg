CONSTANTS
  Horizon = 9
  Back = 1
  Calls = {c1, c2}
  Nonces = {n1}
  MaxAge = 4
  Lead = 1
  Gap = 1
SPECIFICATION Spec
INVARIANTS ReplayNeedsOverlap WindowCovered
PROPERTIES LateCopyRefused
CHECK_DEADLOCK FALSE
