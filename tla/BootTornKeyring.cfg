CONSTANTS
  MaxBlips = 0
  MaxCrashes = 1
  TornWrites = TRUE
SPECIFICATION Spec
INVARIANTS KeyringUsable
CHECK_DEADLOCK FALSE
