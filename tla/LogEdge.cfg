CONSTANTS
  Records = {r1, r2, r3}
  Supplied = FALSE
  KeyAtStart = TRUE
  MaxBlips = 2
SPECIFICATION FairSpec
INVARIANTS TypeOK HalfReadyExplained WarmSparedReadiness
PROPERTIES Settles
CHECK_DEADLOCK FALSE
