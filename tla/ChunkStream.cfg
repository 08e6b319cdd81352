CONSTANTS
  Envelopes = 3
  Header = 2
  MaxBody = 2
  MaxFragment = 3
SPECIFICATION FairSpec
INVARIANTS YieldedInPlace
PROPERTIES DeliversPrefix NotHeldBack Terminates
CHECK_DEADLOCK FALSE
