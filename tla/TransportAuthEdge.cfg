CONSTANTS
  Horizon = 8
  Back = 0
  Calls = {c1}
  Nonces = {n1}
  MaxAge = 2
  Lead = 2
  Gap = 0
SPECIFICATION Spec
INVARIANTS NoReplay
CHECK_DEADLOCK FALSE
