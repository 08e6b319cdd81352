CONSTANTS
  Horizon = 5
  Back = 1
  Handlers = {h1, h2}
  Keys = {k1}
  JwksTtl = 1
  Timeout = 1
SPECIFICATION Spec
INVARIANTS TypeOK WithdrawnKeyExpires RotationSurvived
CHECK_DEADLOCK FALSE
