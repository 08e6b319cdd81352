CONSTANTS
  Horizon = 6
  Back = 1
  Ttl = 4
  Handlers = {h1, h2}
  Users = {u1}
  Rids = {r1, r2}
  Keys = {k1}
  Times = {1, 3}
  MaxAge = 1
  Skew = 1
  Gap = 1
  MaxSent = 2
SPECIFICATION Spec
INVARIANTS TypeOK NoReplay AcceptedFresh
PROPERTIES IdReuseSpaced CrashWindowBounded
CHECK_DEADLOCK FALSE
