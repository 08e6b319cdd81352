CONSTANTS
  Horizon = 3
  Back = 0
  Handlers = {h1, h2}
  Users = {u1, bad}
  BadIds = {bad}
  Keys = {k1, k2}
  CacheTtl = 1
  Rids = {r1}
  Times = {1}
  MaxAge = 2
  Skew = 0
  Gap = 0
  Ttl = 2
  MaxSent = 1
SYMMETRY HandlerSymmetry
SPECIFICATION SpokeSpec
INVARIANTS BoundedStaleness ServedOnce
PROPERTIES RetiredKeyRefused SignedByItsUser
CHECK_DEADLOCK FALSE
