CONSTANTS
  Horizon = 3
  Back = 0
  Entities = {a, b}
  Lead = 1
  Lag = 0
  Life = 1
  MaxAge = 1
  Skew = 1
  MaxVersion = 2
  Ttl = 1
  HandoffAge = 1
  HandoffSkew = 1
  MaxHandoffs = 1
SPECIFICATION FleetSpec
INVARIANTS FleetTypeOK
PROPERTIES PeersRecent VersionRecent HandoffRecent
CHECK_DEADLOCK FALSE
