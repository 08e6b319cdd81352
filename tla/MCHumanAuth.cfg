CONSTANTS
  Horizon = 4
  Back = 1
  Ttl = 3
  Legs = {proxy, builder}
  Threads = {t1}
  Users = {u1}
  OtherKeys = {k2}
  Jtis = {j1}
  Proofs = {p1}
  Times = {1}
  TokenLife = 0
  MaxAge = 1
  Skew = 0
  Gap = 1
  MaxTokens = 2
SYMMETRY LegSymmetry
SPECIFICATION Spec
INVARIANTS OneActPerProof
PROPERTIES DemotionTakesEffect ActsWhileValid
CHECK_DEADLOCK FALSE
