--------------------------- MODULE JwksCacheProofs ---------------------------
(***************************************************************************)
(* JwksCache for any threads, keys, times and clock steps.                 *)
(***************************************************************************)
EXTENDS JwksCache, TLAPS

(* The last moment a key set read before the end of k can be stored.       *)
Late(k) == endedAt[k] + Back + Timeout

(* No reading is ahead of the clock's peak, and a refresh is within its    *)
(* time.                                                                   *)
ReadingsPast ==
  /\ 0 <= peak /\ fetchedAt <= peak
  /\ \A h \in Handlers :
       /\ at[h] <= peak
       /\ stage[h] \in Refreshing => clock <= at[h] + Timeout

(* A set about to be stored was asked for before its keys ended.           *)
AskedInTime ==
  \A h \in Handlers, k \in DOMAIN endedAt :
    stage[h] = "store" /\ k \in answer[h] =>
      at[h] <= endedAt[k] + Back /\ peak <= Late(k)

(* A set that is held with a key that ended is, or will be, dated by a     *)
(* refresh that began before it was stored.                                *)
DatedInTime ==
  \A k \in DOMAIN endedAt : k \in UNION held =>
    /\ fetchedAt <= Late(k) + Timeout
    /\ \A h \in Handlers : stage[h] \in {"stamp", "return"} => at[h] <= Late(k)

(* A set in use was handed out while it was current, or on being dated.    *)
UsedInTime ==
  \A h \in Handlers :
    /\ stage[h] \in {"decode", "verified"} =>
         \A k \in DOMAIN endedAt :
           k \in answer[h] => at[h] <= Late(k) + Timeout + JwksTtl
    /\ stage[h] = "verified" => tokenKey[h] \in answer[h]

(* An undisturbed call finds its key in every set it fetches.              *)
KeyStaysFound ==
  \A h \in Handlers : stage[h] # "idle" /\ ~ disturbed[h] =>
    /\ tokenKey[h] \in published
    /\ stage[h] = "store" => tokenKey[h] \in answer[h]
    /\ stage[h] \in {"stamp", "return"} => tokenKey[h] \in UNION held
    /\ stage[h] = "decode" /\ retried[h] => tokenKey[h] \in answer[h]
    /\ stage[h] # "InvalidKeyIdError"

Timing == ReadingsPast /\ AskedInTime /\ DatedInTime /\ UsedInTime

IInv == TypeOK /\ Timing /\ KeyStaysFound

LEMMA AnyKeyTyped == AnyKey \in Keys
BY JwksAssumption DEF AnyKey

LEMMA Initially == Init => IInv
<1> SUFFICES ASSUME Init PROVE IInv
  OBVIOUS
<1>1. TypeOK
  BY AnyKeyTyped, ClockAssumption, JwksAssumption
  DEF Init, TypeOK, ClockInit, ClockOK, LongAgo, Stages
<1>2. ReadingsPast
  BY ClockAssumption, JwksAssumption DEF Init, ClockInit, ReadingsPast, LongAgo, Refreshing
<1>3. AskedInTime /\ DatedInTime /\ UsedInTime /\ KeyStaysFound
  BY DEF Init, AskedInTime, DatedInTime, UsedInTime, KeyStaysFound
<1> QED
  BY <1>1, <1>2, <1>3 DEF IInv, Timing

LEMMA TypesKept == TypeOK /\ [Next]_vars => TypeOK'
<1> SUFFICES ASSUME TypeOK, [Next]_vars PROVE TypeOK'
  OBVIOUS
<1> USE ClockAssumption, JwksAssumption, AnyKeyTyped DEF TypeOK, ClockOK, Stages, Refreshing, Outcomes
<1>1. CASE Tick
  BY <1>1 DEF Tick, Advance, realmVars, heldVars, callVars
<1>2. CASE ClockStep
  BY <1>2 DEF ClockStep, StepBack, realmVars, heldVars, callVars
<1>3. ASSUME NEW k \in Keys, Publish(k) PROVE TypeOK'
  BY <1>3 DEF Publish, clockVars, heldVars, callVars
<1>4. ASSUME NEW k \in Keys, WithdrawKey(k) PROVE TypeOK'
  BY <1>4 DEF WithdrawKey, clockVars, heldVars, callVars
<1>5. ASSUME NEW h \in Handlers, NEW k \in Keys, BeginVerify(h, k) PROVE TypeOK'
  <2>1. UNION held \in SUBSET Keys
    OBVIOUS
  <2> QED
    BY <1>5, <2>1 DEF BeginVerify, GoTo, clockVars, realmVars, heldVars
<1>6. ASSUME NEW h \in Handlers, RealmAnswers(h) PROVE TypeOK'
  BY <1>6 DEF RealmAnswers, GoTo, clockVars, realmVars, heldVars
<1>7. ASSUME NEW h \in Handlers, RealmFails(h) PROVE TypeOK'
  BY <1>7 DEF RealmFails, GoTo, clockVars, realmVars, heldVars
<1>8. ASSUME NEW h \in Handlers, StoreKeys(h) PROVE TypeOK'
  BY <1>8 DEF StoreKeys, GoTo, clockVars, realmVars
<1>9. ASSUME NEW h \in Handlers, StampKeys(h) \/ ReturnKeys(h) PROVE TypeOK'
  <2>1. UNION held \in SUBSET Keys
    OBVIOUS
  <2>2. CASE StampKeys(h)
    BY <2>2 DEF StampKeys, GoTo, clockVars, realmVars
  <2>3. CASE ReturnKeys(h)
    BY <2>1, <2>3 DEF ReturnKeys, GoTo, clockVars, realmVars, heldVars
  <2> QED
    BY <1>9, <2>2, <2>3
<1>10. ASSUME NEW h \in Handlers, Decode(h) PROVE TypeOK'
  <2>1. at' \in [Handlers -> Int] /\ retried' \in [Handlers -> BOOLEAN]
    <3>1. \/ at' = at /\ retried' = retried
          \/ at' = [at EXCEPT ![h] = clock] /\ retried' = [retried EXCEPT ![h] = TRUE]
      BY <1>10, Zenon DEF Decode
    <3>2. clock \in Int
      BY DEF ClockOK
    <3>3. at' \in [Handlers -> Int]
      BY <3>1, <3>2
    <3>4. retried' \in [Handlers -> BOOLEAN]
      BY <3>1
    <3> QED
      BY <3>3, <3>4
  <2>2. stage' \in [Handlers -> Stages]
    BY <1>10 DEF Decode, GoTo
  <2>3. \A g \in Handlers : stage'[g] = "idle" => ~ retried'[g]
    BY <1>10 DEF Decode, GoTo
  <2> QED
    BY <1>10, <2>1, <2>2, <2>3 DEF Decode, ClockOK, clockVars, realmVars, heldVars
<1>11. ASSUME NEW h \in Handlers, Leave(h) PROVE TypeOK'
  BY <1>11 DEF Leave, Clear, GoTo, clockVars, realmVars, heldVars
<1>12. CASE UNCHANGED vars
  BY <1>12 DEF vars, clockVars, realmVars, heldVars, callVars
<1> QED
  BY <1>1, <1>2, <1>3, <1>4, <1>5, <1>6, <1>7, <1>8, <1>9, <1>10, <1>11, <1>12
  DEF Next, VerifyToken

LEMMA PastKept == TypeOK /\ ReadingsPast /\ [Next]_vars => ReadingsPast'
<1> SUFFICES ASSUME TypeOK, ReadingsPast, [Next]_vars PROVE ReadingsPast'
  OBVIOUS
<1> USE ClockAssumption, JwksAssumption DEF TypeOK, ClockOK, ReadingsPast, Refreshing, Outcomes
<1>1. CASE Tick
  BY <1>1 DEF Tick, Advance, realmVars, heldVars, callVars
<1>2. CASE ClockStep
  BY <1>2 DEF ClockStep, StepBack, realmVars, heldVars, callVars
<1>3. ASSUME NEW k \in Keys, Publish(k) \/ WithdrawKey(k) PROVE ReadingsPast'
  BY <1>3 DEF Publish, WithdrawKey, clockVars, heldVars, callVars
<1>4. ASSUME NEW h \in Handlers, NEW k \in Keys, BeginVerify(h, k) PROVE ReadingsPast'
  BY <1>4 DEF BeginVerify, GoTo, clockVars, realmVars, heldVars
<1>5. ASSUME NEW h \in Handlers, RealmAnswers(h) \/ RealmFails(h) PROVE ReadingsPast'
  BY <1>5 DEF RealmAnswers, RealmFails, GoTo, clockVars, realmVars, heldVars
<1>6. ASSUME NEW h \in Handlers, StoreKeys(h) PROVE ReadingsPast'
  BY <1>6 DEF StoreKeys, GoTo, clockVars, realmVars
<1>7. ASSUME NEW h \in Handlers, StampKeys(h) \/ ReturnKeys(h) PROVE ReadingsPast'
  <2>1. CASE StampKeys(h)
    BY <2>1 DEF StampKeys, GoTo, clockVars, realmVars
  <2>2. CASE ReturnKeys(h)
    BY <2>2 DEF ReturnKeys, GoTo, clockVars, realmVars, heldVars
  <2> QED
    BY <1>7, <2>1, <2>2
<1>8. ASSUME NEW h \in Handlers, Decode(h) PROVE ReadingsPast'
  BY <1>8 DEF Decode, GoTo, clockVars, realmVars, heldVars
<1>9. ASSUME NEW h \in Handlers, Leave(h) PROVE ReadingsPast'
  BY <1>9 DEF Leave, Clear, GoTo, clockVars, realmVars, heldVars
<1>10. CASE UNCHANGED vars
  BY <1>10 DEF vars, clockVars, realmVars, heldVars, callVars
<1> QED
  BY <1>1, <1>2, <1>3, <1>4, <1>5, <1>6, <1>7, <1>8, <1>9, <1>10 DEF Next, VerifyToken

LEMMA TimingKept == TypeOK /\ Timing /\ [Next]_vars => Timing'
<1> SUFFICES ASSUME TypeOK, Timing, [Next]_vars
             PROVE  AskedInTime' /\ DatedInTime' /\ UsedInTime'
  BY PastKept DEF Timing
<1> DEFINE Goal == AskedInTime' /\ DatedInTime' /\ UsedInTime'
<1> USE ClockAssumption, JwksAssumption
    DEF TypeOK, ClockOK, Timing, ReadingsPast, AskedInTime, DatedInTime, UsedInTime, Late,
        Refreshing, Outcomes
<1>1. CASE Tick
  BY <1>1 DEF Tick, Advance, realmVars, heldVars, callVars
<1>2. CASE ClockStep
  BY <1>2 DEF ClockStep, StepBack, realmVars, heldVars, callVars
<1>3. ASSUME NEW k \in Keys, Publish(k) PROVE Goal
  BY <1>3 DEF Publish, clockVars, heldVars, callVars
<1>4. ASSUME NEW k \in Keys, WithdrawKey(k) PROVE Goal
  BY <1>4 DEF WithdrawKey, clockVars, heldVars, callVars
<1>5. ASSUME NEW h \in Handlers, NEW k \in Keys, BeginVerify(h, k) PROVE Goal
  BY <1>5 DEF BeginVerify, Current, GoTo, clockVars, realmVars, heldVars
<1>6. ASSUME NEW h \in Handlers, RealmAnswers(h) PROVE Goal
  BY <1>6 DEF RealmAnswers, GoTo, clockVars, realmVars, heldVars
<1>7. ASSUME NEW h \in Handlers, RealmFails(h) PROVE Goal
  BY <1>7 DEF RealmFails, GoTo, clockVars, realmVars, heldVars
<1>8. ASSUME NEW h \in Handlers, StoreKeys(h) PROVE Goal
  <2>1. UNION held' = answer[h]
    BY <1>8 DEF StoreKeys
  <2> QED
    BY <1>8, <2>1 DEF StoreKeys, GoTo, clockVars, realmVars
<1>9. ASSUME NEW h \in Handlers, StampKeys(h) \/ ReturnKeys(h) PROVE Goal
  <2>1. CASE StampKeys(h)
    BY <2>1 DEF StampKeys, GoTo, clockVars, realmVars
  <2>2. CASE ReturnKeys(h)
    BY <2>2 DEF ReturnKeys, GoTo, clockVars, realmVars, heldVars
  <2> QED
    BY <1>9, <2>1, <2>2
<1>10. ASSUME NEW h \in Handlers, Decode(h) PROVE Goal
  BY <1>10 DEF Decode, GoTo, clockVars, realmVars, heldVars
<1>11. ASSUME NEW h \in Handlers, Leave(h) PROVE Goal
  BY <1>11 DEF Leave, Clear, GoTo, clockVars, realmVars, heldVars
<1>12. CASE UNCHANGED vars
  BY <1>12 DEF vars, clockVars, realmVars, heldVars, callVars
<1> QED
  BY <1>1, <1>2, <1>3, <1>4, <1>5, <1>6, <1>7, <1>8, <1>9, <1>10, <1>11, <1>12
  DEF Next, VerifyToken

LEMMA FoundKept == TypeOK /\ KeyStaysFound /\ [Next]_vars => KeyStaysFound'
<1> SUFFICES ASSUME TypeOK, KeyStaysFound, [Next]_vars PROVE KeyStaysFound'
  OBVIOUS
<1> USE DEF TypeOK, KeyStaysFound, Refreshing, Outcomes
<1>1. CASE Tick \/ ClockStep \/ UNCHANGED vars
  BY <1>1 DEF Tick, ClockStep, vars, realmVars, heldVars, callVars
<1>2. ASSUME NEW k \in Keys, Publish(k) \/ WithdrawKey(k) PROVE KeyStaysFound'
  BY <1>2 DEF Publish, WithdrawKey, heldVars, callVars
<1>3. ASSUME NEW h \in Handlers, NEW k \in Keys, BeginVerify(h, k) PROVE KeyStaysFound'
  BY <1>3 DEF BeginVerify, GoTo, realmVars, heldVars
<1>4. ASSUME NEW h \in Handlers, RealmAnswers(h) \/ RealmFails(h) PROVE KeyStaysFound'
  BY <1>4 DEF RealmAnswers, RealmFails, GoTo, realmVars, heldVars
<1>5. ASSUME NEW h \in Handlers, StoreKeys(h) PROVE KeyStaysFound'
  <2>1. UNION held' = answer[h]
    BY <1>5 DEF StoreKeys
  <2> QED
    BY <1>5, <2>1 DEF StoreKeys, GoTo, realmVars
<1>6. ASSUME NEW h \in Handlers, StampKeys(h) \/ ReturnKeys(h) PROVE KeyStaysFound'
  <2>1. CASE StampKeys(h)
    BY <2>1 DEF StampKeys, GoTo, realmVars
  <2>2. CASE ReturnKeys(h)
    BY <2>2 DEF ReturnKeys, GoTo, realmVars, heldVars
  <2> QED
    BY <1>6, <2>1, <2>2
<1>7. ASSUME NEW h \in Handlers, Decode(h) PROVE KeyStaysFound'
  BY <1>7 DEF Decode, MayRetry, GoTo, realmVars, heldVars
<1>8. ASSUME NEW h \in Handlers, Leave(h) PROVE KeyStaysFound'
  BY <1>8 DEF Leave, Clear, GoTo, realmVars, heldVars
<1> QED
  BY <1>1, <1>2, <1>3, <1>4, <1>5, <1>6, <1>7, <1>8 DEF Next, VerifyToken

LEMMA Invariance == Spec => []IInv
<1>1. IInv /\ [Next]_vars => IInv'
  BY TypesKept, TimingKept, FoundKept DEF IInv
<1> QED
  BY <1>1, Initially, PTL DEF Spec

-----------------------------------------------------------------------------
(* Every variable of the cache and its callers keeps its type.             *)
THEOREM TypeCorrect == Spec => []TypeOK
BY Invariance, PTL DEF IInv

(* How long a withdrawn key can still verify a token (JWKSCache).          *)
THEOREM WithdrawalTakesEffect == Spec => []WithdrawnKeyExpires
<1>1. IInv => WithdrawnKeyExpires
  BY ClockAssumption, JwksAssumption
  DEF IInv, TypeOK, Timing, UsedInTime, Late, WithdrawnKeyExpires
<1> QED
  BY <1>1, Invariance, PTL

(* One refresh is enough to survive a rotation, but for other threads'.    *)
THEOREM OneRefreshSuffices == Spec => []RotationSurvived
<1>1. IInv => RotationSurvived
  BY Zenon DEF IInv, KeyStaysFound, RotationSurvived
<1> QED
  BY <1>1, Invariance, PTL
=============================================================================
