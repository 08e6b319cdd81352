------------------------- MODULE TransportAuthProofs -------------------------
(***************************************************************************)
(* TransportAuth where its nonce cache suffices: requesters' clocks run    *)
(* ahead by less than MaxAge, with what the server's own clock steps and   *)
(* what a call is held up taken off.  Calls overlap in any way; the        *)
(* theorems about a server that runs them one at a time say so.            *)
(***************************************************************************)
EXTENDS TransportAuth, FiniteSetTheorems, TLAPS

Larger(a, b) == IF a > b THEN a ELSE b

ASSUME LeadBelowWindow == Lead + Back + Larger(Back, Gap) < MaxAge

(* How long after its timestamp a request can still pass, seen from any    *)
(* clock reading that was or will be made.                                 *)
Reach(n) == sent[n] + MaxAge + Larger(Back, Gap)

(* A requester's clock runs ahead of the server's by Lead at most.         *)
TimestampsNear == \A n \in DOMAIN sent : sent[n] <= peak + Lead

(* The cache keeps a nonce beyond the reach of its request.                *)
KeptBeyondReach == \A n \in DOMAIN nonces : nonces[n] > Reach(n)

(* What the clean-up listed is out of reach, recorded anew or not.         *)
DoomedOut == \A n \in doomed : peak > Reach(n)

(* A request let through, or about to be, is in the cache or out of reach. *)
SpokenKept == \A n \in DOMAIN sent : Spoken(n) => n \in DOMAIN nonces \/ peak > Reach(n)

(* A call past the timestamp check read the clock inside the window.       *)
CallsTimely ==
  \A c \in Calls : phase[c] \in {"fresh", "new"} =>
    /\ Timely(sent[nonce[c]], now[c])
    /\ sent[nonce[c]] <= now[c] + Lead + Back

(* At the nonce test a request already spoken for is still in the cache,   *)
(* so that no call passes the test for it any more.                        *)
LateCallsRefused ==
  \A c \in Calls : phase[c] = "fresh" =>
    /\ clock <= now[c] + Gap /\ peak <= now[c] + Larger(Back, Gap)
    /\ Spoken(nonce[c]) => nonce[c] \in DOMAIN nonces

OnlyServedSent == \A n \in Nonces : served[n] > 0 => n \in DOMAIN sent

(* The calls that passed the nonce test for a request and have not ended:  *)
(* only they can still let it through, and each does once.                 *)
Racing(n) == {c \in Calls : phase[c] \in {"new", "recorded"} /\ nonce[c] = n}

RaceBounded ==
  \A n \in Nonces : served[n] + Cardinality(Racing(n)) <= Cardinality(Calls)

IInv ==
  /\ TypeOK /\ TimestampsNear /\ KeptBeyondReach /\ SpokenKept
  /\ CallsTimely /\ LateCallsRefused /\ OnlyServedSent /\ RaceBounded /\ DoomedOut

-----------------------------------------------------------------------------
LEMMA LargerTyped == /\ Larger(Back, Gap) \in Nat
                     /\ Larger(Back, Gap) >= Back /\ Larger(Back, Gap) >= Gap
BY ClockAssumption, TransportAssumption DEF Larger

LEMMA AnyNonceTyped == AnyNonce \in Nonces
BY TransportAssumption DEF AnyNonce

(* The calls racing for a request are finitely many, at most all of them.  *)
LEMMA RacingFinite ==
  \A n : IsFiniteSet(Racing(n)) /\ Cardinality(Racing(n)) \in Nat
         /\ Cardinality(Racing(n)) <= Cardinality(Calls)
<1> SUFFICES ASSUME NEW n
             PROVE  IsFiniteSet(Racing(n)) /\ Cardinality(Racing(n)) \in Nat
                    /\ Cardinality(Racing(n)) <= Cardinality(Calls)
  OBVIOUS
<1>1. Racing(n) \in SUBSET Calls
  BY DEF Racing
<1>2. QED
  BY <1>1, TransportAssumption, FS_Subset, FS_CardinalityType

(* A step that lets nothing through and sends no call past the nonce test  *)
(* keeps the bound.                                                        *)
LEMMA NoNewRacer ==
  ASSUME TypeOK, RaceBounded, \A n \in Nonces : Racing(n)' \subseteq Racing(n), served' = served
  PROVE  RaceBounded'
<1> SUFFICES ASSUME NEW n \in Nonces
             PROVE  served[n] + Cardinality(Racing(n)') <= Cardinality(Calls)
  BY DEF RaceBounded
<1>1. IsFiniteSet(Racing(n)) /\ Cardinality(Racing(n)) \in Nat /\ Cardinality(Calls) \in Nat
  BY RacingFinite, TransportAssumption, FS_CardinalityType
<1>2. IsFiniteSet(Racing(n)') /\ Cardinality(Racing(n)') <= Cardinality(Racing(n))
  BY <1>1, FS_Subset
<1>3. Cardinality(Racing(n)') \in Nat
  BY <1>2, FS_CardinalityType
<1>4. QED
  BY <1>1, <1>2, <1>3 DEF RaceBounded, TypeOK

LEMMA Initially == Init => IInv
<1> SUFFICES ASSUME Init PROVE IInv
  OBVIOUS
<1> USE ClockAssumption DEF Init, ClockInit, Empty
<1>1. TypeOK
  BY AnyNonceTyped DEF TypeOK, ClockOK, Phases
<1>2. TimestampsNear /\ KeptBeyondReach /\ SpokenKept
  BY DEF TimestampsNear, KeptBeyondReach, SpokenKept
<1>3. CallsTimely /\ LateCallsRefused /\ OnlyServedSent
  BY DEF CallsTimely, LateCallsRefused, OnlyServedSent
<1>4. RaceBounded
  <2>1. \A n \in Nonces : Racing(n) = {} /\ served[n] = 0
    BY DEF Racing
  <2>2. Cardinality({}) = 0 /\ Cardinality(Calls) \in Nat
    BY TransportAssumption, FS_EmptySet, FS_CardinalityType
  <2> HIDE DEF Init
  <2>3. \A n \in Nonces : served[n] + Cardinality(Racing(n)) <= Cardinality(Calls)
    BY <2>1, <2>2
  <2>4. QED
    BY <2>3 DEF RaceBounded
<1>5. DoomedOut
  BY DEF DoomedOut
<1>6. QED
  BY <1>1, <1>2, <1>3, <1>4, <1>5 DEF IInv

LEMMA SignStep ==
  ASSUME IInv, NEW n \in Nonces, SignRequest(n)
  PROVE  IInv'
<1> USE ClockAssumption, TransportAssumption, LeadBelowWindow, LargerTyped
        DEF IInv, clockVars, callVars, cacheVars, SignRequest
<1>1. TypeOK'
  BY AnyNonceTyped DEF TypeOK, ClockOK, Phases
<1>2. TimestampsNear'
  BY DEF TimestampsNear, TypeOK, ClockOK, Phases
<1>3. KeptBeyondReach'
  BY DEF KeptBeyondReach, TypeOK, ClockOK, Phases, Reach
<1>4. SpokenKept'
  BY DEF SpokenKept, TypeOK, ClockOK, Phases, Reach, Spoken, OnlyServedSent
<1>5. CallsTimely'
  BY DEF CallsTimely, TypeOK, ClockOK, Phases, Timely
<1>6. LateCallsRefused'
  BY DEF LateCallsRefused, TypeOK, ClockOK, Phases, Spoken
<1>7. OnlyServedSent'
  BY DEF OnlyServedSent, TypeOK, ClockOK, Phases
<1>8. RaceBounded'
  BY NoNewRacer DEF Racing, TypeOK, Phases
<1>9. DoomedOut'
  BY DEF DoomedOut, TypeOK, ClockOK, Phases, Reach
<1>10. QED
  BY <1>1, <1>2, <1>3, <1>4, <1>5, <1>6, <1>7, <1>8, <1>9

LEMMA ArriveStep ==
  ASSUME IInv, NEW c \in Calls, NEW n \in Nonces, NEW g \in BOOLEAN, Arrive(c, n, g)
  PROVE  IInv'
<1> USE ClockAssumption, TransportAssumption, LeadBelowWindow, LargerTyped
        DEF IInv, clockVars, callVars, cacheVars, Arrive
<1>1. TypeOK'
  BY AnyNonceTyped DEF TypeOK, ClockOK, Phases
<1>2. TimestampsNear'
  BY DEF TimestampsNear, TypeOK, ClockOK, Phases
<1>3. KeptBeyondReach'
  BY DEF KeptBeyondReach, TypeOK, ClockOK, Phases, Reach
<1>4. SpokenKept'
  BY DEF SpokenKept, TypeOK, ClockOK, Phases, Reach, Spoken
<1>5. CallsTimely'
  BY DEF CallsTimely, TypeOK, ClockOK, Phases, Timely
<1>6. LateCallsRefused'
  BY DEF LateCallsRefused, TypeOK, ClockOK, Phases, Spoken
<1>7. OnlyServedSent'
  BY DEF OnlyServedSent, TypeOK, ClockOK, Phases
<1>8. RaceBounded'
  BY NoNewRacer DEF Racing, TypeOK, Phases
<1>9. DoomedOut'
  BY DEF DoomedOut, TypeOK, ClockOK, Phases, Reach
<1>10. QED
  BY <1>1, <1>2, <1>3, <1>4, <1>5, <1>6, <1>7, <1>8, <1>9

LEMMA TimestampStep ==
  ASSUME IInv, NEW c \in Calls, CheckTimestamp(c)
  PROVE  IInv'
<1> USE ClockAssumption, TransportAssumption, LeadBelowWindow, LargerTyped
        DEF IInv, clockVars, callVars, cacheVars, CheckTimestamp, Return
<1>1. TypeOK'
  <2>1. CASE /\ now' = [now EXCEPT ![c] = clock]
             /\ phase' = [phase EXCEPT ![c] = "fresh"]
             /\ UNCHANGED <<nonce, genuine>>
    BY <2>1 DEF TypeOK, ClockOK, Phases
  <2>2. CASE Return(c)
    BY <2>2, AnyNonceTyped DEF TypeOK, ClockOK, Phases
  <2>3. QED
    BY <2>1, <2>2
<1>2. TimestampsNear'
  BY DEF TimestampsNear, TypeOK, ClockOK, Phases
<1>3. KeptBeyondReach'
  BY DEF KeptBeyondReach, TypeOK, ClockOK, Phases, Reach
<1>4. SpokenKept'
  BY DEF SpokenKept, TypeOK, ClockOK, Phases, Reach, Spoken
<1>5. CallsTimely'
  BY DEF CallsTimely, TypeOK, ClockOK, Phases, Timely, TimestampsNear
<1>6. LateCallsRefused'
  BY DEF LateCallsRefused, TypeOK, ClockOK, Phases, SpokenKept, Spoken, Reach, Timely
<1>7. OnlyServedSent'
  BY DEF OnlyServedSent, TypeOK, ClockOK, Phases
<1>8. RaceBounded'
  BY NoNewRacer DEF Racing, TypeOK, Phases
<1>9. DoomedOut'
  BY DEF DoomedOut, TypeOK, ClockOK, Phases, Reach
<1>10. QED
  BY <1>1, <1>2, <1>3, <1>4, <1>5, <1>6, <1>7, <1>8, <1>9

LEMMA TestStep ==
  ASSUME IInv, NEW c \in Calls, TestNonce(c)
  PROVE  IInv'
<1> USE ClockAssumption, TransportAssumption, LeadBelowWindow, LargerTyped
        DEF IInv, clockVars, callVars, cacheVars, TestNonce, Return
<1>1. TypeOK'
  <2>1. CASE phase' = [phase EXCEPT ![c] = "new"]
             /\ UNCHANGED <<nonce, genuine, now>>
    BY <2>1 DEF TypeOK, ClockOK, Phases
  <2>2. CASE Return(c)
    BY <2>2, AnyNonceTyped DEF TypeOK, ClockOK, Phases
  <2>3. QED
    BY <2>1, <2>2
<1>2. TimestampsNear'
  BY DEF TimestampsNear, TypeOK, ClockOK, Phases
<1>3. KeptBeyondReach'
  BY DEF KeptBeyondReach, TypeOK, ClockOK, Phases, Reach
<1>4. SpokenKept'
  BY DEF SpokenKept, TypeOK, ClockOK, Phases, Reach, Spoken
<1>5. CallsTimely'
  BY DEF CallsTimely, TypeOK, ClockOK, Phases, Timely
<1>6. LateCallsRefused'
  BY DEF LateCallsRefused, TypeOK, ClockOK, Phases, Spoken
<1>7. OnlyServedSent'
  BY DEF OnlyServedSent, TypeOK, ClockOK, Phases
<1>8. RaceBounded'
  <2>1. CASE Return(c)
    BY <2>1, NoNewRacer DEF Racing, TypeOK, Phases
  <2>2. CASE /\ ~ Known(nonce[c], now[c])
             /\ phase' = [phase EXCEPT ![c] = "new"]
             /\ UNCHANGED <<nonce, genuine, now>>
    <3>1. /\ nonce[c] \in DOMAIN sent /\ sent[nonce[c]] \in Int
          /\ clock \in Int /\ now[c] \in Int
          /\ nonce[c] \in DOMAIN nonces => nonces[nonce[c]] \in Int
      BY DEF TypeOK, ClockOK, Phases
    <3>2. nonce[c] \in DOMAIN nonces => Known(nonce[c], now[c])
      BY <3>1 DEF KeptBeyondReach, Known, CallsTimely, Timely, Reach
    <3>3. served[nonce[c]] = 0
      BY <2>2, <3>2 DEF LateCallsRefused, Spoken, TypeOK, Phases
    <3> SUFFICES ASSUME NEW n \in Nonces
                 PROVE  served[n] + Cardinality(Racing(n)') <= Cardinality(Calls)
      BY DEF RaceBounded
    <3>4. CASE n = nonce[c]
      <4>1. Racing(n)' \in SUBSET Calls
        BY DEF Racing
      <4>2. IsFiniteSet(Racing(n)') /\ Cardinality(Racing(n)') <= Cardinality(Calls)
        BY <4>1, TransportAssumption, FS_Subset
      <4>3. Cardinality(Racing(n)') \in Nat
        BY <4>2, FS_CardinalityType
      <4>4. QED
        BY <3>3, <3>4, <4>2, <4>3
    <3>5. CASE n # nonce[c]
      <4>1. Racing(n)' = Racing(n)
        BY <2>2, <3>5 DEF Racing, TypeOK
      <4>2. QED
        BY <4>1 DEF RaceBounded
    <3>6. QED
      BY <3>4, <3>5
  <2>3. QED
    BY <2>1, <2>2
<1>9. DoomedOut'
  BY DEF DoomedOut, TypeOK, ClockOK, Phases, Reach
<1>10. QED
  BY <1>1, <1>2, <1>3, <1>4, <1>5, <1>6, <1>7, <1>8, <1>9

LEMMA RecordStep ==
  ASSUME IInv, NEW c \in Calls, RecordNonce(c)
  PROVE  IInv'
<1> USE ClockAssumption, TransportAssumption, LeadBelowWindow, LargerTyped
        DEF IInv, clockVars, callVars, cacheVars, RecordNonce
<1>1. TypeOK'
  BY AnyNonceTyped DEF TypeOK, ClockOK, Phases, Life
<1>2. TimestampsNear'
  BY DEF TimestampsNear, TypeOK, ClockOK, Phases
<1>3. KeptBeyondReach'
  BY DEF KeptBeyondReach, TypeOK, ClockOK, Phases, Reach, CallsTimely, Life
<1>4. SpokenKept'
  BY DEF SpokenKept, TypeOK, ClockOK, Phases, Reach, Spoken
<1>5. CallsTimely'
  BY DEF CallsTimely, TypeOK, ClockOK, Phases, Timely
<1>6. LateCallsRefused'
  BY DEF LateCallsRefused, TypeOK, ClockOK, Phases, Spoken
<1>7. OnlyServedSent'
  BY DEF OnlyServedSent, TypeOK, ClockOK, Phases
<1>8. RaceBounded'
  BY NoNewRacer DEF Racing, TypeOK, Phases
<1>9. DoomedOut'
  BY DEF DoomedOut, TypeOK, ClockOK, Phases, Reach
<1>10. QED
  BY <1>1, <1>2, <1>3, <1>4, <1>5, <1>6, <1>7, <1>8, <1>9

LEMMA SignatureStep ==
  ASSUME IInv, NEW c \in Calls, CheckSignature(c)
  PROVE  IInv'
<1> USE ClockAssumption, TransportAssumption, LeadBelowWindow, LargerTyped
        DEF IInv, clockVars, callVars, cacheVars, CheckSignature, Return
<1>1. TypeOK'
  BY AnyNonceTyped DEF TypeOK, ClockOK, Phases
<1>2. TimestampsNear'
  BY DEF TimestampsNear, TypeOK, ClockOK, Phases
<1>3. KeptBeyondReach'
  BY DEF KeptBeyondReach, TypeOK, ClockOK, Phases, Reach
<1>4. SpokenKept'
  BY DEF SpokenKept, TypeOK, ClockOK, Phases, Reach, Spoken
<1>5. CallsTimely'
  BY DEF CallsTimely, TypeOK, ClockOK, Phases, Timely
<1>6. LateCallsRefused'
  BY DEF LateCallsRefused, TypeOK, ClockOK, Phases, Spoken
<1>7. OnlyServedSent'
  BY DEF OnlyServedSent, TypeOK, ClockOK, Phases
<1>8. RaceBounded'
  <2> SUFFICES ASSUME NEW n \in Nonces
               PROVE  served'[n] + Cardinality(Racing(n)') <= Cardinality(Calls)
    BY DEF RaceBounded
  <2>1. /\ IsFiniteSet(Racing(n)) /\ Cardinality(Racing(n)) \in Nat
        /\ Cardinality(Calls) \in Nat /\ served[n] \in Nat
        /\ served[n] + Cardinality(Racing(n)) <= Cardinality(Calls)
    BY RacingFinite, TransportAssumption, FS_CardinalityType DEF RaceBounded, TypeOK
  <2>2. Racing(n)' = Racing(n) \ {c}
    BY DEF Racing, TypeOK, Phases
  <2>3. served'[n] = served[n] \/ (served'[n] = served[n] + 1 /\ c \in Racing(n))
    BY DEF Racing, TypeOK, Phases
  <2>4. Cardinality(Racing(n) \ {c}) = IF c \in Racing(n) THEN Cardinality(Racing(n)) - 1
                                                        ELSE Cardinality(Racing(n))
    BY <2>1, FS_RemoveElement
  <2>5. QED
    BY <2>1, <2>2, <2>3, <2>4
<1>9. DoomedOut'
  BY DEF DoomedOut, TypeOK, ClockOK, Phases, Reach
<1>10. QED
  BY <1>1, <1>2, <1>3, <1>4, <1>5, <1>6, <1>7, <1>8, <1>9

LEMMA ListStep ==
  ASSUME IInv, ListExpired
  PROVE  IInv'
<1> USE ClockAssumption, TransportAssumption, LeadBelowWindow, LargerTyped
        DEF IInv, clockVars, callVars, cacheVars, ListExpired, Spent
<1>1. TypeOK'
  BY AnyNonceTyped DEF TypeOK, ClockOK, Phases
<1>2. TimestampsNear'
  BY DEF TimestampsNear, TypeOK, ClockOK, Phases
<1>3. KeptBeyondReach'
  BY DEF KeptBeyondReach, TypeOK, ClockOK, Phases, Reach
<1>4. SpokenKept'
  BY DEF SpokenKept, TypeOK, ClockOK, Phases, Reach, Spoken, KeptBeyondReach
<1>5. CallsTimely'
  BY DEF CallsTimely, TypeOK, ClockOK, Phases, Timely
<1>6. LateCallsRefused'
  BY DEF LateCallsRefused, TypeOK, ClockOK, Phases, KeptBeyondReach, Reach, CallsTimely, Timely, Spoken
<1>7. OnlyServedSent'
  BY DEF OnlyServedSent, TypeOK, ClockOK, Phases
<1>8. RaceBounded'
  BY NoNewRacer DEF Racing, TypeOK, Phases
<1>9. DoomedOut'
  BY DEF DoomedOut, KeptBeyondReach, TypeOK, ClockOK, Phases, Reach
<1>10. QED
  BY <1>1, <1>2, <1>3, <1>4, <1>5, <1>6, <1>7, <1>8, <1>9

LEMMA DropStep ==
  ASSUME IInv, NEW n \in Nonces, DropListed(n)
  PROVE  IInv'
<1> USE ClockAssumption, TransportAssumption, LeadBelowWindow, LargerTyped
        DEF IInv, clockVars, callVars, cacheVars, DropListed, Without
<1>1. TypeOK'
  BY AnyNonceTyped DEF TypeOK, ClockOK, Phases
<1>2. TimestampsNear'
  BY DEF TimestampsNear, TypeOK, ClockOK, Phases
<1>3. KeptBeyondReach'
  BY DEF KeptBeyondReach, TypeOK, ClockOK, Phases, Reach
<1>4. SpokenKept'
  BY DEF SpokenKept, TypeOK, ClockOK, Phases, Reach, Spoken, DoomedOut
<1>5. CallsTimely'
  BY DEF CallsTimely, TypeOK, ClockOK, Phases, Timely
<1>6. LateCallsRefused'
  BY DEF LateCallsRefused, TypeOK, ClockOK, Phases, DoomedOut, Reach, CallsTimely, Timely, Spoken
<1>7. OnlyServedSent'
  BY DEF OnlyServedSent, TypeOK, ClockOK, Phases
<1>8. RaceBounded'
  BY NoNewRacer DEF Racing, TypeOK, Phases
<1>9. DoomedOut'
  BY DEF DoomedOut, TypeOK, ClockOK, Phases, Reach
<1>10. QED
  BY <1>1, <1>2, <1>3, <1>4, <1>5, <1>6, <1>7, <1>8, <1>9

LEMMA RestartStep ==
  ASSUME IInv, Restart
  PROVE  IInv'
<1> USE ClockAssumption, TransportAssumption, LeadBelowWindow, LargerTyped
        DEF IInv, clockVars, callVars, cacheVars, Restart, Empty
<1>1. TypeOK'
  BY AnyNonceTyped DEF TypeOK, ClockOK, Phases
<1>2. TimestampsNear'
  BY DEF TimestampsNear, TypeOK, ClockOK, Phases
<1>3. KeptBeyondReach'
  BY DEF KeptBeyondReach, TypeOK, ClockOK, Phases, Reach
<1>4. SpokenKept'
  BY DEF SpokenKept, TypeOK, ClockOK, Phases, Reach, Spoken
<1>5. CallsTimely'
  BY DEF CallsTimely, TypeOK, ClockOK, Phases, Timely
<1>6. LateCallsRefused'
  BY DEF LateCallsRefused, TypeOK, ClockOK, Phases, Spoken
<1>7. OnlyServedSent'
  BY DEF OnlyServedSent, TypeOK, ClockOK, Phases
<1>8. RaceBounded'
  <2>1. \A n \in Nonces : Racing(n)' = {} /\ served'[n] = 0
    BY DEF Racing
  <2>2. Cardinality({}) = 0 /\ Cardinality(Calls) \in Nat
    BY TransportAssumption, FS_EmptySet, FS_CardinalityType
  <2> HIDE DEF Restart
  <2>3. \A n \in Nonces : served'[n] + Cardinality(Racing(n)') <= Cardinality(Calls)
    BY <2>1, <2>2
  <2>4. QED
    BY <2>3 DEF RaceBounded
<1>9. DoomedOut'
  BY DEF DoomedOut, TypeOK, ClockOK, Phases, Reach
<1>10. QED
  BY <1>1, <1>2, <1>3, <1>4, <1>5, <1>6, <1>7, <1>8, <1>9

LEMMA TickStep ==
  ASSUME IInv, Tick
  PROVE  IInv'
<1> USE ClockAssumption, TransportAssumption, LeadBelowWindow, LargerTyped
        DEF IInv, clockVars, callVars, cacheVars, Tick, Advance
<1>1. TypeOK'
  BY AnyNonceTyped DEF TypeOK, ClockOK, Phases
<1>2. TimestampsNear'
  BY DEF TimestampsNear, TypeOK, ClockOK, Phases
<1>3. KeptBeyondReach'
  BY DEF KeptBeyondReach, TypeOK, ClockOK, Phases, Reach
<1>4. SpokenKept'
  BY DEF SpokenKept, TypeOK, ClockOK, Phases, Reach, Spoken
<1>5. CallsTimely'
  BY DEF CallsTimely, TypeOK, ClockOK, Phases, Timely
<1>6. LateCallsRefused'
  BY DEF LateCallsRefused, TypeOK, ClockOK, Phases, Spoken
<1>7. OnlyServedSent'
  BY DEF OnlyServedSent, TypeOK, ClockOK, Phases
<1>8. RaceBounded'
  BY NoNewRacer DEF Racing, TypeOK, Phases
<1>9. DoomedOut'
  BY DEF DoomedOut, TypeOK, ClockOK, Phases, Reach
<1>10. QED
  BY <1>1, <1>2, <1>3, <1>4, <1>5, <1>6, <1>7, <1>8, <1>9

LEMMA ClockStepStep ==
  ASSUME IInv, ClockStep
  PROVE  IInv'
<1> USE ClockAssumption, TransportAssumption, LeadBelowWindow, LargerTyped
        DEF IInv, clockVars, callVars, cacheVars, ClockStep, StepBack
<1>1. TypeOK'
  BY AnyNonceTyped DEF TypeOK, ClockOK, Phases
<1>2. TimestampsNear'
  BY DEF TimestampsNear, TypeOK, ClockOK, Phases
<1>3. KeptBeyondReach'
  BY DEF KeptBeyondReach, TypeOK, ClockOK, Phases, Reach
<1>4. SpokenKept'
  BY DEF SpokenKept, TypeOK, ClockOK, Phases, Reach, Spoken
<1>5. CallsTimely'
  BY DEF CallsTimely, TypeOK, ClockOK, Phases, Timely
<1>6. LateCallsRefused'
  BY DEF LateCallsRefused, TypeOK, ClockOK, Phases, Spoken
<1>7. OnlyServedSent'
  BY DEF OnlyServedSent, TypeOK, ClockOK, Phases
<1>8. RaceBounded'
  BY NoNewRacer DEF Racing, TypeOK, Phases
<1>9. DoomedOut'
  BY DEF DoomedOut, TypeOK, ClockOK, Phases, Reach
<1>10. QED
  BY <1>1, <1>2, <1>3, <1>4, <1>5, <1>6, <1>7, <1>8, <1>9

LEMMA Inductive == IInv /\ [Next]_vars => IInv'
<1> SUFFICES ASSUME IInv, [Next]_vars PROVE IInv'
  OBVIOUS
<1>1. CASE Next
  BY <1>1, SignStep, ArriveStep, TimestampStep, TestStep, RecordStep,
     SignatureStep, ListStep, DropStep, RestartStep, TickStep, ClockStepStep
  DEF Next, Call
<1>2. CASE UNCHANGED vars
  BY <1>2 DEF vars, clockVars, callVars, cacheVars, DoomedOut, IInv, TypeOK, ClockOK, TimestampsNear,
     KeptBeyondReach, Reach, SpokenKept, Spoken, CallsTimely, LateCallsRefused,
     OnlyServedSent, RaceBounded, Racing
<1>3. QED
  BY <1>1, <1>2

LEMMA Invariance == Spec => []IInv
<1>1. QED
  BY Initially, Inductive, PTL DEF Spec

(* The variables keep their types.                                         *)
THEOREM TypeCorrect == Spec => []TypeOK
<1>1. IInv => TypeOK
  BY DEF IInv
<1>2. QED
  BY <1>1, Invariance, PTL

(* Whatever calls overlap, verify_request() lets a signed request through  *)
(* at most as often as calls can be in flight together.                    *)
THEOREM ReplayBounded == Spec => []ReplayNeedsOverlap
<1>1. ASSUME IInv PROVE ReplayNeedsOverlap
  <2> SUFFICES ASSUME NEW n \in Nonces PROVE served[n] <= Cardinality(Calls)
    BY DEF ReplayNeedsOverlap
  <2>1. served[n] \in Nat /\ served[n] + Cardinality(Racing(n)) <= Cardinality(Calls)
    BY <1>1 DEF IInv, TypeOK, RaceBounded
  <2>2. QED
    BY <2>1, RacingFinite, TransportAssumption, FS_CardinalityType
<1>2. QED
  BY <1>1, Invariance, PTL

(* A copy that comes to the nonce test after its request was let through,  *)
(* or after another call recorded it and is about to, does not pass.       *)
THEOREM LateCopiesTurnedAway == Spec => LateCopyRefused
<1> DEFINE Refused == \A c \in Calls : TestNonce(c) /\ Spoken(nonce[c]) => phase'[c] = "idle"
<1>1. ASSUME IInv, NEW c \in Calls, TestNonce(c), Spoken(nonce[c]) PROVE phase'[c] = "idle"
  <2>1. /\ nonce[c] \in DOMAIN sent /\ sent[nonce[c]] \in Int
        /\ now[c] \in Int /\ phase[c] = "fresh" /\ phase \in [Calls -> Phases]
    BY <1>1 DEF IInv, TypeOK, TestNonce
  <2>2. nonce[c] \in DOMAIN nonces /\ nonces[nonce[c]] \in Int
    BY <1>1, <2>1 DEF IInv, TypeOK, LateCallsRefused
  <2>3. Known(nonce[c], now[c])
    BY <1>1, <2>1, <2>2, LargerTyped, ClockAssumption, TransportAssumption
    DEF IInv, KeptBeyondReach, Known, CallsTimely, Timely, Reach
  <2>4. QED
    BY <1>1, <2>1, <2>3 DEF TestNonce, Return
<1>2. IInv /\ [Next]_vars => [Refused]_vars
  BY <1>1
<1>3. QED
  BY <1>2, Invariance, PTL DEF Spec, LateCopyRefused

(* A server that runs one call at a time, as an event loop does with a     *)
(* function that never yields.                                             *)
OneAtATime == \A c, d \in Calls : c = d

LEMMA OneCall == ASSUME OneAtATime PROVE Cardinality(Calls) <= 1
<1>1. CASE Calls = {}
  BY <1>1, FS_EmptySet
<1>2. CASE Calls # {}
  <2>1. PICK c \in Calls : Calls = {c}
    BY <1>2 DEF OneAtATime
  <2>2. QED
    BY <2>1, FS_Singleton
<1>3. QED
  BY <1>1, <1>2

(* Such a server lets every signed request through at most once.           *)
THEOREM ServedOnce == ASSUME OneAtATime PROVE Spec => []NoReplay
<1>1. ReplayNeedsOverlap /\ TypeOK => NoReplay
  BY OneCall, TransportAssumption, FS_CardinalityType DEF ReplayNeedsOverlap, NoReplay, TypeOK
<1>2. QED
  BY <1>1, ReplayBounded, TypeCorrect, PTL

(* The nonce cache outlives the window of every request let through.       *)
THEOREM CacheCoversWindow == Spec => []WindowCovered
<1>1. ASSUME IInv PROVE WindowCovered
  <2> SUFFICES ASSUME NEW n \in DOMAIN sent, served[n] > 0, Timely(sent[n], clock)
               PROVE  Known(n, clock)
    BY DEF WindowCovered
  <2>1. /\ sent[n] \in Int /\ clock \in Int /\ peak \in Int /\ peak <= clock + Back
        /\ n \in DOMAIN nonces => nonces[n] \in Int
    BY <1>1, ClockAssumption DEF IInv, TypeOK, ClockOK
  <2>2. clock <= sent[n] + MaxAge
    BY <2>1, TransportAssumption DEF Timely
  <2>3. n \in DOMAIN nonces \/ peak > Reach(n)
    BY <1>1 DEF IInv, SpokenKept, Spoken
  <2>4. n \in DOMAIN nonces
    BY <2>1, <2>2, <2>3, LargerTyped, ClockAssumption, TransportAssumption DEF Reach
  <2>5. nonces[n] > Reach(n)
    BY <1>1, <2>4 DEF IInv, KeptBeyondReach
  <2>6. QED
    BY <2>1, <2>2, <2>4, <2>5, LargerTyped, TransportAssumption DEF Known, Reach
<1>2. QED
  BY <1>1, Invariance, PTL
=============================================================================
