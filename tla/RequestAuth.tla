----------------------------- MODULE RequestAuth -----------------------------
(***************************************************************************)
(* The signed-request path of a spoke (_signing.py).  A requester signs a  *)
(* document with sign(); the network may lose, delay, reorder and repeat   *)
(* it; one of several handler threads of the spoke extracts the user id,   *)
(* obtains that user's verification key, calls verify() and then           *)
(* ReplayGuard.check(), the two reading the wall clock separately.         *)
(*                                                                         *)
(* ReplayGuard is "Not thread-safe; guard externally": the lock `guard` is *)
(* that external guard.  Its three steps under the lock are separate       *)
(* actions, so the clock and the other threads move between them.          *)
(*                                                                         *)
(* A handler's `stage`:                                                    *)
(*   idle -> received -> verified -> checking -> unseen -> idle            *)
(***************************************************************************)
EXTENDS WallClock, ReplayGuard, FiniteSets

CONSTANTS
  Handlers,                \* handler threads of the spoke
  Users, Rids, Keys,       \* user ids, request ids, signing key pairs
  Times,                   \* timestamps a requester's clock may produce
  MaxAge, Skew,            \* max_age_s and skew_s of verify()
  Gap,                     \* longest wait between verify() and check()
  MaxSent                  \* bound: how many documents are signed

(* A signed document: its user, request id and timestamp, and the key that *)
(* signed it.  The data field is carried along and decides nothing.        *)
Docs == [user : Users, rid : Rids, ts : Times, key : Keys]

Larger(a, b) == IF a > b THEN a ELSE b

ASSUME RequestAssumption ==
  /\ Docs # {} /\ Times \subseteq Int
  /\ MaxAge \in Nat /\ Skew \in Nat /\ Gap \in Nat /\ MaxSent \in Nat

(* The replay window outlives every clock reading at which the document    *)
(* is still fresh: 3600 >= 300 + 60 + ... with the defaults of the code.   *)
ASSUME TtlCoversWindow == Ttl >= MaxAge + Skew + Back + Larger(Back, Gap)

VARIABLES
  sent,                    \* documents signed so far
  stage, doc,              \* what each handler does, and with which document
  verifiedAt, checkNow,    \* its clock readings in verify() and in check()
  seen,                    \* ReplayGuard._seen
  guard,                   \* the holder of the external lock, as a set
  accepted,                \* history: times this run accepted a document
  acceptedAt,              \* history: when it last accepted a request id
  firstAt                  \* history: when any run first accepted a document

handlerVars == <<stage, doc, verifiedAt, checkNow>>
guardVars   == <<seen, guard>>
historyVars == <<accepted, acceptedAt, firstAt>>
vars == <<clockVars, sent, handlerVars, guardVars, historyVars>>

Stages == {"idle", "received", "verified", "checking", "unseen"}
InCheck == {"checking", "unseen"}          \* inside ReplayGuard.check()
PastVerify == {"verified"} \cup InCheck

AnyDoc == CHOOSE d \in Docs : TRUE         \* contents of an unused slot

Init ==
  /\ ClockInit
  /\ sent = {}
  /\ stage = [h \in Handlers |-> "idle"]
  /\ doc = [h \in Handlers |-> AnyDoc]
  /\ verifiedAt = [h \in Handlers |-> 0]
  /\ checkNow = [h \in Handlers |-> 0]
  /\ seen = NothingSeen
  /\ guard = {}
  /\ accepted = [d \in Docs |-> 0]
  /\ acceptedAt = NothingSeen
  /\ firstAt = NothingSeen

-----------------------------------------------------------------------------
(* Mutants: verify() lets stale documents pass, or documents of any        *)
(* future date.                                                            *)
FreshAt_NoAge(ts, now) == ts <= now + Skew
FreshAt_NoSkew(ts, now) == now - ts <= MaxAge

(* verify(): neither from the future nor stale.                            *)
FreshAt(ts, now) == ts <= now + Skew /\ now - ts <= MaxAge

LockFree == guard = {}

Release(h) == guard' = guard \ {h}

(* The handler leaves; its slot is cleared.                                *)
Leave(h) ==
  /\ stage' = [stage EXCEPT ![h] = "idle"]
  /\ doc' = [doc EXCEPT ![h] = AnyDoc]
  /\ verifiedAt' = [verifiedAt EXCEPT ![h] = 0]
  /\ checkNow' = [checkNow EXCEPT ![h] = 0]

(* sign(): the id is fresh unless the caller supplies one, the timestamp   *)
(* is the requester's own clock.                                           *)
Sign(d) ==
  /\ Cardinality(sent) < MaxSent
  /\ sent' = sent \cup {d}
  /\ UNCHANGED <<clockVars, handlerVars, guardVars, historyVars>>

(* A document arrives, once or again, and extract_user_id() reads it.      *)
Receive(h, d) ==
  /\ stage[h] = "idle"
  /\ d \in sent
  /\ stage' = [stage EXCEPT ![h] = "received"]
  /\ doc' = [doc EXCEPT ![h] = d]
  /\ UNCHANGED <<clockVars, sent, verifiedAt, checkNow, guardVars, historyVars>>

(* verify() with the key k that the lookup of the user returned.           *)
Verify(h, k) ==
  /\ stage[h] = "received"
  /\ doc[h].key = k
  /\ FreshAt(doc[h].ts, clock)
  /\ stage' = [stage EXCEPT ![h] = "verified"]
  /\ verifiedAt' = [verifiedAt EXCEPT ![h] = clock]
  /\ UNCHANGED <<clockVars, sent, doc, checkNow, guardVars, historyVars>>

(* verify() raises: wrong key, from the future, or stale.                  *)
Refuse(h, k) ==
  /\ stage[h] = "received"
  /\ ~ (doc[h].key = k /\ FreshAt(doc[h].ts, clock))
  /\ Leave(h)
  /\ UNCHANGED <<clockVars, sent, guardVars, historyVars>>

(* The key lookup raises; the request is given up before verify().         *)
Abandon(h) ==
  /\ stage[h] = "received"
  /\ Leave(h)
  /\ UNCHANGED <<clockVars, sent, guardVars, historyVars>>

(* check() starts: clock read, expired ids dropped.                        *)
EnterCheck(h) ==
  /\ stage[h] = "verified"
  /\ LockFree
  /\ guard' = guard \cup {h}
  /\ checkNow' = [checkNow EXCEPT ![h] = clock]
  /\ seen' = Prune(seen, clock)
  /\ stage' = [stage EXCEPT ![h] = "checking"]
  /\ UNCHANGED <<clockVars, sent, doc, verifiedAt, historyVars>>

(* Mutant: check() raises on a replay, past the release of its guard.      *)
SeenBefore_Raises(h) ==
  /\ stage[h] = "checking"
  /\ doc[h].rid \in DOMAIN seen
  /\ Leave(h)
  /\ UNCHANGED <<clockVars, sent, guardVars, historyVars>>

(* check(): the id is known and the request is refused as a replay.        *)
SeenBefore(h) ==
  /\ stage[h] = "checking"
  /\ doc[h].rid \in DOMAIN seen
  /\ Release(h)
  /\ Leave(h)
  /\ UNCHANGED <<clockVars, sent, seen, historyVars>>

NotSeen(h) ==
  /\ stage[h] = "checking"
  /\ doc[h].rid \notin DOMAIN seen
  /\ stage' = [stage EXCEPT ![h] = "unseen"]
  /\ UNCHANGED <<clockVars, sent, doc, verifiedAt, checkNow, guardVars,
                 historyVars>>

(* check() records the id and returns True: the request is acted on.       *)
AcceptRequest(h) ==
  /\ stage[h] = "unseen"
  /\ seen' = Record(seen, doc[h].rid, checkNow[h])
  /\ Release(h)
  /\ accepted' = [accepted EXCEPT ![doc[h]] = @ + 1]
  /\ acceptedAt' = [r \in DOMAIN acceptedAt \cup {doc[h].rid} |->
                      IF r = doc[h].rid THEN checkNow[h] ELSE acceptedAt[r]]
  /\ firstAt' = [d \in DOMAIN firstAt \cup {doc[h]} |->
                   IF d \in DOMAIN firstAt THEN firstAt[d] ELSE checkNow[h]]
  /\ Leave(h)
  /\ UNCHANGED <<clockVars, sent>>

(* The spoke restarts: a new ReplayGuard, which lives in memory only.      *)
Restart ==
  /\ stage' = [h \in Handlers |-> "idle"]
  /\ doc' = [h \in Handlers |-> AnyDoc]
  /\ verifiedAt' = [h \in Handlers |-> 0]
  /\ checkNow' = [h \in Handlers |-> 0]
  /\ seen' = NothingSeen
  /\ guard' = {}
  /\ accepted' = [d \in Docs |-> 0]
  /\ acceptedAt' = NothingSeen
  /\ UNCHANGED <<clockVars, sent, firstAt>>

(* Time passes.  A handler past verify() reaches check() within Gap.       *)
Waiting == {h \in Handlers : stage[h] \in PastVerify}

Tick ==
  /\ \A h \in Waiting : clock < verifiedAt[h] + Gap
  /\ Advance(Horizon)
  /\ UNCHANGED <<sent, handlerVars, guardVars, historyVars>>

ClockStep ==
  /\ StepBack
  /\ UNCHANGED <<sent, handlerVars, guardVars, historyVars>>

Check(h) == EnterCheck(h) \/ SeenBefore(h) \/ NotSeen(h) \/ AcceptRequest(h)

Next ==
  \/ Tick \/ ClockStep \/ Restart
  \/ \E d \in Docs : Sign(d)
  \/ \E h \in Handlers, d \in Docs : Receive(h, d)
  \/ \E h \in Handlers, k \in Keys : Verify(h, k) \/ Refuse(h, k)
  \/ \E h \in Handlers : Abandon(h) \/ Check(h)

Spec == Init /\ [][Next]_vars

-----------------------------------------------------------------------------
(* Every variable has its type, the clock stays within Back of its peak,   *)
(* and the external guard is held by the one thread inside check().        *)
TypeOK ==
  /\ ClockOK
  /\ sent \subseteq Docs
  /\ stage \in [Handlers -> Stages]
  /\ doc \in [Handlers -> Docs]
  /\ verifiedAt \in [Handlers -> Int]
  /\ checkNow \in [Handlers -> Int]
  /\ DOMAIN seen \subseteq Rids /\ \A r \in DOMAIN seen : seen[r] \in Int
  /\ guard = {h \in Handlers : stage[h] \in InCheck}
  /\ \A g, h \in guard : g = h
  /\ accepted \in [Docs -> Nat]
  /\ DOMAIN acceptedAt \subseteq Rids
  /\ \A r \in DOMAIN acceptedAt : acceptedAt[r] \in Int
  /\ DOMAIN firstAt \subseteq Docs
  /\ \A d \in DOMAIN firstAt : firstAt[d] \in Int

(* One run of the spoke accepts a document at most once, however often the *)
(* network delivers it, whichever threads handle it and wherever the clock *)
(* is stepped (verify() then ReplayGuard.check()).                         *)
NoReplay == \A d \in Docs : accepted[d] <= 1

(* Two acceptances of one request id by one run, even of documents signed  *)
(* anew under a caller-supplied id, are more than Ttl apart on the clock,  *)
(* up to its step: what ReplayGuard's expiry promises a retry.             *)
IdReuseSpaced ==
  [][\A h \in Handlers :
       AcceptRequest(h) /\ doc[h].rid \in DOMAIN acceptedAt
         => checkNow[h] > acceptedAt[doc[h].rid] + Ttl - Back]_vars

(* A request is acted on only while it is at most MaxAge old and Skew      *)
(* early by the clock check() read, up to the wait between the two reads   *)
(* and a clock step.                                                       *)
AcceptedFresh ==
  \A h \in Handlers : stage[h] \in InCheck =>
    /\ checkNow[h] - doc[h].ts <= MaxAge + Gap
    /\ doc[h].ts - checkNow[h] <= Skew + Back

(* A restart forgets what was accepted, and only the dates are left to     *)
(* refuse a document that comes again: whatever crashes lie between, no    *)
(* document is accepted later after its first acceptance than its two-     *)
(* sided window is wide, up to one wait and a clock step (the memory of    *)
(* ReplayGuard ends with the process, the window of verify() does not).    *)
CrashWindowBounded ==
  [][\A h \in Handlers :
       AcceptRequest(h) /\ doc[h] \in DOMAIN firstAt
         => checkNow[h] <= firstAt[doc[h]] + MaxAge + Skew + Gap + Back]_vars
=============================================================================
