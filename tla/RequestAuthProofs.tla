-------------------------- MODULE RequestAuthProofs --------------------------
(***************************************************************************)
(* Proofs about RequestAuth, for every value of its constants that meets   *)
(* ClockAssumption, TtlAssumption, RequestAssumption and TtlCoversWindow.  *)
(***************************************************************************)
EXTENDS RequestAuth, TLAPS

(* A handler past verify() holds a document that was fresh at its reading, *)
(* and the clock has since moved on by Gap at most.                        *)
VerifiedFresh ==
  \A h \in Handlers : stage[h] \in PastVerify =>
    /\ FreshAt(doc[h].ts, verifiedAt[h])
    /\ verifiedAt[h] <= peak /\ clock <= verifiedAt[h] + Gap

(* The two readings of a handler inside check() are close.                 *)
ReadingsClose ==
  \A h \in Handlers : stage[h] \in InCheck =>
    /\ verifiedAt[h] - Back <= checkNow[h]
    /\ checkNow[h] <= verifiedAt[h] + Gap

(* After the membership test and before the insertion the id stays out.    *)
TestHolds ==
  \A h \in Handlers : stage[h] = "unseen" => doc[h].rid \notin DOMAIN seen

(* The guard remembers an accepted id until the clock has passed Ttl.      *)
Remembered ==
  \A r \in DOMAIN acceptedAt :
    IF r \in DOMAIN seen THEN seen[r] = acceptedAt[r] + Ttl
                         ELSE peak > acceptedAt[r] + Ttl

(* When the guard has forgotten the id a handler holds, that handler read  *)
(* the clock late enough: this is what a stale reading could break.        *)
ForgottenLate ==
  \A h \in Handlers :
    doc[h].rid \in DOMAIN acceptedAt \ DOMAIN seen =>
      /\ stage[h] \in PastVerify =>
           verifiedAt[h] + Larger(Back, Gap) > acceptedAt[doc[h].rid] + Ttl
      /\ stage[h] \in InCheck =>
           checkNow[h] + Back > acceptedAt[doc[h].rid] + Ttl

(* What was accepted was accepted once, and not long before its timestamp. *)
Counted ==
  \A d \in Docs :
    /\ accepted[d] \in {0, 1}
    /\ accepted[d] = 1 =>
         /\ d.rid \in DOMAIN acceptedAt
         /\ d.ts <= acceptedAt[d.rid] + Back + Skew

IInv ==
  /\ TypeOK /\ VerifiedFresh /\ ReadingsClose /\ TestHolds
  /\ Remembered /\ ForgottenLate /\ Counted

-----------------------------------------------------------------------------
LEMMA RecordTyped ==
  ASSUME NEW S, NEW table, NEW id \in S, NEW now \in Int,
         DOMAIN table \subseteq S, \A i \in DOMAIN table : table[i] \in Int
  PROVE  /\ DOMAIN Record(table, id, now) \subseteq S
         /\ \A i \in DOMAIN Record(table, id, now) :
              Record(table, id, now)[i] \in Int
BY TtlAssumption DEF Record, Expiry

LEMMA TtlCoversBack == Ttl >= Back
<1>1. Larger(Back, Gap) \in Nat
  BY ClockAssumption, RequestAssumption DEF Larger
<1>2. QED
  BY <1>1, ClockAssumption, TtlAssumption, RequestAssumption, TtlCoversWindow

LEMMA AnyDocTyped == AnyDoc \in Docs
BY RequestAssumption DEF AnyDoc

LEMMA Initially == Init => IInv
<1> SUFFICES ASSUME Init PROVE IInv
  OBVIOUS
<1> USE ClockAssumption, RequestAssumption DEF Init, ClockInit, NothingSeen
<1>2. TypeOK
  BY AnyDocTyped DEF TypeOK, ClockOK, Stages, InCheck
<1>3. VerifiedFresh /\ ReadingsClose /\ TestHolds
  BY DEF VerifiedFresh, ReadingsClose, TestHolds, PastVerify, InCheck
<1>4. Remembered /\ ForgottenLate /\ Counted
  BY DEF Remembered, ForgottenLate, Counted
<1>5. QED
  BY <1>2, <1>3, <1>4 DEF IInv

LEMMA SignStep ==
  ASSUME IInv, NEW d \in Docs, Sign(d)
  PROVE  IInv'
<1> USE ClockAssumption, TtlAssumption, RequestAssumption, TtlCoversWindow
        DEF IInv
<1>1. TypeOK'
  BY DEF Sign, TypeOK, ClockOK, Stages, InCheck, PastVerify,
         clockVars, handlerVars, guardVars, historyVars
<1>2. VerifiedFresh'
  BY DEF Sign, VerifiedFresh, TypeOK, ClockOK, Stages, InCheck, PastVerify,
         clockVars, handlerVars, guardVars, historyVars
<1>3. ReadingsClose'
  BY DEF Sign, ReadingsClose, TypeOK, ClockOK, Stages, InCheck, PastVerify,
         clockVars, handlerVars, guardVars, historyVars
<1>4. TestHolds'
  BY DEF Sign, TestHolds, TypeOK, ClockOK, Stages, InCheck, PastVerify,
         clockVars, handlerVars, guardVars, historyVars
<1>5. Remembered'
  BY DEF Sign, Remembered, TypeOK, ClockOK, Stages, InCheck, PastVerify,
         clockVars, handlerVars, guardVars, historyVars
<1>6. ForgottenLate'
  BY DEF Sign, ForgottenLate, TypeOK, ClockOK, Stages, InCheck, PastVerify,
         clockVars, handlerVars, guardVars, historyVars
<1>7. Counted'
  BY DEF Sign, Counted, TypeOK, ClockOK, Stages, InCheck, PastVerify,
         clockVars, handlerVars, guardVars, historyVars
<1>8. QED
  BY <1>1, <1>2, <1>3, <1>4, <1>5, <1>6, <1>7

LEMMA ReceiveStep ==
  ASSUME IInv, NEW h \in Handlers, NEW d \in Docs, Receive(h, d)
  PROVE  IInv'
<1> USE ClockAssumption, TtlAssumption, RequestAssumption, TtlCoversWindow
        DEF IInv
<1>1. TypeOK'
  BY DEF Receive, TypeOK, ClockOK, Stages, InCheck, PastVerify,
         clockVars, handlerVars, guardVars, historyVars
<1>2. VerifiedFresh'
  BY DEF Receive, VerifiedFresh, TypeOK, ClockOK, Stages, InCheck, PastVerify,
         clockVars, handlerVars, guardVars, historyVars
<1>3. ReadingsClose'
  BY DEF Receive, ReadingsClose, TypeOK, ClockOK, Stages, InCheck, PastVerify,
         clockVars, handlerVars, guardVars, historyVars
<1>4. TestHolds'
  BY DEF Receive, TestHolds, TypeOK, ClockOK, Stages, InCheck, PastVerify,
         clockVars, handlerVars, guardVars, historyVars
<1>5. Remembered'
  BY DEF Receive, Remembered, TypeOK, ClockOK, Stages, InCheck, PastVerify,
         clockVars, handlerVars, guardVars, historyVars
<1>6. ForgottenLate'
  BY DEF Receive, ForgottenLate, TypeOK, ClockOK, Stages, InCheck, PastVerify,
         clockVars, handlerVars, guardVars, historyVars
<1>7. Counted'
  BY DEF Receive, Counted, TypeOK, ClockOK, Stages, InCheck, PastVerify,
         clockVars, handlerVars, guardVars, historyVars
<1>8. QED
  BY <1>1, <1>2, <1>3, <1>4, <1>5, <1>6, <1>7

LEMMA VerifyStep ==
  ASSUME IInv, NEW h \in Handlers, NEW k \in Keys, Verify(h, k)
  PROVE  IInv'
<1> USE ClockAssumption, TtlAssumption, RequestAssumption, TtlCoversWindow
        DEF IInv
<1>1. TypeOK'
  BY DEF Verify, FreshAt, Larger, TypeOK, ClockOK, Stages, InCheck, PastVerify,
         clockVars, handlerVars, guardVars, historyVars
<1>2. VerifiedFresh'
  BY DEF Verify, FreshAt, Larger, VerifiedFresh, TypeOK, ClockOK, Stages, InCheck, PastVerify,
         clockVars, handlerVars, guardVars, historyVars
<1>3. ReadingsClose'
  BY DEF Verify, FreshAt, Larger, ReadingsClose, TypeOK, ClockOK, Stages, InCheck, PastVerify,
         clockVars, handlerVars, guardVars, historyVars
<1>4. TestHolds'
  BY DEF Verify, FreshAt, Larger, TestHolds, TypeOK, ClockOK, Stages, InCheck, PastVerify,
         clockVars, handlerVars, guardVars, historyVars
<1>5. Remembered'
  BY DEF Verify, FreshAt, Larger, Remembered, TypeOK, ClockOK, Stages, InCheck, PastVerify,
         clockVars, handlerVars, guardVars, historyVars
<1>6. ForgottenLate'
  BY DEF Verify, FreshAt, Larger, ForgottenLate, Remembered, TypeOK, ClockOK, Stages, InCheck, PastVerify,
         clockVars, handlerVars, guardVars, historyVars
<1>7. Counted'
  BY DEF Verify, FreshAt, Larger, Counted, TypeOK, ClockOK, Stages, InCheck, PastVerify,
         clockVars, handlerVars, guardVars, historyVars
<1>8. QED
  BY <1>1, <1>2, <1>3, <1>4, <1>5, <1>6, <1>7

LEMMA RefuseStep ==
  ASSUME IInv, NEW h \in Handlers, NEW k \in Keys, Refuse(h, k)
  PROVE  IInv'
<1> USE ClockAssumption, TtlAssumption, RequestAssumption, TtlCoversWindow
        DEF IInv
<1>1. TypeOK'
  BY AnyDocTyped DEF Refuse, Leave, TypeOK, ClockOK, Stages, InCheck, PastVerify,
         clockVars, handlerVars, guardVars, historyVars
<1>2. VerifiedFresh'
  BY DEF Refuse, Leave, VerifiedFresh, TypeOK, ClockOK, Stages, InCheck, PastVerify,
         clockVars, handlerVars, guardVars, historyVars
<1>3. ReadingsClose'
  BY DEF Refuse, Leave, ReadingsClose, TypeOK, ClockOK, Stages, InCheck, PastVerify,
         clockVars, handlerVars, guardVars, historyVars
<1>4. TestHolds'
  BY DEF Refuse, Leave, TestHolds, TypeOK, ClockOK, Stages, InCheck, PastVerify,
         clockVars, handlerVars, guardVars, historyVars
<1>5. Remembered'
  BY DEF Refuse, Leave, Remembered, TypeOK, ClockOK, Stages, InCheck, PastVerify,
         clockVars, handlerVars, guardVars, historyVars
<1>6. ForgottenLate'
  BY DEF Refuse, Leave, ForgottenLate, TypeOK, ClockOK, Stages, InCheck, PastVerify,
         clockVars, handlerVars, guardVars, historyVars
<1>7. Counted'
  BY DEF Refuse, Leave, Counted, TypeOK, ClockOK, Stages, InCheck, PastVerify,
         clockVars, handlerVars, guardVars, historyVars
<1>8. QED
  BY <1>1, <1>2, <1>3, <1>4, <1>5, <1>6, <1>7

LEMMA AbandonStep ==
  ASSUME IInv, NEW h \in Handlers, Abandon(h)
  PROVE  IInv'
<1> USE ClockAssumption, TtlAssumption, RequestAssumption, TtlCoversWindow
        DEF IInv
<1>1. TypeOK'
  BY AnyDocTyped DEF Abandon, Leave, TypeOK, ClockOK, Stages, InCheck, PastVerify,
         clockVars, handlerVars, guardVars, historyVars
<1>2. VerifiedFresh'
  BY DEF Abandon, Leave, VerifiedFresh, TypeOK, ClockOK, Stages, InCheck, PastVerify,
         clockVars, handlerVars, guardVars, historyVars
<1>3. ReadingsClose'
  BY DEF Abandon, Leave, ReadingsClose, TypeOK, ClockOK, Stages, InCheck, PastVerify,
         clockVars, handlerVars, guardVars, historyVars
<1>4. TestHolds'
  BY DEF Abandon, Leave, TestHolds, TypeOK, ClockOK, Stages, InCheck, PastVerify,
         clockVars, handlerVars, guardVars, historyVars
<1>5. Remembered'
  BY DEF Abandon, Leave, Remembered, TypeOK, ClockOK, Stages, InCheck, PastVerify,
         clockVars, handlerVars, guardVars, historyVars
<1>6. ForgottenLate'
  BY DEF Abandon, Leave, ForgottenLate, TypeOK, ClockOK, Stages, InCheck, PastVerify,
         clockVars, handlerVars, guardVars, historyVars
<1>7. Counted'
  BY DEF Abandon, Leave, Counted, TypeOK, ClockOK, Stages, InCheck, PastVerify,
         clockVars, handlerVars, guardVars, historyVars
<1>8. QED
  BY <1>1, <1>2, <1>3, <1>4, <1>5, <1>6, <1>7

LEMMA EnterStep ==
  ASSUME IInv, NEW h \in Handlers, EnterCheck(h)
  PROVE  IInv'
<1> USE ClockAssumption, TtlAssumption, RequestAssumption, TtlCoversWindow
        DEF IInv
<1>1. TypeOK'
  BY DEF EnterCheck, LockFree, Larger, Prune, TypeOK, ClockOK, Stages, InCheck, PastVerify,
         clockVars, handlerVars, guardVars, historyVars
<1>2. VerifiedFresh'
  BY DEF EnterCheck, LockFree, Larger, Prune, VerifiedFresh, TypeOK, ClockOK, Stages, InCheck, PastVerify,
         clockVars, handlerVars, guardVars, historyVars
<1>3. ReadingsClose'
  BY DEF EnterCheck, ReadingsClose, VerifiedFresh, TypeOK, ClockOK, Stages, InCheck, PastVerify,
         clockVars, handlerVars, guardVars, historyVars
<1>4. TestHolds'
  BY DEF EnterCheck, LockFree, Larger, Prune, TestHolds, TypeOK, ClockOK, Stages, InCheck, PastVerify,
         clockVars, handlerVars, guardVars, historyVars
<1>5. Remembered'
  BY DEF EnterCheck, LockFree, Larger, Prune, Remembered, TypeOK, ClockOK, Stages, InCheck, PastVerify,
         clockVars, handlerVars, guardVars, historyVars
<1>6. ForgottenLate'
  BY DEF EnterCheck, LockFree, Larger, Prune, ForgottenLate, Remembered,
         VerifiedFresh, TypeOK, ClockOK, Stages, InCheck, PastVerify,
         clockVars, handlerVars, guardVars, historyVars
<1>7. Counted'
  BY DEF EnterCheck, LockFree, Larger, Prune, Counted, TypeOK, ClockOK, Stages, InCheck, PastVerify,
         clockVars, handlerVars, guardVars, historyVars
<1>8. QED
  BY <1>1, <1>2, <1>3, <1>4, <1>5, <1>6, <1>7

LEMMA SeenStep ==
  ASSUME IInv, NEW h \in Handlers, SeenBefore(h)
  PROVE  IInv'
<1> USE ClockAssumption, TtlAssumption, RequestAssumption, TtlCoversWindow
        DEF IInv
<1>1. TypeOK'
  BY AnyDocTyped DEF SeenBefore, Leave, Release, TypeOK, ClockOK, Stages, InCheck, PastVerify,
         clockVars, handlerVars, guardVars, historyVars
<1>2. VerifiedFresh'
  BY DEF SeenBefore, Leave, Release, VerifiedFresh, TypeOK, ClockOK, Stages, InCheck, PastVerify,
         clockVars, handlerVars, guardVars, historyVars
<1>3. ReadingsClose'
  BY DEF SeenBefore, Leave, Release, ReadingsClose, TypeOK, ClockOK, Stages, InCheck, PastVerify,
         clockVars, handlerVars, guardVars, historyVars
<1>4. TestHolds'
  BY DEF SeenBefore, Leave, Release, TestHolds, TypeOK, ClockOK, Stages, InCheck, PastVerify,
         clockVars, handlerVars, guardVars, historyVars
<1>5. Remembered'
  BY DEF SeenBefore, Leave, Release, Remembered, TypeOK, ClockOK, Stages, InCheck, PastVerify,
         clockVars, handlerVars, guardVars, historyVars
<1>6. ForgottenLate'
  BY DEF SeenBefore, Leave, Release, ForgottenLate, TypeOK, ClockOK, Stages, InCheck, PastVerify,
         clockVars, handlerVars, guardVars, historyVars
<1>7. Counted'
  BY DEF SeenBefore, Leave, Release, Counted, TypeOK, ClockOK, Stages, InCheck, PastVerify,
         clockVars, handlerVars, guardVars, historyVars
<1>8. QED
  BY <1>1, <1>2, <1>3, <1>4, <1>5, <1>6, <1>7

LEMMA NotSeenStep ==
  ASSUME IInv, NEW h \in Handlers, NotSeen(h)
  PROVE  IInv'
<1> USE ClockAssumption, TtlAssumption, RequestAssumption, TtlCoversWindow
        DEF IInv
<1>1. TypeOK'
  BY DEF NotSeen, TypeOK, ClockOK, Stages, InCheck, PastVerify,
         clockVars, handlerVars, guardVars, historyVars
<1>2. VerifiedFresh'
  BY DEF NotSeen, VerifiedFresh, TypeOK, ClockOK, Stages, InCheck, PastVerify,
         clockVars, handlerVars, guardVars, historyVars
<1>3. ReadingsClose'
  BY DEF NotSeen, ReadingsClose, TypeOK, ClockOK, Stages, InCheck, PastVerify,
         clockVars, handlerVars, guardVars, historyVars
<1>4. TestHolds'
  BY DEF NotSeen, TestHolds, TypeOK, ClockOK, Stages, InCheck, PastVerify,
         clockVars, handlerVars, guardVars, historyVars
<1>5. Remembered'
  BY DEF NotSeen, Remembered, TypeOK, ClockOK, Stages, InCheck, PastVerify,
         clockVars, handlerVars, guardVars, historyVars
<1>6. ForgottenLate'
  BY DEF NotSeen, ForgottenLate, TypeOK, ClockOK, Stages, InCheck, PastVerify,
         clockVars, handlerVars, guardVars, historyVars
<1>7. Counted'
  BY DEF NotSeen, Counted, TypeOK, ClockOK, Stages, InCheck, PastVerify,
         clockVars, handlerVars, guardVars, historyVars
<1>8. QED
  BY <1>1, <1>2, <1>3, <1>4, <1>5, <1>6, <1>7

LEMMA AcceptStep ==
  ASSUME IInv, NEW h \in Handlers, AcceptRequest(h)
  PROVE  IInv'
<1> USE ClockAssumption, TtlAssumption, RequestAssumption, TtlCoversWindow
        DEF IInv
<1>1. TypeOK'
  <2>1. checkNow[h] \in Int /\ doc[h] \in Docs /\ doc[h].rid \in Rids
    BY DEF TypeOK, Docs
  <2>2. DOMAIN seen' \subseteq Rids /\ \A r \in DOMAIN seen' : seen'[r] \in Int
    <3>1. seen' = Record(seen, doc[h].rid, checkNow[h])
      BY DEF AcceptRequest
    <3>2. DOMAIN seen \subseteq Rids /\ \A r \in DOMAIN seen : seen[r] \in Int
      BY DEF TypeOK
    <3>3. QED
      BY <2>1, <3>1, <3>2, RecordTyped
  <2>3. /\ DOMAIN acceptedAt' \subseteq Rids
        /\ \A r \in DOMAIN acceptedAt' : acceptedAt'[r] \in Int
    <3>1. acceptedAt' = [r \in DOMAIN acceptedAt \cup {doc[h].rid} |->
                 IF r = doc[h].rid THEN checkNow[h] ELSE acceptedAt[r]]
      BY DEF AcceptRequest
    <3>2. /\ DOMAIN acceptedAt \subseteq Rids
          /\ \A r \in DOMAIN acceptedAt : acceptedAt[r] \in Int
      BY DEF TypeOK
    <3>3. QED
      BY <2>1, <3>1, <3>2
  <2>4. accepted' \in [Docs -> Nat]
    BY <2>1 DEF AcceptRequest, TypeOK
  <2>5. /\ stage' \in [Handlers -> Stages]
        /\ doc' \in [Handlers -> Docs]
        /\ verifiedAt' \in [Handlers -> Int]
        /\ checkNow' \in [Handlers -> Int]
    BY AnyDocTyped DEF AcceptRequest, Leave, TypeOK, Stages
  <2>6. /\ guard' = {g \in Handlers : stage'[g] \in InCheck}
        /\ \A f, g \in guard' : f = g
    BY DEF AcceptRequest, Leave, Release, TypeOK, InCheck, Stages
  <2>7. ClockOK' /\ sent' \subseteq Docs
    BY DEF AcceptRequest, TypeOK, ClockOK, clockVars
  <2>8. /\ DOMAIN firstAt' \subseteq Docs
        /\ \A d \in DOMAIN firstAt' : firstAt'[d] \in Int
    BY <2>1 DEF AcceptRequest, TypeOK
  <2>9. QED
    BY <2>2, <2>3, <2>4, <2>5, <2>6, <2>7, <2>8 DEF TypeOK
<1>2. VerifiedFresh'
  BY DEF AcceptRequest, Leave, Release, FreshAt, Larger, Record, Expiry, VerifiedFresh, TypeOK, ClockOK, Stages, InCheck, PastVerify,
         clockVars, handlerVars, guardVars, historyVars
<1>3. ReadingsClose'
  BY DEF AcceptRequest, Leave, Release, FreshAt, Larger, Record, Expiry, ReadingsClose, TypeOK, ClockOK, Stages, InCheck, PastVerify,
         clockVars, handlerVars, guardVars, historyVars
<1>4. TestHolds'
  BY DEF AcceptRequest, Leave, Release, FreshAt, Larger, Record, Expiry, TestHolds, TypeOK, ClockOK, Stages, InCheck, PastVerify,
         clockVars, handlerVars, guardVars, historyVars
<1>5. Remembered'
  BY DEF AcceptRequest, Leave, Release, FreshAt, Larger, Record, Expiry, Remembered, TypeOK, ClockOK, Stages, InCheck, PastVerify,
         clockVars, handlerVars, guardVars, historyVars
<1>6. ForgottenLate'
  BY DEF AcceptRequest, Leave, Release, FreshAt, Larger, Record, Expiry, ForgottenLate, TypeOK, ClockOK, Stages, InCheck, PastVerify,
         clockVars, handlerVars, guardVars, historyVars
<1>7. Counted'
  <2> DEFINE c == checkNow[h]
             r == doc[h].rid
  <2>1. stage[h] = "unseen" /\ r \notin DOMAIN seen
    BY DEF AcceptRequest, TestHolds
  <2>2. doc[h] \in Docs /\ c \in Int /\ verifiedAt[h] \in Int
        /\ doc[h].ts \in Int /\ r \in Rids
    BY DEF TypeOK, Docs
  <2>3. doc[h].ts <= verifiedAt[h] + Skew
        /\ verifiedAt[h] - doc[h].ts <= MaxAge
        /\ verifiedAt[h] <= c + Back
    BY <2>1, <2>2 DEF VerifiedFresh, ReadingsClose, FreshAt, PastVerify, InCheck
  <2>4. doc[h].ts <= c + Back + Skew
    BY <2>2, <2>3
  <2>5. r \in DOMAIN acceptedAt =>
          /\ acceptedAt[r] \in Int
          /\ verifiedAt[h] + Larger(Back, Gap) > acceptedAt[r] + Ttl
          /\ c + Back > acceptedAt[r] + Ttl
    BY <2>1 DEF ForgottenLate, PastVerify, InCheck, TypeOK
  <2>6. accepted[doc[h]] = 0
    <3> SUFFICES ASSUME accepted[doc[h]] # 0 PROVE FALSE
      OBVIOUS
    <3>1. r \in DOMAIN acceptedAt /\ doc[h].ts <= acceptedAt[r] + Back + Skew
      BY <2>2 DEF Counted
    <3>2. Larger(Back, Gap) \in Int
      BY DEF Larger
    <3>3. QED
      BY <2>2, <2>3, <2>5, <3>1, <3>2
  <2>7. acceptedAt' = [q \in DOMAIN acceptedAt \cup {r} |->
                         IF q = r THEN c ELSE acceptedAt[q]]
        /\ accepted' = [accepted EXCEPT ![doc[h]] = 1]
    BY <2>2, <2>6 DEF AcceptRequest, TypeOK
  <2>8. ASSUME NEW d \in Docs
        PROVE  /\ accepted'[d] \in {0, 1}
               /\ accepted'[d] = 1 => /\ d.rid \in DOMAIN acceptedAt'
                                      /\ d.ts <= acceptedAt'[d.rid] + Back + Skew
    <3>1. CASE d = doc[h]
      BY <2>2, <2>4, <2>7, <3>1 DEF TypeOK
    <3>2. CASE d # doc[h] /\ d.rid = r
      <4>1. accepted'[d] = accepted[d] /\ acceptedAt'[d.rid] = c
            /\ d.rid \in DOMAIN acceptedAt'
        BY <2>7, <3>2 DEF TypeOK
      <4>2. d.ts \in Int
        BY DEF Docs
      <4>3. accepted[d] = 1 => d.ts <= c + Back + Skew
        BY <2>2, <2>5, <3>2, <4>2, TtlCoversBack DEF Counted
      <4>4. QED
        BY <4>1, <4>3 DEF Counted
    <3>3. CASE d.rid # r
      BY <2>7, <3>3 DEF TypeOK, Counted
    <3>4. QED
      BY <3>1, <3>2, <3>3
  <2>9. QED
    BY <2>8 DEF Counted
<1>8. QED
  BY <1>1, <1>2, <1>3, <1>4, <1>5, <1>6, <1>7

LEMMA RestartStep ==
  ASSUME IInv, Restart
  PROVE  IInv'
<1> USE ClockAssumption, TtlAssumption, RequestAssumption, TtlCoversWindow
        DEF IInv
<1>1. TypeOK'
  BY AnyDocTyped DEF Restart, NothingSeen, TypeOK, ClockOK, Stages, InCheck, PastVerify,
         clockVars, handlerVars, guardVars, historyVars
<1>2. VerifiedFresh'
  BY DEF Restart, NothingSeen, VerifiedFresh, TypeOK, ClockOK, Stages, InCheck, PastVerify,
         clockVars, handlerVars, guardVars, historyVars
<1>3. ReadingsClose'
  BY DEF Restart, NothingSeen, ReadingsClose, TypeOK, ClockOK, Stages, InCheck, PastVerify,
         clockVars, handlerVars, guardVars, historyVars
<1>4. TestHolds'
  BY DEF Restart, NothingSeen, TestHolds, TypeOK, ClockOK, Stages, InCheck, PastVerify,
         clockVars, handlerVars, guardVars, historyVars
<1>5. Remembered'
  BY DEF Restart, NothingSeen, Remembered, TypeOK, ClockOK, Stages, InCheck, PastVerify,
         clockVars, handlerVars, guardVars, historyVars
<1>6. ForgottenLate'
  BY DEF Restart, NothingSeen, ForgottenLate, TypeOK, ClockOK, Stages, InCheck, PastVerify,
         clockVars, handlerVars, guardVars, historyVars
<1>7. Counted'
  BY DEF Restart, NothingSeen, Counted, TypeOK, ClockOK, Stages, InCheck, PastVerify,
         clockVars, handlerVars, guardVars, historyVars
<1>8. QED
  BY <1>1, <1>2, <1>3, <1>4, <1>5, <1>6, <1>7

LEMMA TickStep ==
  ASSUME IInv, Tick
  PROVE  IInv'
<1> USE ClockAssumption, TtlAssumption, RequestAssumption, TtlCoversWindow
        DEF IInv
<1>1. TypeOK'
  BY DEF Tick, Advance, Waiting, TypeOK, ClockOK, Stages, InCheck, PastVerify,
         clockVars, handlerVars, guardVars, historyVars
<1>2. VerifiedFresh'
  BY DEF Tick, Advance, Waiting, VerifiedFresh, TypeOK, ClockOK, Stages, InCheck, PastVerify,
         clockVars, handlerVars, guardVars, historyVars
<1>3. ReadingsClose'
  BY DEF Tick, Advance, Waiting, ReadingsClose, TypeOK, ClockOK, Stages, InCheck, PastVerify,
         clockVars, handlerVars, guardVars, historyVars
<1>4. TestHolds'
  BY DEF Tick, Advance, Waiting, TestHolds, TypeOK, ClockOK, Stages, InCheck, PastVerify,
         clockVars, handlerVars, guardVars, historyVars
<1>5. Remembered'
  BY DEF Tick, Advance, Waiting, Remembered, TypeOK, ClockOK, Stages, InCheck, PastVerify,
         clockVars, handlerVars, guardVars, historyVars
<1>6. ForgottenLate'
  BY DEF Tick, Advance, Waiting, ForgottenLate, TypeOK, ClockOK, Stages, InCheck, PastVerify,
         clockVars, handlerVars, guardVars, historyVars
<1>7. Counted'
  BY DEF Tick, Advance, Waiting, Counted, TypeOK, ClockOK, Stages, InCheck, PastVerify,
         clockVars, handlerVars, guardVars, historyVars
<1>8. QED
  BY <1>1, <1>2, <1>3, <1>4, <1>5, <1>6, <1>7

LEMMA ClockStepStep ==
  ASSUME IInv, ClockStep
  PROVE  IInv'
<1> USE ClockAssumption, TtlAssumption, RequestAssumption, TtlCoversWindow
        DEF IInv
<1>1. TypeOK'
  BY DEF ClockStep, StepBack, TypeOK, ClockOK, Stages, InCheck, PastVerify,
         clockVars, handlerVars, guardVars, historyVars
<1>2. VerifiedFresh'
  BY DEF ClockStep, StepBack, VerifiedFresh, TypeOK, ClockOK, Stages, InCheck, PastVerify,
         clockVars, handlerVars, guardVars, historyVars
<1>3. ReadingsClose'
  BY DEF ClockStep, StepBack, ReadingsClose, TypeOK, ClockOK, Stages, InCheck, PastVerify,
         clockVars, handlerVars, guardVars, historyVars
<1>4. TestHolds'
  BY DEF ClockStep, StepBack, TestHolds, TypeOK, ClockOK, Stages, InCheck, PastVerify,
         clockVars, handlerVars, guardVars, historyVars
<1>5. Remembered'
  BY DEF ClockStep, StepBack, Remembered, TypeOK, ClockOK, Stages, InCheck, PastVerify,
         clockVars, handlerVars, guardVars, historyVars
<1>6. ForgottenLate'
  BY DEF ClockStep, StepBack, ForgottenLate, TypeOK, ClockOK, Stages, InCheck, PastVerify,
         clockVars, handlerVars, guardVars, historyVars
<1>7. Counted'
  BY DEF ClockStep, StepBack, Counted, TypeOK, ClockOK, Stages, InCheck, PastVerify,
         clockVars, handlerVars, guardVars, historyVars
<1>8. QED
  BY <1>1, <1>2, <1>3, <1>4, <1>5, <1>6, <1>7

-----------------------------------------------------------------------------
LEMMA Inductive == IInv /\ [Next]_vars => IInv'
<1> SUFFICES ASSUME IInv, [Next]_vars PROVE IInv'
  OBVIOUS
<1>1. CASE Next
  BY <1>1, SignStep, ReceiveStep, VerifyStep, RefuseStep, AbandonStep, EnterStep,
     SeenStep, NotSeenStep, AcceptStep, RestartStep, TickStep, ClockStepStep
  DEF Next, Check
<1>2. CASE UNCHANGED vars
  BY <1>2 DEF vars, clockVars, handlerVars, guardVars, historyVars, IInv, TypeOK,
     ClockOK, VerifiedFresh, ReadingsClose, TestHolds, Remembered,
     ForgottenLate, Counted
<1>3. QED
  BY <1>1, <1>2

LEMMA Invariance == Spec => []IInv
<1>1. QED
  BY Initially, Inductive, PTL DEF Spec

(* The variables keep their types; at most one thread is inside check().   *)
THEOREM TypeCorrect == Spec => []TypeOK
<1>1. IInv => TypeOK
  BY DEF IInv
<1>2. QED
  BY <1>1, Invariance, PTL

(* verify() followed by ReplayGuard.check() under its lock accepts every   *)
(* document at most once, whenever Ttl covers the freshness window.        *)
THEOREM AcceptedOnce == Spec => []NoReplay
<1>1. IInv => NoReplay
  BY DEF IInv, Counted, NoReplay
<1>2. QED
  BY <1>1, Invariance, PTL

(* A request is inside its freshness window at the moment check() reads    *)
(* the clock, up to Gap and Back.                                          *)
THEOREM FreshWhenAccepted == Spec => []AcceptedFresh
<1>1. ASSUME IInv PROVE AcceptedFresh
  <2> SUFFICES ASSUME NEW h \in Handlers, stage[h] \in InCheck
               PROVE  /\ checkNow[h] - doc[h].ts <= MaxAge + Gap
                      /\ doc[h].ts - checkNow[h] <= Skew + Back
    BY DEF AcceptedFresh
  <2>1. doc[h].ts \in Int /\ checkNow[h] \in Int /\ verifiedAt[h] \in Int
    BY <1>1, RequestAssumption DEF IInv, TypeOK, Docs
  <2>2. FreshAt(doc[h].ts, verifiedAt[h])
    BY <1>1 DEF IInv, VerifiedFresh, PastVerify
  <2>3. verifiedAt[h] - Back <= checkNow[h] /\ checkNow[h] <= verifiedAt[h] + Gap
    BY <1>1 DEF IInv, ReadingsClose
  <2>4. QED
    BY <2>1, <2>2, <2>3, RequestAssumption, ClockAssumption DEF FreshAt
<1>2. QED
  BY <1>1, Invariance, PTL

(* One run never accepts a request id twice within Ttl - Back seconds.     *)
THEOREM ReuseSpaced == Spec => IdReuseSpaced
<1> DEFINE Spaced == \A h \in Handlers :
             AcceptRequest(h) /\ doc[h].rid \in DOMAIN acceptedAt
               => checkNow[h] > acceptedAt[doc[h].rid] + Ttl - Back
<1>1. ASSUME IInv, NEW h \in Handlers, AcceptRequest(h),
             doc[h].rid \in DOMAIN acceptedAt
      PROVE  checkNow[h] > acceptedAt[doc[h].rid] + Ttl - Back
  <2>1. checkNow[h] + Back > acceptedAt[doc[h].rid] + Ttl
    BY <1>1 DEF IInv, ForgottenLate, TestHolds, AcceptRequest, InCheck
  <2>2. checkNow[h] \in Int /\ acceptedAt[doc[h].rid] \in Int
    BY <1>1 DEF IInv, TypeOK
  <2>3. QED
    BY <2>1, <2>2, ClockAssumption, TtlAssumption
<1>2. IInv /\ [Next]_vars => [Spaced]_vars
  BY <1>1
<1>3. QED
  BY <1>2, Invariance, PTL DEF Spec, IdReuseSpaced

(* The first acceptance of a document was not long before its timestamp;   *)
(* a restart forgets the acceptance and leaves this true.                  *)
FirstDated == \A d \in DOMAIN firstAt : d.ts <= firstAt[d] + Skew + Back

LEMMA FirstDatedKept ==
  ASSUME IInv, FirstDated, [Next]_vars
  PROVE  FirstDated'
<1>1. ASSUME NEW h \in Handlers, AcceptRequest(h) PROVE FirstDated'
  <2>1. doc[h] \in Docs /\ doc[h].ts \in Int /\ checkNow[h] \in Int
    BY <1>1, RequestAssumption DEF IInv, TypeOK, Docs
  <2>2. verifiedAt[h] \in Int /\ stage[h] = "unseen"
    BY <1>1 DEF IInv, TypeOK, AcceptRequest
  <2>3. doc[h].ts <= verifiedAt[h] + Skew /\ verifiedAt[h] - Back <= checkNow[h]
    BY <1>1, <2>2 DEF IInv, VerifiedFresh, ReadingsClose, FreshAt, PastVerify, InCheck
  <2>4. doc[h].ts <= checkNow[h] + Skew + Back
    BY <2>1, <2>2, <2>3, ClockAssumption, RequestAssumption
  <2>5. QED
    BY <1>1, <2>4 DEF AcceptRequest, FirstDated
<1>2. ASSUME ~ \E h \in Handlers : AcceptRequest(h) PROVE firstAt' = firstAt
  BY <1>2 DEF Next, Check, Tick, ClockStep, Sign, Receive, Verify, Refuse, Abandon,
     EnterCheck, SeenBefore, NotSeen, Restart, vars, historyVars
<1>3. QED
  BY <1>1, <1>2 DEF FirstDated

(* Whatever restarts lie between, no document is accepted later after its  *)
(* first acceptance than its window is wide, Gap and Back included: the    *)
(* first came at most Skew + Back early, a later one within MaxAge + Gap.  *)
THEOREM CrashesWidenNothing == Spec => CrashWindowBounded
<1> DEFINE Bounded == \A h \in Handlers :
             AcceptRequest(h) /\ doc[h] \in DOMAIN firstAt
               => checkNow[h] <= firstAt[doc[h]] + MaxAge + Skew + Gap + Back
<1>1. Init => FirstDated
  BY DEF Init, NothingSeen, FirstDated
<1>2. ASSUME IInv, FirstDated, NEW h \in Handlers, AcceptRequest(h),
             doc[h] \in DOMAIN firstAt
      PROVE  checkNow[h] <= firstAt[doc[h]] + MaxAge + Skew + Gap + Back
  <2>1. /\ doc[h].ts \in Int /\ checkNow[h] \in Int /\ verifiedAt[h] \in Int
        /\ firstAt[doc[h]] \in Int /\ stage[h] = "unseen"
    BY <1>2, RequestAssumption DEF IInv, TypeOK, Docs, AcceptRequest
  <2>2. verifiedAt[h] - doc[h].ts <= MaxAge /\ checkNow[h] <= verifiedAt[h] + Gap
    BY <1>2, <2>1 DEF IInv, VerifiedFresh, ReadingsClose, FreshAt, PastVerify, InCheck
  <2>3. doc[h].ts <= firstAt[doc[h]] + Skew + Back
    BY <1>2 DEF FirstDated
  <2>4. QED
    BY <2>1, <2>2, <2>3, ClockAssumption, RequestAssumption
<1>3. IInv /\ FirstDated /\ [Next]_vars => [Bounded]_vars
  BY <1>2
<1>4. IInv /\ FirstDated /\ [Next]_vars => FirstDated'
  BY FirstDatedKept
<1>5. QED
  BY <1>1, <1>3, <1>4, Invariance, PTL DEF Spec, CrashWindowBounded
=============================================================================
