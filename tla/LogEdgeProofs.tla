---------------------------- MODULE LogEdgeProofs ----------------------------
(***************************************************************************)
(* LogEdge for any number of records, faults and key-file changes.         *)
(***************************************************************************)
EXTENDS LogEdge, TLAPS

(* A record sent to a ready client finds it ready at every later step.     *)
WarmStaysReady ==
  \A r \in Records : warm[r] =>
    /\ Ready
    /\ stage[r] \notin {"new", "fetch", "wire", "key"}
    /\ stage[r] = "sign" => signs[r]
    /\ cause[r] = "none" \/ OwnLoss(r)

IInv == TypeOK /\ HalfReadyExplained /\ WarmStaysReady

LEMMA Initially == Init => IInv
<1> SUFFICES ASSUME Init PROVE IInv
  OBVIOUS
<1>1. TypeOK
  <2>1. strict \in BOOLEAN /\ named \in BOOLEAN /\ enc \in BOOLEAN /\ signing \in BOOLEAN /\ keyFile \in BOOLEAN
    BY LogEdgeAssumption, Zenon DEF Init
  <2>2. /\ stage \in [Records -> Stages] /\ cause \in [Records -> Causes]
        /\ sound \in [Records -> BOOLEAN]
        /\ signs \in [Records -> BOOLEAN] /\ warm \in [Records -> BOOLEAN]
        /\ \A r \in Records : stage[r] \in Failed <=> cause[r] # "none"
    BY DEF Init, Stages, Causes, Failed
  <2>3. blips \in 0..MaxBlips
    BY LogEdgeAssumption DEF Init
  <2> QED
    BY <2>1, <2>2, <2>3, Zenon DEF TypeOK
<1>2. HalfReadyExplained
  BY Zenon DEF Init, HalfReadyExplained
<1>3. WarmStaysReady
  BY DEF Init, WarmStaysReady
<1> QED
  BY <1>1, <1>2, <1>3 DEF IInv

(* What a step of record r may do to the others: nothing.                  *)
LEMMA OthersKept ==
  ASSUME TypeOK, NEW r \in Records, Refuse(r) \/ (\E s \in BOOLEAN : Send(r, s)) \/ Deliver(r),
         NEW q \in Records, q # r
  PROVE  /\ stage'[q] = stage[q] /\ cause'[q] = cause[q]
         /\ signs'[q] = signs[q] /\ warm'[q] = warm[q] /\ sound'[q] = sound[q]
BY DEF TypeOK, Refuse, Send, Deliver, TestEnc, FetchKeys, FetchFails, SetEnc, LoadKey, TakeClient,
       SignAndSeal, Post, PostFails, GoTo, Lose, Unsigned

LEMMA TypesKept == TypeOK /\ [Next]_vars => TypeOK'
<1> SUFFICES ASSUME TypeOK, [Next]_vars PROVE TypeOK'
  OBVIOUS
<1> USE LogEdgeAssumption DEF TypeOK, Stages, Causes, Ended, Failed
<1>1. CASE ChangeKeyFile
  BY <1>1 DEF ChangeKeyFile, clientVars, recordVars
<1>2. ASSUME NEW r \in Records, NEW s \in BOOLEAN, Send(r, s) PROVE TypeOK'
  <2>1. Ready \in BOOLEAN
    BY Zenon DEF Ready
  <2> QED
    BY <1>2, <2>1 DEF Send, GoTo, clientVars
<1>3. ASSUME NEW r \in Records, TestEnc(r) PROVE TypeOK'
  BY <1>3 DEF TestEnc, GoTo, clientVars
<1>4. ASSUME NEW r \in Records, FetchKeys(r) PROVE TypeOK'
  BY <1>4 DEF FetchKeys, GoTo, clientVars
<1>5. ASSUME NEW r \in Records, FetchFails(r) PROVE TypeOK'
  BY <1>5 DEF FetchFails, GoTo, Lose, Blip, AfterFailedFetch, clientVars
<1>6. ASSUME NEW r \in Records, SetEnc(r) PROVE TypeOK'
  BY <1>6 DEF SetEnc, GoTo
<1>7. ASSUME NEW r \in Records, LoadKey(r) PROVE TypeOK'
  BY <1>7 DEF LoadKey, GoTo, Lose, KeepKey
<1>8. ASSUME NEW r \in Records, TakeClient(r) PROVE TypeOK'
  BY <1>8 DEF TakeClient, GoTo, clientVars
<1>9. ASSUME NEW r \in Records, SignAndSeal(r) PROVE TypeOK'
  BY <1>9 DEF SignAndSeal, GoTo, Lose, Unsigned, clientVars
<1>10. ASSUME NEW r \in Records, Post(r) PROVE TypeOK'
  BY <1>10 DEF Post, GoTo, clientVars
<1>11. ASSUME NEW r \in Records, PostFails(r) PROVE TypeOK'
  BY <1>11 DEF PostFails, GoTo, Lose, Blip, clientVars
<1>12. ASSUME NEW r \in Records, Refuse(r) PROVE TypeOK'
  BY <1>12 DEF Refuse, GoTo, clientVars
<1>13. CASE UNCHANGED vars
  BY <1>13 DEF vars, clientVars, recordVars
<1> QED
  BY <1>1, <1>2, <1>3, <1>4, <1>5, <1>6, <1>7, <1>8, <1>9, <1>10, <1>11, <1>12, <1>13
  DEF Next, Deliver

(* A ready client stays ready: no delivery clears _enc or _signing.        *)
LEMMA ReadyKept ==
  ASSUME TypeOK, Next
  PROVE  (enc => enc') /\ (signing => signing') /\ named' = named
BY DEF Next, Refuse, Deliver, Send, TestEnc, FetchKeys, FetchFails, SetEnc, LoadKey, TakeClient, KeepKey,
       AfterFailedFetch, SignAndSeal, Post, PostFails, ChangeKeyFile, clientVars

LEMMA HalfReadyKept == TypeOK /\ HalfReadyExplained /\ [Next]_vars => HalfReadyExplained'
<1> SUFFICES ASSUME TypeOK, HalfReadyExplained, [Next]_vars, enc', ~ signing'
             PROVE  \E q \in Records : stage'[q] = "key" \/ cause'[q] = "key"
  BY DEF HalfReadyExplained
<1>1. CASE ChangeKeyFile \/ UNCHANGED vars
  BY <1>1 DEF ChangeKeyFile, vars, clientVars, recordVars, HalfReadyExplained
<1>2. ASSUME NEW r \in Records, SetEnc(r) PROVE stage'[r] = "key"
  BY <1>2 DEF SetEnc, GoTo, TypeOK
<1>3. ASSUME NEW r \in Records, Refuse(r) \/ (\E s \in BOOLEAN : Send(r, s)) \/ Deliver(r), ~ SetEnc(r)
      PROVE  \E q \in Records : stage'[q] = "key" \/ cause'[q] = "key"
  <2>1. enc /\ ~ signing
    BY <1>3, ReadyKept
    DEF Next, Refuse, Deliver, Send, TestEnc, FetchKeys, FetchFails, LoadKey, TakeClient, AfterFailedFetch,
        SignAndSeal, Post, PostFails, clientVars
  <2>2. PICK q \in Records : stage[q] = "key" \/ cause[q] = "key"
    BY <2>1 DEF HalfReadyExplained
  <2>3. CASE q # r
    BY <1>3, <2>2, <2>3, OthersKept
  <2>4. CASE q = r /\ cause[q] = "key"
    BY <1>3, <2>4
    DEF TypeOK, Refuse, Deliver, Send, TestEnc, FetchKeys, FetchFails, LoadKey, TakeClient, SignAndSeal,
        Post, PostFails, GoTo, Lose, Ended, Failed
  <2>5. CASE q = r /\ stage[q] = "key"
    <3>1. LoadKey(r)
      BY <1>3, <2>5
      DEF Refuse, Deliver, Send, TestEnc, FetchKeys, FetchFails, TakeClient, SignAndSeal, Post, PostFails
    <3>2. cause'[r] = "key"
      BY <2>1, <3>1 DEF LoadKey, KeepKey, Lose, TypeOK
    <3> QED
      BY <3>2
  <2> QED
    BY <2>2, <2>3, <2>4, <2>5
<1> QED
  BY <1>1, <1>2, <1>3 DEF Next, Deliver

LEMMA WarmKept == TypeOK /\ WarmStaysReady /\ [Next]_vars => WarmStaysReady'
<1> SUFFICES ASSUME TypeOK, WarmStaysReady, [Next]_vars,
                    NEW q \in Records, warm'[q]
             PROVE  /\ Ready'
                    /\ stage'[q] \notin {"new", "fetch", "wire", "key"}
                    /\ stage'[q] = "sign" => signs'[q]
                    /\ cause'[q] = "none" \/ OwnLoss(q)'
  BY DEF WarmStaysReady
<1>1. CASE ChangeKeyFile \/ UNCHANGED vars
  BY <1>1 DEF ChangeKeyFile, vars, clientVars, recordVars, WarmStaysReady, Ready, OwnLoss
<1>2. ASSUME NEW r \in Records, Refuse(r) \/ (\E s \in BOOLEAN : Send(r, s)) \/ Deliver(r), q # r
      PROVE  Ready' /\ warm[q] /\ named' = named
  BY <1>2, OthersKept, ReadyKept DEF WarmStaysReady, Ready, Next
<1>3. ASSUME NEW s \in BOOLEAN, Send(q, s) PROVE /\ Ready' /\ stage'[q] = "start" /\ cause'[q] = "none"
  BY <1>3 DEF Send, GoTo, TypeOK, clientVars, Ready, Ended, Failed
<1>4. ASSUME Deliver(q)
      PROVE  /\ Ready'
             /\ stage'[q] \notin {"new", "fetch", "wire", "key"}
             /\ stage'[q] = "sign" => signs'[q]
             /\ cause'[q] = "none" \/ OwnLoss(q)'
  <2>1. warm[q]
    BY <1>4
    DEF Deliver, TestEnc, FetchKeys, FetchFails, SetEnc, LoadKey, TakeClient, SignAndSeal,
        Post, PostFails
  <2>2. Ready' /\ Ready
    BY <1>4, <2>1, ReadyKept DEF WarmStaysReady, Ready, Next
  <2>3. /\ stage[q] \notin {"new", "fetch", "wire", "key"}
        /\ stage[q] = "sign" => signs[q]
        /\ cause[q] = "none" \/ OwnLoss(q)
    BY <2>1 DEF WarmStaysReady
  <2>4. TestEnc(q) \/ TakeClient(q) \/ SignAndSeal(q) \/ Post(q) \/ PostFails(q)
    BY <1>4, <2>3 DEF Deliver, FetchKeys, FetchFails, SetEnc, LoadKey
  <2>5. /\ stage'[q] \notin {"new", "fetch", "wire", "key"}
        /\ stage'[q] = "sign" => signs'[q]
        /\ cause'[q] = "none" \/ OwnLoss(q)'
    <3> USE DEF GoTo, Lose, TypeOK, OwnLoss, clientVars, Ready
    <3>1. CASE TestEnc(q)
      BY <2>2, <2>3, <3>1 DEF TestEnc
    <3>2. CASE TakeClient(q)
      BY <2>2, <2>3, <3>2 DEF TakeClient
    <3>3. CASE SignAndSeal(q)
      <4>1. signs[q] /\ named' = named /\ sound' = sound
        BY <2>3, <3>3 DEF SignAndSeal
      <4>2. GoTo(q, "post") \/ Lose(q, "encode") \/ Lose(q, "sender")
        BY <3>3, <4>1 DEF SignAndSeal
      <4>3. stage'[q] \in {"post", "lost", "raised"}
        BY <4>2
      <4>4. cause'[q] = "none" \/ OwnLoss(q)'
        BY <2>3, <3>3, <4>1 DEF SignAndSeal
      <4> QED
        BY <4>3, <4>4
    <3>4. CASE Post(q) \/ PostFails(q)
      BY <2>3, <3>4 DEF Post, PostFails
    <3> QED
      BY <2>4, <3>1, <3>2, <3>3, <3>4
  <2> QED
    BY <2>2, <2>5
<1>5. ~ Refuse(q)
  BY DEF Refuse, WarmStaysReady
<1> QED
  BY <1>1, <1>2, <1>3, <1>4, <1>5, OthersKept DEF Next, WarmStaysReady, OwnLoss

LEMMA Invariance == Spec => []IInv
<1>1. IInv /\ [Next]_vars => IInv'
  BY TypesKept, HalfReadyKept, WarmKept DEF IInv
<1> QED
  BY <1>1, Initially, PTL DEF Spec

-----------------------------------------------------------------------------
(* Every variable of the client keeps its type.                            *)
THEOREM TypeCorrect == Spec => []TypeOK
BY Invariance, PTL DEF IInv

(* A client with an encryptor but no signing key is being completed by one *)
(* delivery, or was given up by one (_ensure()).                           *)
THEOREM HalfReadyHasCause == Spec => []HalfReadyExplained
BY Invariance, PTL DEF IInv

(* A record sent to a ready client is lost to nothing a later delivery or  *)
(* an earlier one does to the client: to its POST, its own content or a    *)
(* missing sender_id alone.                                                *)
THEOREM WarmClientSpares == Spec => []WarmSparedReadiness
<1>1. IInv => WarmSparedReadiness
  BY DEF IInv, TypeOK, WarmStaysReady, WarmSparedReadiness, Failed
<1> QED
  BY <1>1, Invariance, PTL
=============================================================================
