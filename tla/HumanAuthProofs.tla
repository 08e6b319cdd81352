--------------------------- MODULE HumanAuthProofs ---------------------------
(***************************************************************************)
(* HumanAuth for any servers, threads, users, proofs, windows and clock    *)
(* steps that meet its assumptions.                                        *)
(***************************************************************************)
EXTENDS HumanAuth, TLAPS

ProofOf(h) == made[proof[h]]

(* A call past a check read the clock lately, and holds what it checked.   *)
CallsOK ==
  \A h \in Handlers :
    /\ stage[h] \in {"proof", "jti", "bound"} => at[h] <= peak
    /\ stage[h] \in {"proof", "jti"} => clock <= at[h] + Gap
    /\ stage[h] \in {"jti", "bound"} => ForTarget(ProofOf(h), h)
    /\ stage[h] = "jti" => Timely(ProofOf(h), at[h])

(* Server l acted upon proof i, or has recorded its id in order to.        *)
Holds(h, l, i) == Leg(h) = l /\ stage[h] = "bound" /\ proof[h] = i
Spent(l, i) ==
  \/ \E u \in Users : acts[<<l, i, u>>] > 0
  \/ \E h \in Handlers : Holds(h, l, i)

(* The guard knows the proof's id for as long as a reading can find the    *)
(* proof timely; or none ever will, and no call that did is on its way.    *)
Known(l, i) ==
  /\ made[i].jti \in DOMAIN seen[l]
  /\ seen[l][made[i].jti] >= made[i].iat - Skew - Back + Ttl

Over(l, i) ==
  /\ peak > made[i].iat + MaxAge + Back
  /\ \A h \in Handlers : Leg(h) = l /\ stage[h] = "jti" => proof[h] # i

SpentKnown ==
  \A l \in Legs, i \in DOMAIN made : Spent(l, i) => Known(l, i) \/ Over(l, i)

(* A call about to act upon a proof is the only one, and the first.        *)
Alone ==
  \A h \in Handlers : stage[h] = "bound" =>
    /\ \A u \in Users : acts[<<Leg(h), proof[h], u>>] = 0
    /\ \A g \in Handlers :
         stage[g] = "bound" /\ Leg(g) = Leg(h) /\ proof[g] = proof[h] => g = h

IInv == TypeOK /\ CallsOK /\ SpentKnown /\ Alone /\ OneActPerProof

-----------------------------------------------------------------------------
LEMMA Covered ==
  /\ Larger(Back, Gap) \in Int
  /\ Larger(Back, Gap) >= Back /\ Larger(Back, Gap) >= Gap
  /\ Ttl >= MaxAge + Skew + Back + Larger(Back, Gap)
BY ClockAssumption, HumanAssumption, TtlCoversProof DEF Larger

LEMMA LegTyped == \A h \in Handlers : Leg(h) \in Legs
BY DEF Handlers, Leg

LEMMA SlotsTyped == NoToken \in Tokens /\ NoProof \in Proofs
BY HumanAssumption DEF NoToken, NoProof, Tokens

LEMMA SpentMade ==
  ASSUME TypeOK, OneActPerProof, NEW l \in Legs, NEW i \in Proofs, Spent(l, i)
  PROVE  i \in DOMAIN made
<1>1. CASE \E u \in Users : acts[<<l, i, u>>] > 0
  BY <1>1 DEF OneActPerProof
<1>2. CASE \E h \in Handlers : Holds(h, l, i)
  BY <1>2 DEF Holds, TypeOK
<1> QED
  BY <1>1, <1>2 DEF Spent

LEMMA Initially == Init => IInv
<1> SUFFICES ASSUME Init PROVE IInv
  OBVIOUS
<1> USE ClockAssumption DEF Init, ClockInit, NothingSeen
<1>1. TypeOK
  BY SlotsTyped DEF TypeOK, ClockOK, Stages
<1>2. CallsOK /\ Alone /\ OneActPerProof
  BY DEF CallsOK, Alone, OneActPerProof
<1>3. SpentKnown
  BY DEF SpentKnown
<1> QED
  BY <1>1, <1>2, <1>3 DEF IInv

-----------------------------------------------------------------------------
(* Steps of the realm and the clients: tokens and proofs are only added.   *)
Elsewhere ==
  \/ \E u \in Users : Approve(u) \/ Demote(u) \/ IssueToken(u)
  \/ \E i \in Proofs, p \in [key : Users \cup OtherKeys, leg : Legs,
                            token : issued, jti : Jtis, iat : Times] :
       MakeProof(i, p)

LEMMA ElsewhereStep ==
  ASSUME IInv, Elsewhere
  PROVE  IInv'
<1> USE DEF IInv
<1>1. UNCHANGED <<clockVars, callVars, seen, acts>>
  BY DEF Elsewhere, Approve, Demote, IssueToken, MakeProof
<1>2. /\ issued \subseteq issued' /\ issued' \subseteq Tokens
      /\ active' \subseteq Users /\ DOMAIN demotedAt' \subseteq Users
      /\ \A u \in DOMAIN demotedAt' : demotedAt'[u] \in Int
  <2>1. CASE \E u \in Users : Approve(u)
    BY <2>1 DEF Approve, TypeOK
  <2>2. CASE \E u \in Users : Demote(u)
    BY <2>2 DEF Demote, TypeOK, ClockOK
  <2>3. CASE \E u \in Users : IssueToken(u)
    <3> PICK u \in Users : IssueToken(u)
      BY <2>3
    <3>1. [user |-> u, active |-> u \in active, exp |-> clock + TokenLife] \in Tokens
      BY HumanAssumption DEF Tokens, TypeOK, ClockOK
    <3> QED
      BY <3>1 DEF IssueToken, TypeOK
  <2>4. CASE \E i \in Proofs, p \in [key : Users \cup OtherKeys, leg : Legs,
                            token : issued, jti : Jtis, iat : Times] :
               MakeProof(i, p)
    BY <2>4 DEF MakeProof, realmVars, TypeOK
  <2> QED
    BY <2>1, <2>2, <2>3, <2>4 DEF Elsewhere
<1>3. /\ DOMAIN made \subseteq DOMAIN made' /\ DOMAIN made' \subseteq Proofs
      /\ \A i \in DOMAIN made : made'[i] = made[i]
      /\ \A i \in DOMAIN made' : made'[i] \in ProofDocs
  <2>1. CASE UNCHANGED made
    BY <2>1 DEF TypeOK
  <2>2. CASE \E i \in Proofs, p \in [key : Users \cup OtherKeys, leg : Legs,
                            token : issued, jti : Jtis, iat : Times] :
               MakeProof(i, p)
    BY <2>2 DEF MakeProof, TypeOK, ProofDocs
  <2> QED
    BY <2>1, <2>2 DEF Elsewhere, Approve, Demote, IssueToken
<1>4. TypeOK'
  BY <1>1, <1>2, <1>3 DEF TypeOK, ClockOK, clockVars, callVars
<1>5. CallsOK'
  BY <1>1, <1>3 DEF CallsOK, ProofOf, TypeOK, clockVars, callVars
<1>6. Alone'
  BY <1>1 DEF Alone, Holds, clockVars, callVars
<1>7. OneActPerProof'
  BY <1>1, <1>3 DEF OneActPerProof
<1>8. SpentKnown'
  <2> SUFFICES ASSUME NEW l \in Legs, NEW i \in DOMAIN made', Spent(l, i)'
               PROVE  (Known(l, i) \/ Over(l, i))'
    BY DEF SpentKnown
  <2>1. Spent(l, i)
    BY <1>1 DEF Spent, Holds, callVars
  <2>2. i \in DOMAIN made
    BY <2>1, <1>3, SpentMade
  <2> QED
    BY <1>1, <1>3, <2>1, <2>2 DEF SpentKnown, Known, Over, clockVars, callVars
<1> QED
  BY <1>4, <1>5, <1>6, <1>7, <1>8

-----------------------------------------------------------------------------
(* The clock moves.                                                        *)
LEMMA ClockMoves ==
  ASSUME IInv, Tick \/ ClockStep
  PROVE  IInv'
<1> USE ClockAssumption, HumanAssumption DEF IInv
<1>1. UNCHANGED <<realmVars, made, callVars, seen, acts>>
  BY DEF Tick, ClockStep
<1>2. ClockOK' /\ peak <= peak'
  BY DEF Tick, ClockStep, Advance, StepBack, TypeOK, ClockOK
<1>3. \A h \in Handlers : stage[h] \in {"proof", "jti"} => clock' <= at[h] + Gap
  BY DEF Tick, ClockStep, Advance, StepBack, Waiting, TypeOK, ClockOK, CallsOK
<1>4. TypeOK'
  BY <1>1, <1>2 DEF TypeOK, realmVars, callVars
<1>5. CallsOK'
  BY <1>1, <1>2, <1>3 DEF CallsOK, ProofOf, TypeOK, ClockOK, callVars
<1>6. Alone' /\ OneActPerProof'
  BY <1>1 DEF Alone, Holds, OneActPerProof, callVars
<1>7. SpentKnown'
  <2> SUFFICES ASSUME NEW l \in Legs, NEW i \in DOMAIN made', Spent(l, i)'
               PROVE  (Known(l, i) \/ Over(l, i))'
    BY DEF SpentKnown
  <2>1. Spent(l, i) /\ i \in DOMAIN made /\ made[i].iat \in Int
    BY <1>1 DEF Spent, Holds, callVars, TypeOK, ProofDocs
  <2> QED
    BY <1>1, <1>2, <2>1 DEF SpentKnown, Known, Over, TypeOK, ClockOK, callVars
<1> QED
  BY <1>4, <1>5, <1>6, <1>7

-----------------------------------------------------------------------------
(* A call takes a step: the others, the realm and the clock are left.      *)
Moves(h) ==
  /\ UNCHANGED <<clockVars, realmVars, made>>
  /\ \A g \in Handlers \ {h} :
       stage'[g] = stage[g] /\ token'[g] = token[g] /\ proof'[g] = proof[g]
         /\ at'[g] = at[g]

LEMMA LeaveMoves ==
  ASSUME TypeOK, NEW h \in Handlers, Leave(h), UNCHANGED <<clockVars, realmVars, made>>
  PROVE  /\ Moves(h) /\ stage'[h] = "idle" /\ at'[h] = 0
         /\ stage' \in [Handlers -> Stages] /\ token' \in [Handlers -> Tokens]
         /\ proof' \in [Handlers -> Proofs] /\ at' \in [Handlers -> Int]
BY SlotsTyped DEF Leave, Moves, TypeOK, Stages

LEMMA PassMoves ==
  ASSUME TypeOK, NEW h \in Handlers, NEW next \in Stages, Pass(h, next),
         UNCHANGED <<clockVars, realmVars, made>>
  PROVE  /\ Moves(h) /\ stage'[h] = next /\ at'[h] = clock
         /\ token'[h] = token[h] /\ proof'[h] = proof[h]
         /\ stage' \in [Handlers -> Stages] /\ token' \in [Handlers -> Tokens]
         /\ proof' \in [Handlers -> Proofs] /\ at' \in [Handlers -> Int]
BY DEF Pass, Moves, TypeOK, ClockOK

(* A step of one call that neither records an id nor acts.                 *)
LEMMA QuietCall ==
  ASSUME IInv, NEW h \in Handlers, Moves(h), TypeOK', UNCHANGED <<seen, acts>>,
         stage'[h] # "bound",
         stage'[h] \in {"proof", "jti"} => at'[h] = clock,
         stage'[h] = "jti" => /\ ForTarget(made[proof'[h]], h)
                              /\ Timely(made[proof'[h]], clock)
  PROVE  IInv'
<1> USE ClockAssumption, HumanAssumption DEF IInv
<1>1. CallsOK'
  BY DEF CallsOK, ProofOf, Moves, clockVars, TypeOK, ClockOK
<1>2. Alone'
  BY DEF Alone, Holds, Moves
<1>3. OneActPerProof'
  BY DEF OneActPerProof, Moves
<1>4. SpentKnown'
  <2> SUFFICES ASSUME NEW l \in Legs, NEW i \in DOMAIN made', Spent(l, i)'
               PROVE  (Known(l, i) \/ Over(l, i))'
    BY DEF SpentKnown
  <2>1. i \in DOMAIN made /\ made[i].iat \in Int
    BY DEF Moves, TypeOK, ProofDocs
  <2>2. Spent(l, i)
    BY DEF Spent, Holds, Moves
  <2>3. CASE Known(l, i)
    BY <2>3 DEF Known, Moves
  <2>4. CASE Over(l, i)
    <3>1. stage'[h] = "jti" => proof'[h] # i
      BY <2>1, <2>4 DEF Over, Timely, TypeOK, ClockOK
    <3> QED
      BY <2>4, <3>1 DEF Over, Moves, clockVars
  <2> QED
    BY <2>1, <2>2, <2>3, <2>4 DEF SpentKnown
<1> QED
  BY <1>1, <1>2, <1>3, <1>4

LEMMA ReceiveStep ==
  ASSUME IInv, NEW h \in Handlers, NEW t \in issued, NEW i \in DOMAIN made,
         Receive(h, t, i)
  PROVE  IInv'
<1> USE DEF IInv
<1>1. Moves(h) /\ stage'[h] = "token" /\ UNCHANGED <<seen, acts>>
  BY DEF Receive, Moves, TypeOK
<1>2. TypeOK'
  BY DEF Receive, TypeOK, ClockOK, Stages, clockVars, realmVars
<1> QED
  BY <1>1, <1>2, QuietCall

(* Leaving without having acted.                                           *)
LEMMA LeaveStep ==
  ASSUME IInv, NEW h \in Handlers, Leave(h),
         UNCHANGED <<clockVars, realmVars, made, seen, acts>>
  PROVE  IInv'
<1> USE DEF IInv
<1>1. TypeOK'
  BY LeaveMoves DEF Moves, TypeOK, ClockOK, clockVars, realmVars
<1> QED
  BY <1>1, LeaveMoves, QuietCall

LEMMA CheckTokenStep ==
  ASSUME IInv, NEW h \in Handlers, CheckToken(h)
  PROVE  IInv'
<1> USE DEF IInv
<1>1. UNCHANGED <<clockVars, realmVars, made, seen, acts>>
  BY DEF CheckToken
<1>2. CASE Pass(h, "proof")
  <2>1. "proof" \in Stages
    BY DEF Stages
  <2>2. TypeOK'
    BY <1>1, <1>2, <2>1, PassMoves DEF CheckToken, Moves, TypeOK, ClockOK,
       clockVars, realmVars
  <2> QED
    BY <1>1, <1>2, <2>1, <2>2, PassMoves, QuietCall
<1>3. CASE Leave(h)
  BY <1>1, <1>3, LeaveStep
<1> QED
  BY <1>2, <1>3 DEF CheckToken

LEMMA CheckProofStep ==
  ASSUME IInv, NEW h \in Handlers, CheckProof(h)
  PROVE  IInv'
<1> USE DEF IInv
<1>1. UNCHANGED <<clockVars, realmVars, made, seen, acts>>
  BY DEF CheckProof
<1>2. CASE /\ Pass(h, "jti") /\ ForTarget(ProofOf(h), h)
           /\ Timely(ProofOf(h), clock)
  <2>1. "jti" \in Stages
    BY DEF Stages
  <2>2. TypeOK'
    BY <1>1, <1>2, <2>1, PassMoves DEF CheckProof, Moves, TypeOK, ClockOK,
       clockVars, realmVars
  <2> QED
    BY <1>1, <1>2, <2>1, <2>2, PassMoves, QuietCall DEF ProofOf
<1>3. CASE Leave(h)
  BY <1>1, <1>3, LeaveStep
<1> QED
  BY <1>2, <1>3 DEF CheckProof, ProofOf

-----------------------------------------------------------------------------
LEMMA PruneKeeps ==
  ASSUME NEW table, NEW now \in Int
  PROVE  /\ DOMAIN Prune(table, now) = {j \in DOMAIN table : table[j] >= now}
         /\ \A j \in DOMAIN Prune(table, now) : Prune(table, now)[j] = table[j]
BY DEF Prune

(* An id that check() drops belonged to a proof no reading finds timely    *)
(* any more, and no call that still found it timely is on its way.         *)
LEMMA DroppedIsOver ==
  ASSUME IInv, NEW l \in Legs, NEW i \in DOMAIN made, Known(l, i),
         made[i].jti \notin DOMAIN Prune(seen[l], clock)
  PROVE  Over(l, i)
<1> USE ClockAssumption, TtlAssumption, HumanAssumption DEF IInv
<1>1. /\ clock \in Int /\ peak \in Int /\ clock <= peak
      /\ made[i].iat \in Int /\ seen[l][made[i].jti] \in Int
  BY DEF TypeOK, ClockOK, ProofDocs, Known
<1>2. seen[l][made[i].jti] < clock
  <2>1. made[i].jti \in DOMAIN seen[l]
    BY DEF Known
  <2>2. DOMAIN Prune(seen[l], clock) = {j \in DOMAIN seen[l] : seen[l][j] >= clock}
    BY <1>1, PruneKeeps
  <2>3. ~ (seen[l][made[i].jti] >= clock)
    BY <2>1, <2>2
  <2> QED
    BY <1>1, <2>3
<1>3. clock > made[i].iat + MaxAge + Larger(Back, Gap)
  BY <1>1, <1>2, Covered DEF Known
<1>4. peak > made[i].iat + MaxAge + Back
  BY <1>1, <1>3, Covered
<1>5. ASSUME NEW h \in Handlers, stage[h] = "jti", proof[h] = i
      PROVE  FALSE
  <2>1. at[h] \in Int /\ clock <= at[h] + Gap /\ at[h] - made[i].iat <= MaxAge
    BY <1>5 DEF CallsOK, ProofOf, Timely, TypeOK
  <2> QED
    BY <1>1, <1>3, <2>1, Covered
<1> QED
  BY <1>4, <1>5 DEF Over

(* A call that comes to the guard with a proof already spent finds its id. *)
LEMMA SpentIsSeen ==
  ASSUME IInv, NEW h \in Handlers, stage[h] = "jti", Spent(Leg(h), proof[h])
  PROVE  ProofOf(h).jti \in DOMAIN Prune(seen[Leg(h)], clock)
<1> USE DEF IInv
<1>1. Leg(h) \in Legs /\ proof[h] \in DOMAIN made
  BY LegTyped DEF TypeOK
<1>2. ~ Over(Leg(h), proof[h])
  BY DEF Over
<1> QED
  BY <1>1, <1>2, DroppedIsOver DEF SpentKnown, ProofOf

(* check() with its new table, for the proofs spent before.                *)
LEMMA CheckKeepsSpent ==
  ASSUME IInv, NEW h \in Handlers, Moves(h), stage'[h] \notin {"proof", "jti"},
         NEW table, seen' = [seen EXCEPT ![Leg(h)] = table],
         \A j \in DOMAIN Prune(seen[Leg(h)], clock) :
           j \in DOMAIN table /\ table[j] = Prune(seen[Leg(h)], clock)[j],
         NEW l \in Legs, NEW i \in DOMAIN made, Spent(l, i)
  PROVE  (Known(l, i) \/ Over(l, i))'
<1> USE DEF IInv
<1>1. ASSUME Over(l, i)
      PROVE  Over(l, i)'
  BY <1>1 DEF Over, Moves, clockVars
<1>2. CASE Over(l, i)
  BY <1>1, <1>2
<1>3. CASE Known(l, i) /\ l # Leg(h)
  BY <1>3 DEF Known, Moves, TypeOK
<1>4. CASE Known(l, i) /\ l = Leg(h)
  <2>1. CASE made[i].jti \notin DOMAIN Prune(seen[l], clock)
    BY <1>1, <1>4, <2>1, DroppedIsOver
  <2>2. CASE made[i].jti \in DOMAIN Prune(seen[l], clock)
    <3>1. clock \in Int
      BY DEF TypeOK, ClockOK
    <3>2. seen'[l] = table /\ made' = made
      BY <1>4 DEF TypeOK, Moves
    <3>3. Prune(seen[l], clock)[made[i].jti] = seen[l][made[i].jti]
      BY <2>2, <3>1, PruneKeeps
    <3>4. /\ made[i].jti \in DOMAIN table
          /\ table[made[i].jti] = seen[l][made[i].jti]
      BY <1>4, <2>2, <3>3
    <3>5. Known(l, i)'
      BY <1>4, <3>2, <3>4 DEF Known
    <3> QED
      BY <3>5
  <2> QED
    BY <2>1, <2>2
<1> QED
  BY <1>2, <1>3, <1>4 DEF SpentKnown

LEMMA CheckJtiStep ==
  ASSUME IInv, NEW h \in Handlers, CheckJti(h)
  PROVE  IInv'
<1> USE DEF IInv
<1> DEFINE j == made[proof[h]].jti
           live == Prune(seen[Leg(h)], clock)
           table == Record(live, j, clock)
<1>1. /\ UNCHANGED <<clockVars, realmVars, made, acts>> /\ stage[h] = "jti"
      /\ Leg(h) \in Legs /\ proof[h] \in DOMAIN made
      /\ made[proof[h]] \in ProofDocs /\ j \in Jtis /\ clock \in Int
  BY LegTyped DEF CheckJti, TypeOK, ClockOK, ProofDocs
<1>2. /\ DOMAIN live \subseteq Jtis
      /\ \A k \in DOMAIN live : live[k] \in Int
  <2>1. /\ DOMAIN seen[Leg(h)] \subseteq Jtis
        /\ \A k \in DOMAIN seen[Leg(h)] : seen[Leg(h)][k] \in Int
    BY <1>1 DEF TypeOK
  <2>2. /\ DOMAIN live = {k \in DOMAIN seen[Leg(h)] : seen[Leg(h)][k] >= clock}
        /\ \A k \in DOMAIN live : live[k] = seen[Leg(h)][k]
    BY <1>1, PruneKeeps
  <2> HIDE DEF live
  <2> QED
    BY <2>1, <2>2
<1>3. OneActPerProof'
  BY <1>1 DEF OneActPerProof
<1>4. CASE j \in DOMAIN live /\ seen' = [seen EXCEPT ![Leg(h)] = live] /\ Leave(h)
  <2>1. Moves(h) /\ stage'[h] = "idle"
    BY <1>1, <1>4, LeaveMoves
  <2>2. TypeOK'
    <3>1. /\ DOMAIN seen' = Legs
          /\ \A m \in Legs : /\ DOMAIN seen'[m] \subseteq Jtis
                              /\ \A k \in DOMAIN seen'[m] : seen'[m][k] \in Int
      BY <1>2, <1>4 DEF TypeOK
    <3> QED
      BY <1>1, <1>4, <3>1, LeaveMoves
         DEF Moves, TypeOK, ClockOK, clockVars, realmVars
  <2>3. CallsOK'
    BY <2>1 DEF CallsOK, ProofOf, Moves, clockVars
  <2>4. Alone'
    BY <1>1, <2>1 DEF Alone, Moves
  <2>5. SpentKnown'
    <3> SUFFICES ASSUME NEW m \in Legs, NEW i \in DOMAIN made', Spent(m, i)'
                 PROVE  (Known(m, i) \/ Over(m, i))'
      BY DEF SpentKnown
    <3>1. i \in DOMAIN made /\ Spent(m, i)
      BY <1>1, <2>1 DEF Spent, Holds, Moves
    <3> HIDE DEF live
    <3>2. stage'[h] \notin {"proof", "jti"}
      BY <2>1
    <3>3. \A k \in DOMAIN live : k \in DOMAIN live /\ live[k] = live[k]
      OBVIOUS
    <3> QED
      BY <1>4, <2>1, <3>1, <3>2, <3>3, CheckKeepsSpent DEF live
  <2> QED
    BY <1>3, <2>2, <2>3, <2>4, <2>5
<1>5. CASE /\ j \notin DOMAIN live /\ Pass(h, "bound")
           /\ seen' = [seen EXCEPT ![Leg(h)] = table]
  <2>1. /\ Moves(h) /\ stage'[h] = "bound" /\ at'[h] = clock
        /\ token'[h] = token[h] /\ proof'[h] = proof[h]
    BY <1>1, <1>5, PassMoves DEF Stages
  <2>2. /\ DOMAIN table = DOMAIN live \cup {j} /\ table[j] = clock + Ttl
        /\ \A k \in DOMAIN live : table[k] = live[k]
    <3>1. clock \in Int /\ j \notin DOMAIN live
      BY <1>1, <1>5
    <3> HIDE DEF live, j
    <3>2. /\ DOMAIN table = DOMAIN live \cup {j} /\ table[j] = clock + Ttl
          /\ \A k \in DOMAIN live \ {j} : table[k] = live[k]
      BY <3>1 DEF Record, Expiry
    <3> HIDE DEF table
    <3> QED
      BY <3>1, <3>2
  <2>3. TypeOK'
    <3>1. DOMAIN table \subseteq Jtis /\ \A k \in DOMAIN table : table[k] \in Int
      <4> HIDE DEF live, j, table
      <4> QED
        BY <1>1, <1>2, <2>2, TtlAssumption
    <3>2. \A g \in Handlers :
            IF stage'[g] = "idle" THEN at'[g] = 0
            ELSE token'[g] \in issued' /\ proof'[g] \in DOMAIN made'
      BY <1>1, <1>5, <2>1 DEF Moves, TypeOK, realmVars
    <3>3. /\ DOMAIN seen' = Legs
          /\ \A m \in Legs : /\ DOMAIN seen'[m] \subseteq Jtis
                              /\ \A k \in DOMAIN seen'[m] : seen'[m][k] \in Int
      <4> HIDE DEF table
      <4> QED
        BY <1>1, <1>5, <3>1 DEF TypeOK
    <3>4. "bound" \in Stages
      BY DEF Stages
    <3> QED
      BY <1>1, <1>5, <3>2, <3>3, <3>4, PassMoves
         DEF Moves, TypeOK, ClockOK, clockVars, realmVars
  <2>4. CallsOK'
    <3>1. ForTarget(made[proof[h]], h)
      BY <1>1 DEF CallsOK, ProofOf
    <3> QED
      BY <1>1, <2>1, <3>1 DEF CallsOK, ProofOf, Moves, clockVars, TypeOK, ClockOK
  <2>5. ~ Spent(Leg(h), proof[h])
    BY <1>1, <1>5, SpentIsSeen DEF ProofOf
  <2>6. Alone'
    <3>1. \A u \in Users : acts[<<Leg(h), proof[h], u>>] = 0
      BY <1>1, <2>5 DEF Spent, TypeOK
    <3>2. \A g \in Handlers \ {h} :
            ~ (stage[g] = "bound" /\ Leg(g) = Leg(h) /\ proof[g] = proof[h])
      BY <2>5 DEF Spent, Holds
    <3> QED
      BY <1>1, <2>1, <3>1, <3>2 DEF Alone, Moves
  <2>7. SpentKnown'
    <3> SUFFICES ASSUME NEW m \in Legs, NEW i \in DOMAIN made', Spent(m, i)'
                 PROVE  (Known(m, i) \/ Over(m, i))'
      BY DEF SpentKnown
    <3>1. i \in DOMAIN made
      BY <1>1
    <3>2. CASE Spent(m, i)
      <4> HIDE DEF table, live
      <4>1. stage'[h] \notin {"proof", "jti"}
        BY <2>1
      <4>2. \A k \in DOMAIN live : k \in DOMAIN table /\ table[k] = live[k]
        BY <2>2
      <4> QED
        BY <1>5, <2>1, <3>1, <3>2, <4>1, <4>2, CheckKeepsSpent DEF live
    <3>3. CASE m = Leg(h) /\ i = proof[h]
      <4>1. /\ made[i].iat \in Int /\ at[h] \in Int /\ peak \in Int
            /\ clock >= peak - Back /\ at[h] <= peak
            /\ made[i].iat <= at[h] + Skew
        <5>1. made[i].iat \in Int
          BY <3>1, HumanAssumption DEF TypeOK, ProofDocs
        <5>2. at[h] <= peak /\ made[i].iat <= at[h] + Skew
          BY <1>1, <3>3 DEF CallsOK, ProofOf, Timely
        <5> QED
          BY <5>1, <5>2 DEF TypeOK, ClockOK
      <4>3. clock + Ttl >= made[i].iat - Skew - Back + Ttl
        BY <1>1, <4>1, ClockAssumption, TtlAssumption, HumanAssumption
      <4>2. seen'[m] = table
        BY <1>1, <1>5, <3>3 DEF TypeOK
      <4> HIDE DEF table
      <4> QED
        BY <1>1, <2>2, <3>3, <4>2, <4>3 DEF Known
    <3>4. Spent(m, i) \/ (m = Leg(h) /\ i = proof[h])
      BY <1>1, <2>1 DEF Spent, Holds, Moves
    <3> QED
      BY <3>2, <3>3, <3>4
  <2> QED
    BY <1>3, <2>3, <2>4, <2>6, <2>7
<1> QED
  BY <1>4, <1>5 DEF CheckJti

-----------------------------------------------------------------------------
LEMMA ActStep ==
  ASSUME IInv, NEW h \in Handlers, Act(h)
  PROVE  IInv'
<1> USE DEF IInv
<1> DEFINE a == <<Leg(h), proof[h], token[h].user>>
<1>1. /\ UNCHANGED <<clockVars, realmVars, made, seen>> /\ stage[h] = "bound"
      /\ Entitled(h) /\ Leave(h) /\ acts' = [acts EXCEPT ![a] = @ + 1]
      /\ Leg(h) \in Legs /\ proof[h] \in DOMAIN made /\ proof[h] \in Proofs
      /\ token[h].user \in Users
  BY LegTyped DEF Act, TypeOK, Tokens
<1>2. Moves(h) /\ stage'[h] = "idle"
  BY <1>1, LeaveMoves
<1>3. a \in Legs \X Proofs \X Users /\ acts \in [Legs \X Proofs \X Users -> Nat]
  BY <1>1 DEF TypeOK
<1>4. acts[a] = 0 /\ acts'[a] = 1
  <2>1. acts[a] = 0
    BY <1>1 DEF Alone
  <2> HIDE DEF a
  <2> QED
    BY <1>1, <1>3, <2>1
<1>5. /\ acts' \in [Legs \X Proofs \X Users -> Nat]
      /\ \A b \in Legs \X Proofs \X Users : b # a => acts'[b] = acts[b]
  <2> HIDE DEF a
  <2> QED
    BY <1>1, <1>3
<1>6. TypeOK'
  BY <1>1, <1>5, LeaveMoves DEF Moves, TypeOK, ClockOK, clockVars, realmVars
<1>7. CallsOK'
  BY <1>1, <1>2 DEF CallsOK, ProofOf, Moves, clockVars
<1>8. Alone'
  <2> SUFFICES ASSUME NEW g \in Handlers, stage'[g] = "bound"
               PROVE  /\ \A u \in Users : acts'[<<Leg(g), proof'[g], u>>] = 0
                      /\ \A f \in Handlers :
                           stage'[f] = "bound" /\ Leg(f) = Leg(g) /\ proof'[f] = proof'[g]
                             => f = g
    BY DEF Alone
  <2>1. g # h /\ stage[g] = "bound" /\ proof'[g] = proof[g] /\ Leg(g) \in Legs
        /\ proof[g] \in Proofs
    BY <1>2, LegTyped DEF Moves, TypeOK
  <2>2. ~ (Leg(g) = Leg(h) /\ proof[g] = proof[h])
    BY <1>1, <2>1 DEF Alone
  <2>3. \A u \in Users : acts'[<<Leg(g), proof[g], u>>] = acts[<<Leg(g), proof[g], u>>]
    BY <1>5, <2>1, <2>2
  <2>4. \A u \in Users : acts[<<Leg(g), proof[g], u>>] = 0
    BY <2>1 DEF Alone
  <2>5. \A f \in Handlers :
          stage'[f] = "bound" /\ Leg(f) = Leg(g) /\ proof'[f] = proof'[g] => f = g
    BY <1>2, <2>1 DEF Alone, Moves
  <2> QED
    BY <2>1, <2>3, <2>4, <2>5
<1>9. OneActPerProof'
  <2> SUFFICES ASSUME NEW l \in Legs, NEW i \in Proofs, NEW u \in Users,
                      acts'[<<l, i, u>>] > 0
               PROVE  /\ acts'[<<l, i, u>>] = 1
                      /\ i \in DOMAIN made' /\ made'[i].leg = l /\ made'[i].key = u
    BY DEF OneActPerProof
  <2>1. CASE <<l, i, u>> = a
    <3>1. made[i].leg = l /\ made[i].key = u
      BY <1>1, <2>1 DEF CallsOK, ProofOf, ForTarget, Entitled, HeldBy
    <3> QED
      BY <1>1, <1>4, <2>1, <3>1
  <2>2. CASE <<l, i, u>> # a
    BY <1>1, <1>5, <2>2 DEF OneActPerProof
  <2> QED
    BY <2>1, <2>2
<1>10. SpentKnown'
  <2> SUFFICES ASSUME NEW l \in Legs, NEW i \in DOMAIN made', Spent(l, i)'
               PROVE  (Known(l, i) \/ Over(l, i))'
    BY DEF SpentKnown
  <2>1. i \in DOMAIN made /\ i \in Proofs
    BY <1>1 DEF TypeOK
  <2>2. Spent(l, i)
    <3>1. CASE l = Leg(h) /\ i = proof[h]
      BY <1>1, <3>1 DEF Spent, Holds
    <3>2. CASE ~ (l = Leg(h) /\ i = proof[h])
      <4>1. \A u \in Users : acts'[<<l, i, u>>] = acts[<<l, i, u>>]
        BY <1>5, <2>1, <3>2
      <4> QED
        BY <1>2, <4>1 DEF Spent, Holds, Moves
    <3> QED
      BY <3>1, <3>2
  <2> QED
    BY <1>1, <1>2, <2>1, <2>2 DEF SpentKnown, Known, Over, Moves, clockVars
<1> QED
  BY <1>6, <1>7, <1>8, <1>9, <1>10

LEMMA RefuseStep ==
  ASSUME IInv, NEW h \in Handlers, RefuseLate(h)
  PROVE  IInv'
BY LeaveStep DEF RefuseLate

(* A restart forgets the ids, the calls and what the run did, all at once. *)
LEMMA RestartStep ==
  ASSUME IInv, NEW r \in Legs, Restart(r)
  PROVE  IInv'
<1> USE DEF IInv
<1>1. UNCHANGED <<clockVars, realmVars, made>>
  BY DEF Restart
<1>2. /\ \A h \in Handlers : Leg(h) = r => stage'[h] = "idle" /\ at'[h] = 0
      /\ \A h \in Handlers : Leg(h) # r =>
           /\ stage'[h] = stage[h] /\ token'[h] = token[h]
           /\ proof'[h] = proof[h] /\ at'[h] = at[h]
  BY DEF Restart
<1>3. \A l \in Legs, i \in Proofs, u \in Users :
        acts'[<<l, i, u>>] = IF l = r THEN 0 ELSE acts[<<l, i, u>>]
  BY DEF Restart
<1>4. /\ DOMAIN seen' = Legs /\ seen'[r] = NothingSeen
      /\ \A l \in Legs : l # r => seen'[l] = seen[l]
  BY DEF Restart, TypeOK
<1>5. TypeOK'
  <2>1. /\ stage' \in [Handlers -> Stages] /\ token' \in [Handlers -> Tokens]
        /\ proof' \in [Handlers -> Proofs] /\ at' \in [Handlers -> Int]
    BY SlotsTyped DEF Restart, TypeOK, Stages
  <2>2. acts' \in [Legs \X Proofs \X Users -> Nat]
    BY DEF Restart, TypeOK
  <2>3. \A l \in Legs : /\ DOMAIN seen'[l] \subseteq Jtis
                        /\ \A j \in DOMAIN seen'[l] : seen'[l][j] \in Int
    BY <1>4 DEF TypeOK, NothingSeen
  <2>4. \A h \in Handlers :
          IF stage'[h] = "idle" THEN at'[h] = 0
          ELSE token'[h] \in issued' /\ proof'[h] \in DOMAIN made'
    BY <1>1, <1>2 DEF TypeOK, realmVars
  <2> QED
    BY <1>1, <1>4, <2>1, <2>2, <2>3, <2>4 DEF TypeOK, ClockOK, clockVars, realmVars
<1>6. CallsOK'
  BY <1>1, <1>2 DEF CallsOK, ProofOf, clockVars
<1>7. Alone'
  <2> SUFFICES ASSUME NEW g \in Handlers, stage'[g] = "bound"
               PROVE  /\ \A u \in Users : acts'[<<Leg(g), proof'[g], u>>] = 0
                      /\ \A f \in Handlers :
                           stage'[f] = "bound" /\ Leg(f) = Leg(g) /\ proof'[f] = proof'[g]
                             => f = g
    BY DEF Alone
  <2>1. /\ Leg(g) # r /\ stage[g] = "bound" /\ proof'[g] = proof[g]
        /\ Leg(g) \in Legs /\ proof[g] \in Proofs
    BY <1>2, LegTyped DEF TypeOK
  <2>2. \A u \in Users : acts'[<<Leg(g), proof'[g], u>>] = 0
    BY <1>3, <2>1 DEF Alone
  <2>3. \A f \in Handlers :
          stage'[f] = "bound" /\ Leg(f) = Leg(g) /\ proof'[f] = proof'[g] => f = g
    BY <1>2, <2>1 DEF Alone
  <2> QED
    BY <2>2, <2>3
<1>8. OneActPerProof'
  BY <1>1, <1>3 DEF OneActPerProof
<1>9. SpentKnown'
  <2> SUFFICES ASSUME NEW l \in Legs, NEW i \in DOMAIN made', Spent(l, i)'
               PROVE  (Known(l, i) \/ Over(l, i))'
    BY DEF SpentKnown
  <2>1. i \in DOMAIN made /\ i \in Proofs
    BY <1>1 DEF TypeOK
  <2>2. l # r /\ Spent(l, i)
    <3>1. CASE \E u \in Users : acts'[<<l, i, u>>] > 0
      BY <1>3, <2>1, <3>1 DEF Spent
    <3>2. CASE \E g \in Handlers : Holds(g, l, i)'
      BY <1>2, <3>2 DEF Spent, Holds
    <3> QED
      BY <3>1, <3>2 DEF Spent
  <2> QED
    BY <1>1, <1>2, <1>4, <2>1, <2>2 DEF SpentKnown, Known, Over, clockVars
<1> QED
  BY <1>5, <1>6, <1>7, <1>8, <1>9

-----------------------------------------------------------------------------
LEMMA NextStep ==
  ASSUME IInv, [Next]_vars
  PROVE  IInv'
<1>1. CASE Tick \/ ClockStep
  BY <1>1, ClockMoves
<1>2. CASE Elsewhere
  BY <1>2, ElsewhereStep
<1>3. CASE \E h \in Handlers, t \in issued, i \in DOMAIN made : Receive(h, t, i)
  BY <1>3, ReceiveStep
<1>4. CASE \E h \in Handlers : VerifyDpop(h)
  BY <1>4, CheckTokenStep, CheckProofStep, CheckJtiStep, ActStep, RefuseStep
     DEF VerifyDpop
<1>5. CASE \E l \in Legs : Restart(l)
  BY <1>5, RestartStep
<1>6. CASE UNCHANGED vars
  BY <1>6 DEF IInv, TypeOK, ClockOK, CallsOK, ProofOf, SpentKnown, Spent, Holds,
     Known, Over, Alone, OneActPerProof, vars, clockVars, realmVars, callVars
<1> QED
  BY <1>1, <1>2, <1>3, <1>4, <1>5, <1>6 DEF Next, Elsewhere

(* Every reachable state of the servers and the realm is well typed, and a *)
(* call in progress holds an issued token and a proof that was made.       *)
THEOREM TypeCorrect == Spec => []TypeOK
<1>1. Init => IInv
  BY Initially
<1>2. IInv /\ [Next]_vars => IInv'
  BY NextStep
<1>3. IInv => TypeOK
  BY DEF IInv
<1> QED
  BY <1>1, <1>2, <1>3, PTL DEF Spec

(* However tokens and proofs are combined, delivered and repeated, a proof *)
(* lets only the user whose key made it act, once, at the server it names, *)
(* for as long as that server keeps its replay guard.                      *)
THEOREM OneActEach == Spec => []OneActPerProof
<1>1. Init => IInv
  BY Initially
<1>2. IInv /\ [Next]_vars => IInv'
  BY NextStep
<1>3. IInv => OneActPerProof
  BY DEF IInv
<1> QED
  BY <1>1, <1>2, <1>3, PTL DEF Spec

-----------------------------------------------------------------------------
(* A token that says approved outlives the approval by its life, and a     *)
(* call outlives the token it holds by its waits.                          *)
Outdated(t) ==
  t.user \in DOMAIN demotedAt /\ t.exp <= demotedAt[t.user] + TokenLife + Back

TokensDated ==
  \A t \in issued :
    /\ t.exp <= peak + TokenLife
    /\ t.active => t.user \in active \/ Outdated(t)

InLife ==
  \A h \in Handlers :
    /\ stage[h] = "proof" => at[h] <= token[h].exp
    /\ stage[h] = "jti" => at[h] <= token[h].exp + Gap
    /\ stage[h] = "bound" => at[h] <= token[h].exp + 2 * Gap

LEMMA TokensStayDated ==
  ASSUME IInv, TokensDated, [Next]_vars
  PROVE  TokensDated'
<1> USE ClockAssumption, HumanAssumption DEF IInv
<1>1. ASSUME UNCHANGED realmVars, peak <= peak', peak' \in Int
      PROVE  TokensDated'
  BY <1>1 DEF TokensDated, Outdated, realmVars, TypeOK, ClockOK, Tokens
<1>2. ASSUME NEW u \in Users, Approve(u)
      PROVE  TokensDated'
  BY <1>2 DEF Approve, TokensDated, Outdated, clockVars
<1>3. ASSUME NEW u \in Users, Demote(u)
      PROVE  TokensDated'
  <2> SUFFICES ASSUME NEW t \in issued
               PROVE  /\ t.exp <= peak' + TokenLife
                      /\ t.active => t.user \in active' \/ Outdated(t)'
    BY <1>3 DEF Demote, TokensDated
  <2>1. t.exp <= peak + TokenLife /\ peak' = peak /\ clock >= peak - Back
    BY <1>3 DEF Demote, TokensDated, clockVars, TypeOK, ClockOK
  <2>2. clock \in Int /\ peak \in Int /\ t.exp \in Int
    BY DEF TypeOK, ClockOK, Tokens
  <2>3. CASE t.user = u
    <3>1. u \in DOMAIN demotedAt' /\ demotedAt'[u] = clock
      BY <1>3 DEF Demote
    <3>2. t.exp <= clock + TokenLife + Back
      BY <2>1, <2>2
    <3> QED
      BY <2>1, <2>3, <3>1, <3>2 DEF Outdated
  <2>4. CASE t.user # u
    <3>1. Outdated(t) => Outdated(t)'
      BY <1>3, <2>4 DEF Demote, Outdated
    <3>2. t.user \in active => t.user \in active'
      BY <1>3, <2>4 DEF Demote
    <3> QED
      BY <2>1, <3>1, <3>2 DEF TokensDated
  <2> QED
    BY <2>3, <2>4
<1>4. ASSUME NEW u \in Users, IssueToken(u)
      PROVE  TokensDated'
  <2> DEFINE new == [user |-> u, active |-> u \in active, exp |-> clock + TokenLife]
  <2>1. /\ issued' = issued \cup {new}
        /\ UNCHANGED <<clock, peak, active, demotedAt>>
    BY <1>4 DEF IssueToken, clockVars
  <2>2. /\ new.exp <= peak + TokenLife
        /\ new.active => new.user \in active
    <3>1. new.exp = clock + TokenLife /\ new.user = u
      OBVIOUS
    <3>2. new.active <=> u \in active
      BY Zenon
    <3> HIDE DEF new
    <3> QED
      BY <3>1, <3>2 DEF TypeOK, ClockOK
  <2> HIDE DEF new
  <2>3. \A t \in issued' :
          /\ t.exp <= peak + TokenLife
          /\ t.active => t.user \in active \/ Outdated(t)
    BY <2>1, <2>2 DEF TokensDated
  <2> QED
    BY <2>1, <2>3 DEF TokensDated, Outdated
<1>5. peak <= peak' /\ peak' \in Int
  <2>1. CASE Tick \/ ClockStep
    BY <2>1 DEF Tick, ClockStep, Advance, StepBack, TypeOK, ClockOK
  <2>2. CASE UNCHANGED clockVars
    BY <2>2 DEF clockVars, TypeOK, ClockOK
  <2> QED
    BY <2>1, <2>2 DEF Next, vars, Approve, Demote, IssueToken, MakeProof, Receive,
       VerifyDpop, CheckToken, CheckProof, CheckJti, Act, RefuseLate, Restart
<1>6. UNCHANGED realmVars \/ \E u \in Users : Approve(u) \/ Demote(u) \/ IssueToken(u)
  BY DEF Next, vars, Tick, ClockStep, MakeProof, Receive,
     VerifyDpop, CheckToken, CheckProof, CheckJti, Act, RefuseLate, Restart
<1> QED
  BY <1>1, <1>2, <1>3, <1>4, <1>5, <1>6

(* A step after which the calls past a check are as before, but for one    *)
(* that passed its next check within its wait.                             *)
LEMMA CallStaysInLife ==
  ASSUME IInv, InLife, NEW h \in Handlers, VerifyDpop(h)
  PROVE  InLife'
<1> USE ClockAssumption, HumanAssumption DEF IInv
<1>1. UNCHANGED <<clockVars, realmVars, made>>
  BY DEF VerifyDpop, CheckToken, CheckProof, CheckJti, Act, RefuseLate
<1>2. CASE Leave(h)
  BY <1>1, <1>2, LeaveMoves DEF InLife, Moves
<1>3. CASE CheckToken(h) /\ Unexpired(token[h], clock) /\ Pass(h, "proof")
  <2>1. Moves(h) /\ stage'[h] = "proof" /\ at'[h] = clock /\ token'[h] = token[h]
    BY <1>1, <1>3, PassMoves DEF Stages
  <2> QED
    BY <1>3, <2>1 DEF InLife, Moves, Unexpired
<1>4. CASE stage[h] = "proof" /\ Pass(h, "jti")
  <2>1. Moves(h) /\ stage'[h] = "jti" /\ at'[h] = clock /\ token'[h] = token[h]
    BY <1>1, <1>4, PassMoves DEF Stages
  <2>2. clock <= token[h].exp + Gap
    BY <1>4 DEF CallsOK, InLife, TypeOK, ClockOK, Tokens
  <2> QED
    BY <2>1, <2>2 DEF InLife, Moves
<1>5. CASE stage[h] = "jti" /\ Pass(h, "bound")
  <2>1. Moves(h) /\ stage'[h] = "bound" /\ at'[h] = clock /\ token'[h] = token[h]
    BY <1>1, <1>5, PassMoves DEF Stages
  <2>2. clock <= token[h].exp + 2 * Gap
    BY <1>5 DEF CallsOK, InLife, TypeOK, ClockOK, Tokens
  <2> QED
    BY <2>1, <2>2 DEF InLife, Moves
<1> QED
  BY <1>2, <1>3, <1>4, <1>5
  DEF VerifyDpop, CheckToken, CheckProof, CheckJti, Act, RefuseLate

LEMMA CallsStayInLife ==
  ASSUME IInv, InLife, [Next]_vars
  PROVE  InLife'
<1>1. CASE UNCHANGED callVars
  BY <1>1 DEF InLife, callVars
<1>2. CASE \E h \in Handlers, t \in issued, i \in DOMAIN made : Receive(h, t, i)
  BY <1>2 DEF Receive, InLife, IInv, TypeOK
<1>3. CASE \E l \in Legs : Restart(l)
  BY <1>3 DEF Restart, InLife
<1>4. CASE \E h \in Handlers : VerifyDpop(h)
  BY <1>4, CallStaysInLife
<1> QED
  BY <1>1, <1>2, <1>3, <1>4 DEF Next, vars, Tick, ClockStep, Approve, Demote,
     IssueToken, MakeProof

(* A user whose approval was taken back acts for no longer than a token    *)
(* issued before lives and a call that began with it waits, give or take a *)
(* clock step, whatever the order of approvals and demotions.              *)
THEOREM DemotionNoticed == Spec => DemotionTakesEffect
<1> DEFINE DInv == IInv /\ TokensDated /\ InLife
<1>1. Init => DInv
  BY Initially DEF Init, TokensDated, InLife
<1>2. DInv /\ [Next]_vars => DInv'
  BY NextStep, TokensStayDated, CallsStayInLife
<1>3. ASSUME DInv, NEW h \in Handlers, Act(h)
      PROVE  LET u == token[h].user IN
               \/ u \in active
               \/ /\ u \in DOMAIN demotedAt
                  /\ at[h] <= demotedAt[u] + TokenLife + 2 * Gap + Back
  <2>1. /\ token[h] \in issued /\ token[h] \in Tokens /\ token[h].active
        /\ at[h] \in Int /\ at[h] <= token[h].exp + 2 * Gap
    BY <1>3 DEF Act, Entitled, InLife, IInv, TypeOK
  <2>2. token[h].user \in active \/ Outdated(token[h])
    BY <1>3, <2>1 DEF TokensDated
  <2>3. CASE Outdated(token[h])
    <3>1. demotedAt[token[h].user] \in Int /\ token[h].exp \in Int
      BY <1>3, <2>1, <2>3 DEF Outdated, IInv, TypeOK, Tokens
    <3> QED
      BY <2>1, <2>3, <3>1, ClockAssumption, HumanAssumption DEF Outdated
  <2> QED
    BY <2>2, <2>3
<1>4. DInv => \A h \in Handlers :
        Act(h) => LET u == token[h].user IN
          \/ u \in active
          \/ /\ u \in DOMAIN demotedAt
             /\ at[h] <= demotedAt[u] + TokenLife + 2 * Gap + Back
  BY <1>3
<1> HIDE DEF DInv
<1> QED
  BY <1>1, <1>2, <1>4, PTL DEF Spec, DemotionTakesEffect

(* A call that recorded the proof's id read the clock while the proof was  *)
(* within its window, give or take the wait since and a clock step.        *)
InWindow ==
  \A h \in Handlers : stage[h] = "bound" =>
    /\ at[h] - ProofOf(h).iat <= MaxAge + Gap
    /\ ProofOf(h).iat - at[h] <= Skew + Back

LEMMA CallsStayInWindow ==
  ASSUME IInv, InWindow, [Next]_vars
  PROVE  InWindow'
<1> USE ClockAssumption, HumanAssumption DEF IInv
<1>1. CASE UNCHANGED <<callVars, made>>
  BY <1>1 DEF InWindow, ProofOf, callVars
<1>2. ASSUME NEW i \in Proofs, NEW p, MakeProof(i, p) PROVE InWindow'
  BY <1>2 DEF MakeProof, InWindow, ProofOf, callVars, TypeOK
<1>3. CASE \E h \in Handlers, t \in issued, i \in DOMAIN made : Receive(h, t, i)
  BY <1>3 DEF Receive, InWindow, ProofOf, TypeOK
<1>4. CASE \E l \in Legs : Restart(l)
  BY <1>4 DEF Restart, InWindow, ProofOf
<1>5. ASSUME NEW h \in Handlers, VerifyDpop(h) PROVE InWindow'
  <2>1. UNCHANGED <<clockVars, realmVars, made>>
    BY <1>5 DEF VerifyDpop, CheckToken, CheckProof, CheckJti, Act, RefuseLate
  <2>2. CASE Leave(h)
    BY <2>1, <2>2, LeaveMoves DEF InWindow, ProofOf, Moves
  <2>3. CASE \E n \in {"proof", "jti"} : Pass(h, n)
    BY <2>1, <2>3 DEF Pass, InWindow, ProofOf, TypeOK
  <2>4. CASE stage[h] = "jti" /\ Pass(h, "bound")
    <3>1. Moves(h) /\ stage'[h] = "bound" /\ at'[h] = clock /\ proof'[h] = proof[h]
      BY <2>1, <2>4, PassMoves DEF Stages, Pass
    <3>2. /\ made[proof[h]].iat \in Int /\ clock \in Int /\ peak \in Int /\ at[h] \in Int
          /\ clock >= peak - Back
      BY <2>4 DEF TypeOK, ClockOK, ProofDocs
    <3>3. /\ at[h] <= peak /\ clock <= at[h] + Gap
          /\ Timely(made[proof[h]], at[h])
      BY <2>4 DEF CallsOK, ProofOf
    <3>4. /\ clock - made[proof[h]].iat <= MaxAge + Gap
          /\ made[proof[h]].iat - clock <= Skew + Back
      BY <3>2, <3>3 DEF Timely
    <3> QED
      BY <2>1, <3>1, <3>4 DEF InWindow, ProofOf, Moves
  <2> QED
    BY <1>5, <2>2, <2>3, <2>4
    DEF VerifyDpop, CheckToken, CheckProof, CheckJti, Act, RefuseLate
<1> QED
  BY <1>1, <1>2, <1>3, <1>4, <1>5 DEF Next, vars, Tick, ClockStep, Approve, Demote,
     IssueToken

(* What a request is acted on by was valid lately: its token, its proof    *)
(* and the wait between the readings that found them so.                   *)
THEOREM ValidWhenActed == Spec => ActsWhileValid
<1> DEFINE VInv == IInv /\ InLife /\ InWindow
           Valid == \A h \in Handlers :
             Act(h) => LET p == made[proof[h]] IN
               /\ at[h] <= token[h].exp + 2 * Gap
               /\ at[h] - p.iat <= MaxAge + Gap
               /\ p.iat - at[h] <= Skew + Back
<1>1. Init => VInv
  BY Initially DEF Init, InLife, InWindow
<1>2. VInv /\ [Next]_vars => VInv'
  BY NextStep, CallsStayInLife, CallsStayInWindow
<1>3. VInv => Valid
  BY DEF Act, InLife, InWindow, ProofOf
<1> HIDE DEF VInv
<1>4. VInv /\ [Next]_vars => [Valid]_vars
  BY <1>3
<1> QED
  BY <1>1, <1>2, <1>4, PTL DEF Spec, ActsWhileValid
=============================================================================
