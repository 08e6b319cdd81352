------------------------------ MODULE HumanAuth ------------------------------
(***************************************************************************)
(* Human requests (_user_auth.py, _dpop.py, _tiers.py).  A request carries *)
(* an access token of the realm, bound to a key, and a DPoP proof: a claim *)
(* of its own that names the target and the token, has an id (jti) and a   *)
(* time, and is signed with the key it embeds.  Two kinds of server run    *)
(* verify_dpop(): the proxy and, through verify_bundle(), the builder.     *)
(* Each has a replay guard of its own; what keeps a proof from being used  *)
(* at both is the target it names.                                         *)
(*                                                                         *)
(* verify_dpop() reads the clock three times: for the token's expiry, the  *)
(* proof's age and the replay guard.  Each is a step here, and the binding *)
(* to the token's key and the tier come last, after the id was recorded.   *)
(* The guard is taken under its external lock, so check() is one step.     *)
(*                                                                         *)
(* The realm issues tokens with the tier a user has at that moment.  A     *)
(* user stands for the key its tokens are bound to.  The network and the   *)
(* proxy may deliver any token with any proof, anywhere and repeatedly.    *)
(***************************************************************************)
EXTENDS WallClock, ReplayGuard, FiniteSets

CONSTANTS
  Legs, Threads,           \* the servers, and the handler threads of each
  Users, OtherKeys,        \* users, who stand for their keys; other keys
  Jtis,                    \* ids of proofs
  Proofs,                  \* bound: one per proof made
  Times,                   \* timestamps a client's clock may produce
  TokenLife,               \* how long the realm makes a token valid
  MaxAge, Skew,            \* max_age_s and skew_s, 30 and 30 by default
  Gap,                     \* longest wait from one clock reading to the next
  MaxTokens                \* bound: tokens issued

Larger(a, b) == IF a > b THEN a ELSE b

ASSUME HumanAssumption ==
  /\ Times \subseteq Int /\ Users # {} /\ Proofs # {}
  /\ TokenLife \in Nat /\ MaxAge \in Nat /\ Skew \in Nat /\ Gap \in Nat
  /\ MaxTokens \in Nat

(* The replay window outlives the proof: 3600 >= 30 + 30 + ... by default. *)
ASSUME TtlCoversProof == Ttl >= MaxAge + Skew + Back + Larger(Back, Gap)

Handlers == Legs \X Threads
Leg(h) == h[1]

Tokens == [user : Users, active : BOOLEAN, exp : Int]
ProofDocs == [key : Users \cup OtherKeys, leg : Legs, token : Tokens, jti : Jtis, iat : Times]

VARIABLES
  active, demotedAt,       \* the realm: approved users; when one last ceased
  issued,                  \* tokens of the realm
  made,                    \* the proofs made, a partial function on Proofs
  stage, token, proof,     \* per handler: progress and its request
  at,                      \* per handler: its last clock reading
  seen,                    \* per server: ReplayGuard._seen
  acts                     \* history: how often this run of a server acted,
                           \*   upon which proof, for which user

realmVars == <<active, demotedAt, issued>>
callVars  == <<stage, token, proof, at>>
vars == <<clockVars, realmVars, made, callVars, seen, acts>>

Stages == {"idle", "token", "proof", "jti", "bound"}
Waiting == {h \in Handlers : stage[h] \in {"proof", "jti"}}

NoToken == [user |-> CHOOSE u \in Users : TRUE, active |-> FALSE, exp |-> 0]
NoProof == CHOOSE i \in Proofs : TRUE      \* contents of an unused slot

Init ==
  /\ ClockInit
  /\ active = {} /\ demotedAt = [u \in {} |-> 0] /\ issued = {}
  /\ made = [i \in {} |-> 0]
  /\ stage = [h \in Handlers |-> "idle"]
  /\ token = [h \in Handlers |-> NoToken]
  /\ proof = [h \in Handlers |-> NoProof]
  /\ at = [h \in Handlers |-> 0]
  /\ seen = [l \in Legs |-> NothingSeen]
  /\ acts = [a \in Legs \X Proofs \X Users |-> 0]

-----------------------------------------------------------------------------
(* Mutants: the target is not compared; a token never ends; the proof is   *)
(* not tied to the token's key, or never grows old.                        *)
ForTarget_Any(p, h) == TRUE
Unexpired_Always(t, now) == TRUE
HeldBy_Anyone(t, p) == TRUE
Timely_NoAge(p, now) == p.iat <= now + Skew

(* _claims_ok(): `now > exp` is refused.                                   *)
Unexpired(t, now) == now <= t.exp

(* _dpop.verify(): htm and htu, iat, ath.                                  *)
ForTarget(p, h) == p.leg = Leg(h)
Timely(p, now) == p.iat <= now + Skew /\ now - p.iat <= MaxAge
ForToken(p, t) == p.token = t

(* verify_dpop(): the thumbprint of the proof's key is the token's cnf.jkt.*)
HeldBy(t, p) == p.key = t.user

Leave(h) ==
  /\ stage' = [stage EXCEPT ![h] = "idle"]
  /\ token' = [token EXCEPT ![h] = NoToken]
  /\ proof' = [proof EXCEPT ![h] = NoProof]
  /\ at' = [at EXCEPT ![h] = 0]

(* The call goes on to the next check, having read the clock.              *)
Pass(h, next) ==
  /\ stage' = [stage EXCEPT ![h] = next]
  /\ at' = [at EXCEPT ![h] = clock]
  /\ UNCHANGED <<token, proof>>

-----------------------------------------------------------------------------
(* The realm: an admin approves a user or takes the approval back.         *)
Approve(u) ==
  /\ u \notin active
  /\ active' = active \cup {u}
  /\ UNCHANGED <<clockVars, demotedAt, issued, made, callVars, seen, acts>>

Demote(u) ==
  /\ u \in active
  /\ active' = active \ {u}
  /\ demotedAt' = [v \in DOMAIN demotedAt \cup {u} |->
                     IF v = u THEN clock ELSE demotedAt[v]]
  /\ UNCHANGED <<clockVars, issued, made, callVars, seen, acts>>

IssueToken(u) ==
  /\ Cardinality(issued) < MaxTokens
  /\ issued' = issued \cup
       {[user |-> u, active |-> u \in active, exp |-> clock + TokenLife]}
  /\ UNCHANGED <<clockVars, active, demotedAt, made, callVars, seen, acts>>

(* Anyone can make a proof: it is signed with the key it embeds.           *)
MakeProof(i, p) ==
  /\ i \notin DOMAIN made
  /\ made' = [n \in DOMAIN made \cup {i} |-> IF n = i THEN p ELSE made[n]]
  /\ UNCHANGED <<clockVars, realmVars, callVars, seen, acts>>

(* extract_bearer(), or the bundle of the decrypted envelope.              *)
Receive(h, t, i) ==
  /\ stage[h] = "idle"
  /\ t \in issued /\ i \in DOMAIN made
  /\ stage' = [stage EXCEPT ![h] = "token"]
  /\ token' = [token EXCEPT ![h] = t]
  /\ proof' = [proof EXCEPT ![h] = i]
  /\ UNCHANGED <<clockVars, realmVars, made, at, seen, acts>>

(* verifier.verify(): the realm's keys (see JwksCache) and the claims.     *)
CheckToken(h) ==
  /\ stage[h] = "token"
  /\ \/ Unexpired(token[h], clock) /\ Pass(h, "proof")
     \/ Leave(h)
  /\ UNCHANGED <<clockVars, realmVars, made, seen, acts>>

CheckProof(h) ==
  /\ stage[h] = "proof"
  /\ LET p == made[proof[h]]
         fits == ForTarget(p, h) /\ Timely(p, clock) /\ ForToken(p, token[h])
     IN  IF fits THEN Pass(h, "jti") ELSE Leave(h)
  /\ UNCHANGED <<clockVars, realmVars, made, seen, acts>>

(* replay_guard.check(jti): expired ids go, a known id is refused, a new   *)
(* one is recorded whatever comes of the request.                          *)
CheckJti(h) ==
  /\ stage[h] = "jti"
  /\ LET j == made[proof[h]].jti
         live == Prune(seen[Leg(h)], clock)
     IN  \/ /\ j \in DOMAIN live
            /\ seen' = [seen EXCEPT ![Leg(h)] = live]
            /\ Leave(h)
         \/ /\ j \notin DOMAIN live
            /\ seen' = [seen EXCEPT ![Leg(h)] = Record(live, j, clock)]
            /\ Pass(h, "bound")
  /\ UNCHANGED <<clockVars, realmVars, made, acts>>

(* The proof's key and the tier decide, and the request is acted on.       *)
Entitled(h) == HeldBy(token[h], made[proof[h]]) /\ token[h].active

Act(h) ==
  /\ stage[h] = "bound" /\ Entitled(h)
  /\ acts' = [acts EXCEPT ![<<Leg(h), proof[h], token[h].user>>] = @ + 1]
  /\ Leave(h)
  /\ UNCHANGED <<clockVars, realmVars, made, seen>>

RefuseLate(h) ==
  /\ stage[h] = "bound" /\ ~ Entitled(h)
  /\ Leave(h)
  /\ UNCHANGED <<clockVars, realmVars, made, seen, acts>>

(* A server restarts; its replay guard lives in memory only.               *)
Restart(l) ==
  /\ stage' = [h \in Handlers |-> IF Leg(h) = l THEN "idle" ELSE stage[h]]
  /\ token' = [h \in Handlers |-> IF Leg(h) = l THEN NoToken ELSE token[h]]
  /\ proof' = [h \in Handlers |-> IF Leg(h) = l THEN NoProof ELSE proof[h]]
  /\ at' = [h \in Handlers |-> IF Leg(h) = l THEN 0 ELSE at[h]]
  /\ seen' = [seen EXCEPT ![l] = NothingSeen]
  /\ acts' = [a \in Legs \X Proofs \X Users |-> IF a[1] = l THEN 0 ELSE acts[a]]
  /\ UNCHANGED <<clockVars, realmVars, made>>

(* Time passes; a call comes to its next clock reading within Gap.         *)
Tick ==
  /\ \A h \in Waiting : clock < at[h] + Gap
  /\ Advance(Horizon)
  /\ UNCHANGED <<realmVars, made, callVars, seen, acts>>

ClockStep ==
  /\ StepBack
  /\ UNCHANGED <<realmVars, made, callVars, seen, acts>>

VerifyDpop(h) ==
  CheckToken(h) \/ CheckProof(h) \/ CheckJti(h) \/ Act(h) \/ RefuseLate(h)

Next ==
  \/ Tick \/ ClockStep
  \/ \E u \in Users : Approve(u) \/ Demote(u) \/ IssueToken(u)
  \/ \E i \in Proofs, p \in [key : Users \cup OtherKeys, leg : Legs,
                            token : issued, jti : Jtis, iat : Times] :
       MakeProof(i, p)
  \/ \E h \in Handlers :
       \/ \E t \in issued, i \in DOMAIN made : Receive(h, t, i)
       \/ VerifyDpop(h)
  \/ \E l \in Legs : Restart(l)

Spec == Init /\ [][Next]_vars

-----------------------------------------------------------------------------
TypeOK ==
  /\ ClockOK
  /\ active \subseteq Users
  /\ DOMAIN demotedAt \subseteq Users
  /\ \A u \in DOMAIN demotedAt : demotedAt[u] \in Int
  /\ issued \subseteq Tokens
  /\ DOMAIN made \subseteq Proofs /\ \A i \in DOMAIN made : made[i] \in ProofDocs
  /\ stage \in [Handlers -> Stages]
  /\ token \in [Handlers -> Tokens]
  /\ proof \in [Handlers -> Proofs]
  /\ at \in [Handlers -> Int]
  /\ \A h \in Handlers :
       IF stage[h] = "idle" THEN at[h] = 0
       ELSE token[h] \in issued /\ proof[h] \in DOMAIN made
  /\ DOMAIN seen = Legs
  /\ \A l \in Legs : /\ DOMAIN seen[l] \subseteq Jtis
                     /\ \A j \in DOMAIN seen[l] : seen[l][j] \in Int
  /\ acts \in [Legs \X Proofs \X Users -> Nat]

(* A proof lets the user whose key made it act once, at the server it was  *)
(* made for, and nobody else anywhere: although each server has its own    *)
(* replay guard, the proxy sees the builder's requests, and any proof may  *)
(* be delivered with any token (verify_dpop(), verify_bundle()).           *)
OneActPerProof ==
  \A l \in Legs, i \in Proofs, u \in Users :
    acts[<<l, i, u>>] > 0 =>
      /\ acts[<<l, i, u>>] = 1
      /\ i \in DOMAIN made /\ made[i].leg = l /\ made[i].key = u

(* A user acts only while approved, or so long after the approval was      *)
(* taken back as its last token lives, up to the waits of the call and a   *)
(* clock step (has_tier_floor() of a token's claims, _claims_ok()).        *)
DemotionTakesEffect ==
  [][\A h \in Handlers :
       Act(h) => LET u == token[h].user IN
         \/ u \in active
         \/ /\ u \in DOMAIN demotedAt
            /\ at[h] <= demotedAt[u] + TokenLife + 2 * Gap + Back]_vars

(* When a request is acted on, its token and its proof still are, by the   *)
(* last of the three clock readings, what the earlier ones found: the      *)
(* token expired at most two waits ago, the proof is older than MaxAge by  *)
(* one wait at most, and a clock step alone makes it early by more than    *)
(* Skew.  No restart changes that: it clears the guard, not the dates      *)
(* (_claims_ok(), _dpop.verify(), then check() in verify_dpop()).          *)
ActsWhileValid ==
  [][\A h \in Handlers :
       Act(h) => LET p == made[proof[h]] IN
         /\ at[h] <= token[h].exp + 2 * Gap
         /\ at[h] - p.iat <= MaxAge + Gap
         /\ p.iat - at[h] <= Skew + Back]_vars
=============================================================================
