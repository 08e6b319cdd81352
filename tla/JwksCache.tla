------------------------------ MODULE JwksCache ------------------------------
(***************************************************************************)
(* OIDCVerifier.verify() over JWKSCache (_oidc.py): access tokens verified *)
(* with the realm's key set, which is cached, refetched when its time is   *)
(* up, and refetched once more when a token names a key it does not hold.  *)
(*                                                                         *)
(* refresh() is four steps that other threads may fall between: the fetch, *)
(* the assignment of _key_set, the clock reading assigned to _fetched_at,  *)
(* and the return, which reads _key_set anew.  A set is dated when it is   *)
(* stored, not when it was asked for, and by whichever thread stamps last. *)
(*                                                                         *)
(* The realm is a service outside this repository: it publishes keys and   *)
(* withdraws them for good.  A key and its `kid` are one thing here.       *)
(***************************************************************************)
EXTENDS WallClock

CONSTANTS
  Handlers,                \* threads that verify tokens
  Keys,                    \* the realm's signing keys, one after the other
  JwksTtl,                 \* ttl_s, 300 by default
  Timeout                  \* longest a refresh takes, request to return  

ASSUME JwksAssumption ==
  /\ JwksTtl \in Nat /\ Timeout \in Nat \ {0}
  /\ Keys # {}

VARIABLES
  published, endedAt,      \* the realm: its keys, and when one was withdrawn
  held, fetchedAt,         \* _key_set as a set of at most one, _fetched_at
  stage, tokenKey,         \* per thread: progress and the token's key
  answer,                  \* per thread: the key set on its way to decode()
  at,                      \* per thread: clock when the refresh began; then
                           \*   when key_set() or refresh() returned
  retried,                 \* per thread: the refresh for an unknown key ran
  disturbed                \* history: see RotationSurvived

realmVars == <<published, endedAt>>
heldVars  == <<held, fetchedAt>>
callVars  == <<stage, tokenKey, answer, at, retried>>
vars == <<clockVars, realmVars, heldVars, callVars, disturbed>>

Refreshing == {"asking", "store", "stamp", "return"}
Outcomes == {"verified", "AuthError", "JoseError", "InvalidKeyIdError", "URLError"}
Stages == {"idle", "decode"} \cup Refreshing \cup Outcomes

AnyKey == CHOOSE k \in Keys : TRUE
LongAgo == - (JwksTtl + Back + 1)      \* _fetched_at = 0.0

Init ==
  /\ ClockInit
  /\ published = {} /\ endedAt = [k \in {} |-> 0]
  /\ held = {} /\ fetchedAt = LongAgo
  /\ stage = [h \in Handlers |-> "idle"]
  /\ tokenKey = [h \in Handlers |-> AnyKey]
  /\ answer = [h \in Handlers |-> {}]
  /\ at = [h \in Handlers |-> 0]
  /\ retried = [h \in Handlers |-> FALSE]
  /\ disturbed = [h \in Handlers |-> FALSE]

GoTo(h, s) == stage' = [stage EXCEPT ![h] = s]

-----------------------------------------------------------------------------
(* Mutants: a second too long; an unknown key is final; the refresh is     *)
(* dated ahead; the call's refresh is remembered by the next one.          *)
Current_PlusOne == held # {} /\ clock - fetchedAt <= JwksTtl + 1
MayRetry_Never(h) == FALSE
Clear_KeepsRetry(h) ==
  /\ tokenKey' = [tokenKey EXCEPT ![h] = AnyKey]
  /\ answer' = [answer EXCEPT ![h] = {}]
  /\ at' = [at EXCEPT ![h] = 0]
  /\ UNCHANGED retried

(* key_set(): a set is held and its time is not up.                        *)
Current == held # {} /\ clock - fetchedAt <= JwksTtl

(* verify(): only the first decode() is followed by a refresh.             *)
MayRetry(h) == ~ retried[h]

Clear(h) ==
  /\ tokenKey' = [tokenKey EXCEPT ![h] = AnyKey]
  /\ answer' = [answer EXCEPT ![h] = {}]
  /\ at' = [at EXCEPT ![h] = 0]
  /\ retried' = [retried EXCEPT ![h] = FALSE]

(* The realm publishes a key it never had, or withdraws one.               *)
Publish(k) ==
  /\ k \notin published \cup DOMAIN endedAt
  /\ published' = published \cup {k}
  /\ UNCHANGED <<clockVars, endedAt, heldVars, callVars, disturbed>>

WithdrawKey(k) ==
  /\ k \in published
  /\ published' = published \ {k}
  /\ endedAt' = [j \in DOMAIN endedAt \cup {k} |->
                   IF j = k THEN clock ELSE endedAt[j]]
  /\ disturbed' = [h \in Handlers |->
                     stage[h] # "idle" /\ (disturbed[h] \/ tokenKey[h] = k)]
  /\ UNCHANGED <<clockVars, heldVars, callVars>>

(* verify() of a token signed with k calls key_set(): the cached set, or a *)
(* refresh.                                                                *)
BeginVerify(h, k) ==
  /\ stage[h] = "idle"
  /\ tokenKey' = [tokenKey EXCEPT ![h] = k]
  /\ at' = [at EXCEPT ![h] = clock]
  /\ disturbed' = [disturbed EXCEPT ![h] = k \notin published]
  /\ \/ Current /\ GoTo(h, "decode") /\ answer' = [answer EXCEPT ![h] = UNION held]
     \/ ~ Current /\ GoTo(h, "asking") /\ UNCHANGED answer
  /\ UNCHANGED <<clockVars, realmVars, heldVars, retried>>

RealmAnswers(h) ==
  /\ stage[h] = "asking"
  /\ answer' = [answer EXCEPT ![h] = published]
  /\ GoTo(h, "store")
  /\ UNCHANGED <<clockVars, realmVars, heldVars, tokenKey, at, retried, disturbed>>

(* No answer in time, or none that is JSON: the exception leaves verify(). *)
RealmFails(h) ==
  /\ stage[h] = "asking"
  /\ GoTo(h, "URLError")
  /\ UNCHANGED <<clockVars, realmVars, heldVars, tokenKey, answer, at, retried,
                 disturbed>>

StoreKeys(h) ==
  /\ stage[h] = "store"
  /\ held' = {answer[h]}
  /\ GoTo(h, "stamp")
  /\ disturbed' = [g \in Handlers |->
                     \/ disturbed[g]
                     \/ /\ g # h /\ stage[g] \in {"stamp", "return"}
                        /\ tokenKey[g] \notin answer[h]]
  /\ UNCHANGED <<clockVars, realmVars, fetchedAt, tokenKey, answer, at, retried>>

StampKeys(h) ==
  /\ stage[h] = "stamp"
  /\ fetchedAt' = clock
  /\ GoTo(h, "return")
  /\ UNCHANGED <<clockVars, realmVars, held, tokenKey, answer, at, retried, disturbed>>

(* What refresh() returns is what is held by now.                          *)
ReturnKeys(h) ==
  /\ stage[h] = "return"
  /\ answer' = [answer EXCEPT ![h] = UNION held]
  /\ at' = [at EXCEPT ![h] = clock]
  /\ GoTo(h, "decode")
  /\ UNCHANGED <<clockVars, realmVars, heldVars, tokenKey, retried, disturbed>>

(* decode() and _claims_ok(): the signature and the claims are in order or *)
(* not.  An unknown key leads to one refresh.  The decode() after it is    *)
(* outside the try block: a bad signature leaves as the library's error.   *)
Decode(h) ==
  /\ stage[h] = "decode"
  /\ \/ /\ tokenKey[h] \in answer[h]
        /\ \/ GoTo(h, "verified") \/ GoTo(h, "AuthError")
           \/ retried[h] /\ GoTo(h, "JoseError")
        /\ UNCHANGED <<at, retried>>
     \/ /\ tokenKey[h] \notin answer[h] /\ MayRetry(h)
        /\ GoTo(h, "asking")
        /\ at' = [at EXCEPT ![h] = clock]
        /\ retried' = [retried EXCEPT ![h] = TRUE]
     \/ /\ tokenKey[h] \notin answer[h] /\ ~ MayRetry(h)
        /\ GoTo(h, "InvalidKeyIdError")
        /\ UNCHANGED <<at, retried>>
  /\ UNCHANGED <<clockVars, realmVars, heldVars, tokenKey, answer, disturbed>>

Leave(h) ==
  /\ stage[h] \in Outcomes
  /\ GoTo(h, "idle")
  /\ Clear(h)
  /\ disturbed' = [disturbed EXCEPT ![h] = FALSE]
  /\ UNCHANGED <<clockVars, realmVars, heldVars>>

(* Time passes; a refresh is over within Timeout.                          *)
Tick ==
  /\ \A h \in Handlers : stage[h] \in Refreshing => clock < at[h] + Timeout
  /\ Advance(Horizon)
  /\ UNCHANGED <<realmVars, heldVars, callVars, disturbed>>

ClockStep == StepBack /\ UNCHANGED <<realmVars, heldVars, callVars, disturbed>>

VerifyToken(h) ==
  \/ \E k \in Keys : BeginVerify(h, k)
  \/ RealmAnswers(h) \/ RealmFails(h) \/ StoreKeys(h)
  \/ StampKeys(h) \/ ReturnKeys(h) \/ Decode(h) \/ Leave(h)

Next ==
  \/ Tick \/ ClockStep
  \/ \E k \in Keys : Publish(k) \/ WithdrawKey(k)
  \/ \E h \in Handlers : VerifyToken(h)

Spec == Init /\ [][Next]_vars

-----------------------------------------------------------------------------
TypeOK ==
  /\ ClockOK
  /\ published \subseteq Keys
  /\ DOMAIN endedAt \subseteq Keys /\ \A k \in DOMAIN endedAt : endedAt[k] \in Int
  /\ published \cap DOMAIN endedAt = {}
  /\ held \subseteq SUBSET Keys /\ \A s, t \in held : s = t
  /\ fetchedAt \in Int
  /\ stage \in [Handlers -> Stages]
  /\ tokenKey \in [Handlers -> Keys]
  /\ answer \in [Handlers -> SUBSET Keys]
  /\ at \in [Handlers -> Int]
  /\ retried \in [Handlers -> BOOLEAN]
  /\ disturbed \in [Handlers -> BOOLEAN]
  /\ \A h \in Handlers : stage[h] = "idle" => ~ retried[h]

(* A token verified under a key the realm withdrew was verified at most    *)
(* JwksTtl and TWO refreshes after the withdrawal: one refresh may be slow *)
(* to store an old set, and a second, begun before it was stored, may date *)
(* that set as its own (refresh(), key_set()).                             *)
WithdrawnKeyExpires ==
  \A h \in Handlers :
    stage[h] = "verified" /\ tokenKey[h] \in DOMAIN endedAt =>
      at[h] <= endedAt[tokenKey[h]] + JwksTtl + 2 * Timeout + Back

(* "An unknown kid triggers a single refresh to survive key rotation": a   *)
(* token whose key was published during the whole call is never refused as *)
(* unknown, but for one race: another thread stores an older set, without  *)
(* the key, between this call's own store and its return.  The property    *)
(* says that nothing else refuses such a token, not that the race cannot.  *)
RotationSurvived ==
  \A h \in Handlers : stage[h] = "InvalidKeyIdError" => disturbed[h]
=============================================================================
