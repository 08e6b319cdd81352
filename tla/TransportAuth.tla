---------------------------- MODULE TransportAuth ----------------------------
(***************************************************************************)
(* Signed HTTP requests between services (_transport_auth.py).  A          *)
(* requester signs a timestamp and a fresh nonce with sign_request(); the  *)
(* network loses, delays and repeats requests; the server runs             *)
(* verify_request(): timestamp window, nonce cache, then the signature.    *)
(*                                                                         *)
(* The nonce is recorded before the signature is checked, the entry lives  *)
(* 2 * MaxAge from the clock reading of the call, and nothing removes      *)
(* entries but _cleanup_nonce_cache(), which lists the expired ones and    *)
(* deletes them one by one.  A call is several steps: reading the clock,   *)
(* testing the nonce, recording it and checking the signature are not one  *)
(* atomic operation.                                                       *)
(***************************************************************************)
EXTENDS WallClock, FiniteSets

CONSTANTS
  Calls,                   \* verify_request() calls that may run at a time
  Nonces,                  \* bound: one per request signed
  MaxAge,                  \* max_age_s, 30 by default
  Lead,                    \* how far ahead a requester's clock may run
  Gap                      \* longest a call takes to come to the nonce test

ASSUME TransportAssumption ==
  /\ MaxAge \in Nat \ {0} /\ Lead \in Nat /\ Gap \in Nat
  /\ Nonces # {} /\ IsFiniteSet(Calls)

VARIABLES
  sent,                    \* nonce -> timestamp, of the requests signed
  phase, nonce, genuine,   \* per call: progress, its request, and whether
                           \*   the signature fits the key and path at hand
  now,                     \* per call: its clock reading
  nonces,                  \* the nonce cache: nonce -> expiry
  doomed,                  \* nonces the clean-up listed and has yet to delete
  served                   \* history: times this run let a request through

callVars == <<phase, nonce, genuine, now>>
cacheVars == <<nonces, doomed>>
vars == <<clockVars, sent, callVars, cacheVars, served>>

Phases == {"idle", "arrived", "fresh", "new", "recorded"}
Empty == [n \in {} |-> 0]
AnyNonce == CHOOSE n \in Nonces : TRUE

Init ==
  /\ ClockInit
  /\ sent = Empty
  /\ phase = [c \in Calls |-> "idle"]
  /\ nonce = [c \in Calls |-> AnyNonce]
  /\ genuine = [c \in Calls |-> FALSE]
  /\ now = [c \in Calls |-> 0]
  /\ nonces = Empty
  /\ doomed = {}
  /\ served = [n \in Nonces |-> 0]

-----------------------------------------------------------------------------
(* Mutant: a shorter life.                                                 *)
Life_OneAge == MaxAge

Life == 2 * MaxAge

Timely(ts, t) == ts - t <= MaxAge /\ t - ts <= MaxAge

Known(n, t) == n \in DOMAIN nonces /\ nonces[n] > t

Spent(t) == {n \in DOMAIN nonces : nonces[n] <= t}

Return(c) ==
  /\ phase' = [phase EXCEPT ![c] = "idle"]
  /\ nonce' = [nonce EXCEPT ![c] = AnyNonce]
  /\ genuine' = [genuine EXCEPT ![c] = FALSE]
  /\ now' = [now EXCEPT ![c] = 0]

(* sign_request(): a nonce never used before, and the requester's clock.   *)
SignRequest(n) ==
  /\ n \notin DOMAIN sent
  /\ \E ts \in (clock - MaxAge) .. (clock + Lead) :
       sent' = [m \in DOMAIN sent \cup {n} |-> IF m = n THEN ts ELSE sent[m]]
  /\ UNCHANGED <<clockVars, callVars, cacheVars, served>>

(* A copy arrives; g says whether its signature will verify.               *)
Arrive(c, n, g) ==
  /\ phase[c] = "idle"
  /\ n \in DOMAIN sent
  /\ phase' = [phase EXCEPT ![c] = "arrived"]
  /\ nonce' = [nonce EXCEPT ![c] = n]
  /\ genuine' = [genuine EXCEPT ![c] = g]
  /\ UNCHANGED <<clockVars, sent, now, cacheVars, served>>

CheckTimestamp(c) ==
  /\ phase[c] = "arrived"
  /\ \/ /\ Timely(sent[nonce[c]], clock)
        /\ now' = [now EXCEPT ![c] = clock]
        /\ phase' = [phase EXCEPT ![c] = "fresh"]
        /\ UNCHANGED <<nonce, genuine>>
     \/ ~ Timely(sent[nonce[c]], clock) /\ Return(c)
  /\ UNCHANGED <<clockVars, sent, cacheVars, served>>

TestNonce(c) ==
  /\ phase[c] = "fresh"
  /\ \/ /\ ~ Known(nonce[c], now[c])
        /\ phase' = [phase EXCEPT ![c] = "new"]
        /\ UNCHANGED <<nonce, genuine, now>>
     \/ Known(nonce[c], now[c]) /\ Return(c)
  /\ UNCHANGED <<clockVars, sent, cacheVars, served>>

RecordNonce(c) ==
  /\ phase[c] = "new"
  /\ nonces' = [n \in DOMAIN nonces \cup {nonce[c]} |->
                  IF n = nonce[c] THEN now[c] + Life ELSE nonces[n]]
  /\ phase' = [phase EXCEPT ![c] = "recorded"]
  /\ UNCHANGED <<clockVars, sent, nonce, genuine, now, doomed, served>>

Without(table, gone) == [n \in DOMAIN table \ gone |-> table[n]]

(* Mutant: a failed signature takes the nonce back out of the cache.       *)
CheckSignature_Unrecords(c) ==
  /\ phase[c] = "recorded"
  /\ IF genuine[c]
       THEN served' = [served EXCEPT ![nonce[c]] = @ + 1] /\ UNCHANGED nonces
       ELSE nonces' = Without(nonces, {nonce[c]}) /\ UNCHANGED served
  /\ Return(c)
  /\ UNCHANGED <<clockVars, sent, doomed>>

(* The signature decides; a failure leaves the nonce recorded.             *)
CheckSignature(c) ==
  /\ phase[c] = "recorded"
  /\ IF genuine[c] THEN served' = [served EXCEPT ![nonce[c]] = @ + 1]
                   ELSE UNCHANGED served
  /\ Return(c)
  /\ UNCHANGED <<clockVars, sent, cacheVars>>

(* _cleanup_nonce_cache() lists the expired nonces, one clean-up at a time *)
ListExpired ==
  /\ doomed = {} /\ Spent(clock) # {}
  /\ doomed' = Spent(clock)
  /\ UNCHANGED <<clockVars, sent, callVars, nonces, served>>

(* and deletes them, recorded anew in between or not.                      *)
DropListed(n) ==
  /\ n \in doomed
  /\ nonces' = Without(nonces, {n})
  /\ doomed' = doomed \ {n}
  /\ UNCHANGED <<clockVars, sent, callVars, served>>

(* The cache is a class attribute: it ends with the process.               *)
Restart ==
  /\ phase' = [c \in Calls |-> "idle"]
  /\ nonce' = [c \in Calls |-> AnyNonce]
  /\ genuine' = [c \in Calls |-> FALSE]
  /\ now' = [c \in Calls |-> 0]
  /\ nonces' = Empty
  /\ doomed' = {}
  /\ served' = [n \in Nonces |-> 0]
  /\ UNCHANGED <<clockVars, sent>>

(* Time passes; a call comes to its nonce test within Gap.                 *)
Tick ==
  /\ \A c \in Calls : phase[c] = "fresh" => clock < now[c] + Gap
  /\ Advance(Horizon)
  /\ UNCHANGED <<sent, callVars, cacheVars, served>>

ClockStep == StepBack /\ UNCHANGED <<sent, callVars, cacheVars, served>>

Call(c) ==
  CheckTimestamp(c) \/ TestNonce(c) \/ RecordNonce(c) \/ CheckSignature(c)

Next ==
  \/ Tick \/ ClockStep \/ Restart \/ ListExpired
  \/ \E n \in Nonces : SignRequest(n) \/ DropListed(n)
  \/ \E c \in Calls, n \in Nonces, g \in BOOLEAN : Arrive(c, n, g)
  \/ \E c \in Calls : Call(c)

Spec == Init /\ [][Next]_vars

-----------------------------------------------------------------------------
TypeOK ==
  /\ ClockOK
  /\ DOMAIN sent \subseteq Nonces /\ \A n \in DOMAIN sent : sent[n] \in Int
  /\ phase \in [Calls -> Phases]
  /\ nonce \in [Calls -> Nonces]
  /\ genuine \in [Calls -> BOOLEAN]
  /\ now \in [Calls -> Int]
  /\ \A c \in Calls : IF phase[c] = "idle" THEN ~ genuine[c]
                                         ELSE nonce[c] \in DOMAIN sent
  /\ DOMAIN nonces \subseteq DOMAIN sent
  /\ \A n \in DOMAIN nonces : nonces[n] \in Int
  /\ doomed \subseteq DOMAIN nonces
  /\ served \in [Nonces -> Nat]

(* One run of the server lets a signed request through at most once: the   *)
(* "rejects replay via a nonce cache" of the module's description.         *)
NoReplay == \A n \in Nonces : served[n] <= 1

(* Testing the nonce and recording it are separate steps, so calls that    *)
(* overlap can each let a copy through: those in flight together, and no   *)
(* copy that comes to its test after one of them was recorded.  A server   *)
(* that runs one call at a time has NoReplay.                              *)
ReplayNeedsOverlap == \A n \in Nonces : served[n] <= Cardinality(Calls)

(* The cache keeps a nonce as long as the window of its request is open,   *)
(* cleaned up or not: no call that could still pass the timestamp check    *)
(* finds the nonce gone.                                                   *)
WindowCovered ==
  \A n \in DOMAIN sent :
    served[n] > 0 /\ Timely(sent[n], clock) => Known(n, clock)

(* A request is spoken for once it was let through, or a call recorded its *)
(* nonce and is about to check the signature.                              *)
Spoken(n) ==
  served[n] > 0 \/ \E c \in Calls : phase[c] = "recorded" /\ nonce[c] = n

(* A copy that comes to the nonce test after its request was spoken for    *)
(* does not pass, however long after, whatever the clean-up listed before  *)
(* it or another copy's signature made of it.                              *)
LateCopyRefused ==
  [][\A c \in Calls :
       TestNonce(c) /\ Spoken(nonce[c]) => phase'[c] = "idle"]_vars
=============================================================================
