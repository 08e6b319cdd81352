---------------------------- MODULE SpokeRequests ----------------------------
(***************************************************************************)
(* A spoke serving signed requests: RequestAuth and UserRegistryCache on   *)
(* one clock and one set of threads.  A thread that received a document    *)
(* looks its user up, verifies with the key the lookup returned, then asks *)
(* the replay guard.  While it does, users rotate and withdraw keys.       *)
(***************************************************************************)
EXTENDS UserRegistryCache

CONSTANTS Rids, Times, MaxAge, Skew, Gap, Ttl, MaxSent

VARIABLES sent, stage, doc, verifiedAt, checkNow, seen, guard, accepted,
          acceptedAt, firstAt

Auth == INSTANCE RequestAuth

ASSUME SpokeAssumption ==
  Auth!TtlAssumption /\ Auth!RequestAssumption /\ Auth!TtlCoversWindow

authVars == <<sent, stage, doc, verifiedAt, checkNow, seen, guard, accepted,
              acceptedAt, firstAt>>
spokeVars == <<clockVars, cacheVars, authVars>>

SpokeInit == Auth!Init /\ CacheInit

-----------------------------------------------------------------------------
(* Mutant: the lookup is not for the user the document names.              *)
LookFor_Anyone(h) == Users \ BadIds

LookFor(h) == {doc[h].user} \ BadIds

(* The thread looks up the user its document names.                        *)
BeginLookup(h) ==
  /\ stage[h] = "received"
  /\ \E u \in LookFor(h) : CacheHit(h, u) \/ CacheMiss(h, u)
  /\ UNCHANGED authVars

Lookup(h) == LookupStep(h) /\ UNCHANGED authVars

(* verify() with the key that was returned.                                *)
UseKey(h) ==
  /\ stage[h] = "received"
  /\ Auth!Verify(h, got[h]) \/ Auth!Refuse(h, got[h])
  /\ TakeKey(h)

(* The lookup raises, or the id is malformed: the request is given up.     *)
GiveUp(h) ==
  \/ LookupRaises(h) /\ Auth!Abandon(h)
  \/ doc[h].user \in BadIds /\ Auth!Abandon(h) /\ UNCHANGED cacheVars

Serve(h) ==
  \/ BeginLookup(h) \/ Lookup(h) \/ UseKey(h) \/ GiveUp(h)
  \/ Auth!Check(h) /\ UNCHANGED cacheVars

SpokeRestart == Auth!Restart /\ CacheLost

Environment ==
  \/ RegistryStep /\ UNCHANGED authVars
  \/ /\ \/ Auth!Tick \/ Auth!ClockStep
        \/ \E d \in Auth!Docs : Auth!Sign(d)
        \/ \E h \in Handlers, d \in Auth!Docs : Auth!Receive(h, d)
     /\ UNCHANGED cacheVars

SpokeNext == SpokeRestart \/ Environment \/ \E h \in Handlers : Serve(h)

SpokeSpec == SpokeInit /\ [][SpokeNext]_spokeVars

-----------------------------------------------------------------------------
(* No document passes verify() under a key its user gave up CacheTtl and a *)
(* clock step before the lookup began: what a rotation or withdrawal in    *)
(* the user registry promises.                                             *)
RetiredKeyRefused ==
  [][\A h \in Handlers, k \in Keys :
       Auth!Verify(h, k) /\ k \in DOMAIN endedAt =>
         lookAt[h] < endedAt[k] + CacheTtl + Back]_spokeVars

(* What passes verify() is signed with a key the named user registered.    *)
SignedByItsUser ==
  [][\A h \in Handlers, k \in Keys :
       Auth!Verify(h, k) => k \in owned[doc[h].user]]_spokeVars

(* Looking keys up concurrently does not disturb the replay guard.         *)
ServedOnce == Auth!NoReplay
=============================================================================
