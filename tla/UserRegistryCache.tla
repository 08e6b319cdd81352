-------------------------- MODULE UserRegistryCache --------------------------
(***************************************************************************)
(* RegistryUserProvider (_keys.py): the spoke's TTL cache over the user    *)
(* registry.  A lookup reads the clock, answers from the cache while the   *)
(* entry lives, and otherwise asks the registry over HTTP; the entry it    *)
(* stores expires Ttl seconds after the clock reading that BEGAN the       *)
(* lookup.  Threads look up concurrently, so answers may be stored in an   *)
(* order other than the one the registry gave them in.                     *)
(*                                                                         *)
(* The registry is a service outside this repository: it holds at most one *)
(* key per user, which may be replaced or withdrawn at any moment.         *)
(***************************************************************************)
EXTENDS WallClock

CONSTANTS
  Handlers,                \* threads of the spoke that look users up
  Users, Keys,             \* registered users and their signing keys
  BadIds,                  \* ids that valid_user_id() refuses
  CacheTtl                 \* cache_ttl_s, 300 by default

ASSUME CacheAssumption == CacheTtl \in Nat \ {0} /\ Keys # {} /\ Users # {}

VARIABLES
  registry,                \* the registry: user -> set of at most one key
  owned,                   \* history: keys ever registered, by user
  endedAt,                 \* history: when a key stopped being registered
  cache,                   \* _users: user -> [exp, key], a partial function
  look, lookUser, lookAt,  \* per thread: stage, user id and clock reading
  got                      \* per thread: the key on its way or returned

registryVars == <<registry, owned, endedAt>>
lookVars == <<look, lookUser, lookAt, got>>
cacheVars == <<registryVars, cache, lookVars>>

LookStages == {"idle", "asking", "found", "unknown", "failed", "done"}
AnyKey == CHOOSE k \in Keys : TRUE
AnyUser == CHOOSE u \in Users : TRUE

CacheInit ==
  /\ registry = [u \in Users |-> {}]
  /\ owned = [u \in Users |-> {}]
  /\ endedAt = [k \in {} |-> 0]
  /\ cache = [u \in {} |-> 0]
  /\ look = [h \in Handlers |-> "idle"]
  /\ lookUser = [h \in Handlers |-> AnyUser]
  /\ lookAt = [h \in Handlers |-> 0]
  /\ got = [h \in Handlers |-> AnyKey]

-----------------------------------------------------------------------------
(* Mutants: one second too long; dated when the answer comes; wrong user.  *)
Alive_Inclusive(u) == u \in DOMAIN cache /\ cache[u].exp >= clock
EntryExpiry_AtStore(h) == clock + CacheTtl
CurrentKey_AnyEver(u) == UNION {owned[v] : v \in Users}

Alive(u) == u \in DOMAIN cache /\ cache[u].exp > clock

EntryExpiry(h) == lookAt[h] + CacheTtl

CurrentKey(u) == registry[u]

(* The registry's side: a user's key is registered, replaced, withdrawn.   *)
End(u) == [k \in DOMAIN endedAt \cup registry[u] |->
             IF k \in registry[u] THEN clock ELSE endedAt[k]]

Register(u, k) ==
  /\ \A v \in Users : k \notin owned[v]
  /\ registry' = [registry EXCEPT ![u] = {k}]
  /\ owned' = [owned EXCEPT ![u] = @ \cup {k}]
  /\ endedAt' = End(u)
  /\ UNCHANGED <<clockVars, cache, lookVars>>

Withdraw(u) ==
  /\ registry[u] # {}
  /\ registry' = [registry EXCEPT ![u] = {}]
  /\ endedAt' = End(u)
  /\ UNCHANGED <<clockVars, owned, cache, lookVars>>

(* _fetch_user() reads the clock and finds a live entry.                   *)
CacheHit(h, u) ==
  /\ look[h] = "idle"
  /\ Alive(u)
  /\ look' = [look EXCEPT ![h] = "done"]
  /\ lookUser' = [lookUser EXCEPT ![h] = u]
  /\ lookAt' = [lookAt EXCEPT ![h] = clock]
  /\ got' = [got EXCEPT ![h] = cache[u].key]
  /\ UNCHANGED <<clockVars, registryVars, cache>>

(* No live entry: GET /users/<id>.                                         *)
CacheMiss(h, u) ==
  /\ look[h] = "idle"
  /\ ~ Alive(u)
  /\ look' = [look EXCEPT ![h] = "asking"]
  /\ lookUser' = [lookUser EXCEPT ![h] = u]
  /\ lookAt' = [lookAt EXCEPT ![h] = clock]
  /\ UNCHANGED <<clockVars, registryVars, cache, got>>

(* The registry reads its record: a key, or 404.                           *)
RegistryAnswers(h) ==
  /\ look[h] = "asking"
  /\ \/ \E k \in CurrentKey(lookUser[h]) :
          /\ look' = [look EXCEPT ![h] = "found"]
          /\ got' = [got EXCEPT ![h] = k]
     \/ /\ CurrentKey(lookUser[h]) = {}
        /\ look' = [look EXCEPT ![h] = "unknown"]
        /\ UNCHANGED got
  /\ UNCHANGED <<clockVars, registryVars, cache, lookUser, lookAt>>

(* No usable answer: timeout, 5xx, or a record that does not parse.        *)
RegistryFails(h) ==
  /\ look[h] = "asking"
  /\ look' = [look EXCEPT ![h] = "failed"]
  /\ UNCHANGED <<clockVars, registryVars, cache, lookUser, lookAt, got>>

(* The answer is stored, over whatever another thread stored meanwhile.    *)
StoreAnswer(h) ==
  /\ look[h] = "found"
  /\ look' = [look EXCEPT ![h] = "done"]
  /\ cache' = [u \in DOMAIN cache \cup {lookUser[h]} |->
                 IF u = lookUser[h]
                 THEN [exp |-> EntryExpiry(h), key |-> got[h]]
                 ELSE cache[u]]
  /\ UNCHANGED <<clockVars, registryVars, lookUser, lookAt, got>>

ClearLook(h) ==
  /\ look' = [look EXCEPT ![h] = "idle"]
  /\ lookUser' = [lookUser EXCEPT ![h] = AnyUser]
  /\ lookAt' = [lookAt EXCEPT ![h] = 0]
  /\ got' = [got EXCEPT ![h] = AnyKey]
  /\ UNCHANGED <<registryVars, cache>>

(* The caller takes the key.                                               *)
TakeKey(h) == look[h] = "done" /\ ClearLook(h)

(* UnknownPeerError or ConfigurationError; a dead entry stays in the cache.*)
LookupRaises(h) == look[h] \in {"unknown", "failed"} /\ ClearLook(h)

(* A restart of the spoke empties the cache.                               *)
CacheLost ==
  /\ cache' = [u \in {} |-> 0]
  /\ look' = [h \in Handlers |-> "idle"]
  /\ lookUser' = [h \in Handlers |-> AnyUser]
  /\ lookAt' = [h \in Handlers |-> 0]
  /\ got' = [h \in Handlers |-> AnyKey]
  /\ UNCHANGED registryVars

RegistryStep == \E u \in Users : Withdraw(u) \/ \E k \in Keys : Register(u, k)

LookupStep(h) ==
  \/ RegistryAnswers(h) \/ RegistryFails(h) \/ StoreAnswer(h)

CacheNext ==
  \/ RegistryStep
  \/ \E h \in Handlers :
       \/ \E u \in Users \ BadIds : CacheHit(h, u) \/ CacheMiss(h, u)
       \/ LookupStep(h)
       \/ UNCHANGED clockVars /\ (TakeKey(h) \/ LookupRaises(h))
  \/ UNCHANGED clockVars /\ CacheLost
  \/ UNCHANGED cacheVars /\ (Advance(Horizon) \/ StepBack)

CacheSpec == CacheInit /\ ClockInit /\ [][CacheNext]_<<clockVars, cacheVars>>

-----------------------------------------------------------------------------
CacheTypeOK ==
  /\ ClockOK
  /\ registry \in [Users -> SUBSET Keys]
  /\ owned \in [Users -> SUBSET Keys]
  /\ DOMAIN endedAt \subseteq Keys
  /\ \A k \in DOMAIN endedAt : endedAt[k] \in Int
  /\ DOMAIN cache \subseteq Users
  /\ \A u \in DOMAIN cache : cache[u] \in [exp : Int, key : Keys]
  /\ look \in [Handlers -> LookStages]
  /\ lookUser \in [Handlers -> Users]
  /\ lookAt \in [Handlers -> Int]
  /\ got \in [Handlers -> Keys]

(* A key the cache hands out was still registered less than CacheTtl (and  *)
(* a clock step) before the lookup began, however long the registry took   *)
(* and in whatever order the threads stored its answers (_fetch_user()).   *)
BoundedStaleness ==
  \A h \in Handlers :
    look[h] = "done" /\ got[h] \in DOMAIN endedAt =>
      lookAt[h] < endedAt[got[h]] + CacheTtl + Back

(* The key returned for a user is one that user registered.                *)
OwnKey ==
  \A h \in Handlers : look[h] = "done" => got[h] \in owned[lookUser[h]]
=============================================================================
