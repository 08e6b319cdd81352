----------------------------- MODULE SpokeProofs -----------------------------
(***************************************************************************)
(* The user key cache, for every number of threads, users and keys, every  *)
(* CacheTtl and every bound Back on clock steps; and the request path that *)
(* SpokeRequests composes from it and from RequestAuth, whose theorems     *)
(* carry over.                                                             *)
(***************************************************************************)
EXTENDS SpokeRequests, TLAPS

Path == INSTANCE RequestAuthProofs

cacheAll == <<clockVars, cacheVars>>

(* Keys belong to one user each; a registered key has not ended.           *)
RegistryFacts ==
  /\ \A u, v \in Users : \A k \in owned[u] \cap owned[v] : u = v
  /\ \A u \in Users : registry[u] \subseteq owned[u] \ DOMAIN endedAt
  /\ \A k \in DOMAIN endedAt : \E u \in Users : k \in owned[u]

(* An entry is dated by the reading that began its lookup: it does not     *)
(* outlive the end of its key by more than CacheTtl and a clock step.      *)
EntriesDated ==
  \A u \in DOMAIN cache :
    /\ cache[u].key \in owned[u]
    /\ cache[u].exp <= peak + CacheTtl
    /\ cache[u].key \in DOMAIN endedAt =>
         cache[u].exp <= endedAt[cache[u].key] + CacheTtl + Back

(* A key still on its way was registered after its lookup began.           *)
AnswersLate ==
  \A h \in Handlers :
    /\ look[h] # "idle" => lookAt[h] <= peak
    /\ look[h] = "found" =>
         /\ got[h] \in owned[lookUser[h]]
         /\ got[h] \in DOMAIN endedAt => lookAt[h] <= endedAt[got[h]] + Back

CacheInv ==
  /\ CacheTypeOK /\ RegistryFacts /\ EntriesDated /\ AnswersLate
  /\ BoundedStaleness /\ OwnKey

-----------------------------------------------------------------------------
LEMMA AnyTyped == AnyKey \in Keys /\ AnyUser \in Users
BY CacheAssumption DEF AnyKey, AnyUser

LEMMA CacheInitially == CacheInit /\ ClockInit => CacheInv
<1> SUFFICES ASSUME CacheInit, ClockInit PROVE CacheInv
  OBVIOUS
<1> USE ClockAssumption DEF CacheInit, ClockInit
<1>1. CacheTypeOK
  BY AnyTyped DEF CacheTypeOK, ClockOK, LookStages
<1>2. RegistryFacts /\ EntriesDated
  BY DEF RegistryFacts, EntriesDated
<1>3. AnswersLate /\ BoundedStaleness /\ OwnKey
  BY DEF AnswersLate, BoundedStaleness, OwnKey
<1>4. QED
  BY <1>1, <1>2, <1>3 DEF CacheInv

(* The registry ends a user's key: the ends recorded before stay, and the  *)
(* new one is within Back of the latest reading anyone could have made.    *)
LEMMA EndRecords ==
  ASSUME CacheTypeOK, RegistryFacts, NEW u \in Users
  PROVE  /\ DOMAIN End(u) = DOMAIN endedAt \cup registry[u]
         /\ \A k \in DOMAIN endedAt : End(u)[k] = endedAt[k]
         /\ \A k \in registry[u] : End(u)[k] = clock
         /\ DOMAIN End(u) \subseteq Keys
         /\ \A k \in DOMAIN End(u) : End(u)[k] \in Int
<1>1. registry[u] \subseteq Keys /\ \A k \in registry[u] : k \notin DOMAIN endedAt
  BY DEF CacheTypeOK, RegistryFacts
<1>2. clock \in Int /\ DOMAIN endedAt \subseteq Keys
      /\ \A k \in DOMAIN endedAt : endedAt[k] \in Int
  BY DEF CacheTypeOK, ClockOK
<1>3. QED
  BY <1>1, <1>2 DEF End

(* Ending a key leaves every dated thing dated: the clock is at most Back  *)
(* behind any reading made so far.                                         *)
LEMMA EndKeepsDates ==
  ASSUME CacheInv, NEW u \in Users, endedAt' = End(u),
         UNCHANGED <<clockVars, cache, lookVars>>,
         \A v \in Users : owned[v] \subseteq owned'[v]
  PROVE  EntriesDated' /\ AnswersLate' /\ BoundedStaleness' /\ OwnKey'
<1> USE ClockAssumption, CacheAssumption DEF CacheInv, clockVars, lookVars
<1>1. \A k \in DOMAIN endedAt' :
        \/ k \in DOMAIN endedAt /\ endedAt'[k] = endedAt[k]
        \/ endedAt'[k] = clock
  BY EndRecords
<1>2. clock \in Int /\ peak \in Int /\ peak <= clock + Back
  BY DEF CacheTypeOK, ClockOK
<1>3. EntriesDated'
  BY <1>1, <1>2 DEF EntriesDated, CacheTypeOK
<1>4. AnswersLate'
  BY <1>1, <1>2 DEF AnswersLate, CacheTypeOK
<1>5. BoundedStaleness'
  BY <1>1, <1>2 DEF BoundedStaleness, AnswersLate, CacheTypeOK
<1>6. OwnKey'
  BY DEF OwnKey, CacheTypeOK
<1>7. QED
  BY <1>3, <1>4, <1>5, <1>6

LEMMA RegisterStep ==
  ASSUME CacheInv, NEW u \in Users, NEW k \in Keys, Register(u, k)
  PROVE  CacheInv'
<1> USE DEF CacheInv
<1>1. CacheTypeOK'
  BY EndRecords DEF Register, CacheTypeOK, ClockOK, clockVars, lookVars
<1>2. RegistryFacts'
  <2>1. /\ owned' = [owned EXCEPT ![u] = @ \cup {k}]
        /\ registry' = [registry EXCEPT ![u] = {k}]
        /\ \A v \in Users : k \notin owned[v]
        /\ registry \in [Users -> SUBSET Keys] /\ owned \in [Users -> SUBSET Keys]
    BY DEF Register, CacheTypeOK
  <2>2. DOMAIN endedAt' = DOMAIN endedAt \cup registry[u]
    BY EndRecords DEF Register
  <2>3. \A v, w \in Users : \A j \in owned'[v] \cap owned'[w] : v = w
    BY <2>1 DEF RegistryFacts
  <2>4. \A v \in Users : owned[v] \subseteq owned'[v]
    BY <2>1
  <2>5. \A j \in DOMAIN endedAt' : \E v \in Users : j \in owned'[v]
    BY <2>2, <2>4 DEF RegistryFacts
  <2>6. ASSUME NEW v \in Users
        PROVE  registry'[v] \subseteq owned'[v] \ DOMAIN endedAt'
    <3>1. k \notin DOMAIN endedAt /\ k \notin registry[u]
      BY <2>1 DEF RegistryFacts
    <3>2. CASE v = u
      BY <2>1, <2>2, <3>1, <3>2
    <3>3. CASE v # u
      <4>1. registry[v] \subseteq owned[v] \ DOMAIN endedAt
            /\ registry[u] \subseteq owned[u]
        BY DEF RegistryFacts
      <4>2. registry[v] \cap registry[u] = {}
        BY <3>3, <4>1 DEF RegistryFacts
      <4>3. registry'[v] = registry[v]
        BY <2>1, <3>3
      <4>4. QED
        BY <2>2, <2>4, <4>1, <4>2, <4>3
    <3>4. QED
      BY <3>2, <3>3
  <2>7. QED
    BY <2>3, <2>5, <2>6 DEF RegistryFacts
<1>3. \A v \in Users : owned[v] \subseteq owned'[v]
  BY DEF Register, CacheTypeOK
<1>4. QED
  BY <1>1, <1>2, <1>3, EndKeepsDates DEF Register

LEMMA WithdrawStep ==
  ASSUME CacheInv, NEW u \in Users, Withdraw(u)
  PROVE  CacheInv'
<1> USE DEF CacheInv
<1>1. CacheTypeOK'
  BY EndRecords DEF Withdraw, CacheTypeOK, ClockOK, clockVars, lookVars
<1>2. RegistryFacts'
  <2>1. /\ owned' = owned
        /\ registry' = [registry EXCEPT ![u] = {}]
        /\ registry \in [Users -> SUBSET Keys]
    BY DEF Withdraw, CacheTypeOK
  <2>2. DOMAIN endedAt' = DOMAIN endedAt \cup registry[u]
    BY EndRecords DEF Withdraw
  <2>3. ASSUME NEW v \in Users
        PROVE  registry'[v] \subseteq owned'[v] \ DOMAIN endedAt'
    <3>1. CASE v = u
      BY <2>1, <3>1
    <3>2. CASE v # u
      BY <2>1, <2>2, <3>2 DEF RegistryFacts
    <3>3. QED
      BY <3>1, <3>2
  <2>4. \A k \in DOMAIN endedAt' : \E v \in Users : k \in owned'[v]
    BY <2>1, <2>2 DEF RegistryFacts
  <2>5. QED
    BY <2>1, <2>3, <2>4 DEF RegistryFacts
<1>3. QED
  BY <1>1, <1>2, EndKeepsDates DEF Withdraw

LEMMA HitStep ==
  ASSUME CacheInv, NEW h \in Handlers, NEW u \in Users, CacheHit(h, u)
  PROVE  CacheInv'
<1> USE ClockAssumption, CacheAssumption
        DEF CacheInv, clockVars, registryVars, lookVars, CacheHit, Alive
<1>1. CacheTypeOK'
  BY AnyTyped DEF CacheTypeOK, ClockOK, LookStages
<1>2. RegistryFacts'
  BY DEF RegistryFacts, CacheTypeOK
<1>3. EntriesDated'
  BY DEF EntriesDated, CacheTypeOK, ClockOK, AnswersLate
<1>4. AnswersLate'
  BY DEF AnswersLate, CacheTypeOK, ClockOK, RegistryFacts
<1>5. BoundedStaleness'
  <2>1. cache[u].exp \in Int /\ cache[u].exp > clock /\ clock \in Int
    BY DEF CacheTypeOK, ClockOK
  <2>2. ASSUME NEW g \in Handlers, look'[g] = "done", got'[g] \in DOMAIN endedAt'
        PROVE  lookAt'[g] < endedAt'[got'[g]] + CacheTtl + Back
    <3>1. CASE g = h
      <4>1. lookAt'[g] = clock /\ got'[g] = cache[u].key /\ endedAt' = endedAt
        BY <3>1 DEF CacheTypeOK
      <4>2. cache[u].exp <= endedAt[cache[u].key] + CacheTtl + Back
        BY <2>2, <4>1 DEF EntriesDated
      <4>3. endedAt[cache[u].key] \in Int
        BY <2>2, <4>1 DEF CacheTypeOK
      <4>4. QED
        BY <2>1, <4>1, <4>2, <4>3
    <3>2. CASE g # h
      BY <2>2, <3>2 DEF BoundedStaleness, CacheTypeOK
    <3>3. QED
      BY <3>1, <3>2
  <2>3. QED
    BY <2>2 DEF BoundedStaleness
<1>6. OwnKey'
  BY DEF OwnKey, CacheTypeOK, EntriesDated, AnswersLate
<1>7. QED
  BY <1>1, <1>2, <1>3, <1>4, <1>5, <1>6

LEMMA MissStep ==
  ASSUME CacheInv, NEW h \in Handlers, NEW u \in Users, CacheMiss(h, u)
  PROVE  CacheInv'
<1> USE ClockAssumption, CacheAssumption
        DEF CacheInv, clockVars, registryVars, lookVars, CacheMiss
<1>1. CacheTypeOK'
  BY AnyTyped DEF CacheTypeOK, ClockOK, LookStages
<1>2. RegistryFacts'
  BY DEF RegistryFacts, CacheTypeOK
<1>3. EntriesDated'
  BY DEF EntriesDated, CacheTypeOK, ClockOK, AnswersLate
<1>4. AnswersLate'
  BY DEF AnswersLate, CacheTypeOK, ClockOK, RegistryFacts
<1>5. BoundedStaleness'
  BY DEF BoundedStaleness, CacheTypeOK, EntriesDated, AnswersLate
<1>6. OwnKey'
  BY DEF OwnKey, CacheTypeOK, EntriesDated, AnswersLate
<1>7. QED
  BY <1>1, <1>2, <1>3, <1>4, <1>5, <1>6

LEMMA AnswerStep ==
  ASSUME CacheInv, NEW h \in Handlers, RegistryAnswers(h)
  PROVE  CacheInv'
<1> USE ClockAssumption, CacheAssumption
        DEF CacheInv, clockVars, registryVars, lookVars, RegistryAnswers, CurrentKey
<1>1. CacheTypeOK'
  BY AnyTyped DEF CacheTypeOK, ClockOK, LookStages
<1>2. RegistryFacts'
  BY DEF RegistryFacts, CacheTypeOK
<1>3. EntriesDated'
  BY DEF EntriesDated, CacheTypeOK, ClockOK, AnswersLate
<1>4. AnswersLate'
  BY DEF AnswersLate, CacheTypeOK, ClockOK, RegistryFacts
<1>5. BoundedStaleness'
  BY DEF BoundedStaleness, CacheTypeOK, EntriesDated, AnswersLate
<1>6. OwnKey'
  BY DEF OwnKey, CacheTypeOK, EntriesDated, AnswersLate
<1>7. QED
  BY <1>1, <1>2, <1>3, <1>4, <1>5, <1>6

LEMMA FailStep ==
  ASSUME CacheInv, NEW h \in Handlers, RegistryFails(h)
  PROVE  CacheInv'
<1> USE ClockAssumption, CacheAssumption
        DEF CacheInv, clockVars, registryVars, lookVars, RegistryFails
<1>1. CacheTypeOK'
  BY AnyTyped DEF CacheTypeOK, ClockOK, LookStages
<1>2. RegistryFacts'
  BY DEF RegistryFacts, CacheTypeOK
<1>3. EntriesDated'
  BY DEF EntriesDated, CacheTypeOK, ClockOK, AnswersLate
<1>4. AnswersLate'
  BY DEF AnswersLate, CacheTypeOK, ClockOK, RegistryFacts
<1>5. BoundedStaleness'
  BY DEF BoundedStaleness, CacheTypeOK, EntriesDated, AnswersLate
<1>6. OwnKey'
  BY DEF OwnKey, CacheTypeOK, EntriesDated, AnswersLate
<1>7. QED
  BY <1>1, <1>2, <1>3, <1>4, <1>5, <1>6

LEMMA StoreStep ==
  ASSUME CacheInv, NEW h \in Handlers, StoreAnswer(h)
  PROVE  CacheInv'
<1> USE ClockAssumption, CacheAssumption
        DEF CacheInv, clockVars, registryVars, lookVars, StoreAnswer, EntryExpiry
<1>1. CacheTypeOK'
  BY AnyTyped DEF CacheTypeOK, ClockOK, LookStages
<1>2. RegistryFacts'
  BY DEF RegistryFacts, CacheTypeOK
<1>3. EntriesDated'
  BY DEF EntriesDated, CacheTypeOK, ClockOK, AnswersLate
<1>4. AnswersLate'
  BY DEF AnswersLate, CacheTypeOK, ClockOK, RegistryFacts
<1>5. BoundedStaleness'
  BY DEF BoundedStaleness, CacheTypeOK, EntriesDated, AnswersLate
<1>6. OwnKey'
  BY DEF OwnKey, CacheTypeOK, EntriesDated, AnswersLate
<1>7. QED
  BY <1>1, <1>2, <1>3, <1>4, <1>5, <1>6

LEMMA ClearStep ==
  ASSUME CacheInv, NEW h \in Handlers, ClearLook(h), UNCHANGED clockVars
  PROVE  CacheInv'
<1> USE ClockAssumption, CacheAssumption
        DEF CacheInv, clockVars, registryVars, lookVars, ClearLook
<1>1. CacheTypeOK'
  BY AnyTyped DEF CacheTypeOK, ClockOK, LookStages
<1>2. RegistryFacts'
  BY DEF RegistryFacts, CacheTypeOK
<1>3. EntriesDated'
  BY DEF EntriesDated, CacheTypeOK, ClockOK, AnswersLate
<1>4. AnswersLate'
  BY DEF AnswersLate, CacheTypeOK, ClockOK, RegistryFacts
<1>5. BoundedStaleness'
  BY DEF BoundedStaleness, CacheTypeOK, EntriesDated, AnswersLate
<1>6. OwnKey'
  BY DEF OwnKey, CacheTypeOK, EntriesDated, AnswersLate
<1>7. QED
  BY <1>1, <1>2, <1>3, <1>4, <1>5, <1>6

LEMMA LostStep ==
  ASSUME CacheInv, CacheLost, UNCHANGED clockVars
  PROVE  CacheInv'
<1> USE ClockAssumption, CacheAssumption
        DEF CacheInv, clockVars, registryVars, lookVars, CacheLost
<1>1. CacheTypeOK'
  BY AnyTyped DEF CacheTypeOK, ClockOK, LookStages
<1>2. RegistryFacts'
  BY DEF RegistryFacts, CacheTypeOK
<1>3. EntriesDated'
  BY DEF EntriesDated, CacheTypeOK, ClockOK, AnswersLate
<1>4. AnswersLate'
  BY DEF AnswersLate, CacheTypeOK, ClockOK, RegistryFacts
<1>5. BoundedStaleness'
  BY DEF BoundedStaleness, CacheTypeOK, EntriesDated, AnswersLate
<1>6. OwnKey'
  BY DEF OwnKey, CacheTypeOK, EntriesDated, AnswersLate
<1>7. QED
  BY <1>1, <1>2, <1>3, <1>4, <1>5, <1>6

LEMMA ClockMoves ==
  ASSUME CacheInv, UNCHANGED cacheVars, Advance(Horizon) \/ StepBack
  PROVE  CacheInv'
<1> USE ClockAssumption, CacheAssumption
        DEF CacheInv, clockVars, registryVars, lookVars, cacheVars, Advance, StepBack
<1>1. CacheTypeOK'
  BY AnyTyped DEF CacheTypeOK, ClockOK, LookStages
<1>2. RegistryFacts'
  BY DEF RegistryFacts, CacheTypeOK
<1>3. EntriesDated'
  BY DEF EntriesDated, CacheTypeOK, ClockOK, AnswersLate
<1>4. AnswersLate'
  BY DEF AnswersLate, CacheTypeOK, ClockOK, RegistryFacts
<1>5. BoundedStaleness'
  BY DEF BoundedStaleness, CacheTypeOK, EntriesDated, AnswersLate
<1>6. OwnKey'
  BY DEF OwnKey, CacheTypeOK, EntriesDated, AnswersLate
<1>7. QED
  BY <1>1, <1>2, <1>3, <1>4, <1>5, <1>6

LEMMA CacheInductive == CacheInv /\ [CacheNext]_cacheAll => CacheInv'
<1> SUFFICES ASSUME CacheInv, [CacheNext]_cacheAll PROVE CacheInv'
  OBVIOUS
<1>1. CASE CacheNext
  BY <1>1, RegisterStep, WithdrawStep, HitStep, MissStep, AnswerStep, FailStep,
     StoreStep, ClearStep, LostStep, ClockMoves
  DEF CacheNext, RegistryStep, LookupStep, TakeKey, LookupRaises
<1>2. CASE UNCHANGED cacheAll
  BY <1>2 DEF cacheAll, clockVars, cacheVars, registryVars, lookVars, CacheInv,
     CacheTypeOK, ClockOK, RegistryFacts, EntriesDated, AnswersLate,
     BoundedStaleness, OwnKey
<1>3. QED
  BY <1>1, <1>2

LEMMA CacheInvariance == CacheSpec => []CacheInv
<1>1. QED
  BY CacheInitially, CacheInductive, PTL DEF CacheSpec, cacheAll

(* Every variable of the cache and of the lookups keeps its type.          *)
THEOREM CacheTypeCorrect == CacheSpec => []CacheTypeOK
<1>1. CacheInv => CacheTypeOK
  BY DEF CacheInv
<1>2. QED
  BY <1>1, CacheInvariance, PTL

(* A withdrawn or rotated key is handed out less than CacheTtl + Back      *)
(* seconds after it ended, whatever the threads and the registry do.       *)
THEOREM StalenessBounded == CacheSpec => []BoundedStaleness
<1>1. CacheInv => BoundedStaleness
  BY DEF CacheInv
<1>2. QED
  BY <1>1, CacheInvariance, PTL

-----------------------------------------------------------------------------
(* SpokeRequests: every step is a step of each part, or leaves it alone.   *)

(* A lookup is for the user of the document its thread holds.              *)
LookMatches ==
  \A h \in Handlers : look[h] # "idle" =>
    stage[h] = "received" /\ lookUser[h] = doc[h].user /\ doc[h].user \notin BadIds

SpokeInv == CacheInv /\ Path!IInv /\ LookMatches

(* The two ways to name the request path mean the same.                    *)
LEMMA SameInit == Auth!Init => Path!Init
BY DEF Auth!Init, Path!Init, Auth!ClockInit, Path!ClockInit, Auth!NothingSeen, Path!NothingSeen,
       Auth!AnyDoc, Path!AnyDoc, Auth!Docs, Path!Docs

LEMMA SameActions ==
  /\ Auth!Restart => Path!Restart
  /\ Auth!Tick => Path!Tick
  /\ Auth!ClockStep => Path!ClockStep
  /\ \A d \in Auth!Docs : Auth!Sign(d) => Path!Sign(d)
  /\ \A h \in Handlers : \A d \in Auth!Docs : Auth!Receive(h, d) => Path!Receive(h, d)
  /\ \A h \in Handlers : \A k \in Keys : Auth!Verify(h, k) => Path!Verify(h, k)
  /\ \A h \in Handlers : \A k \in Keys : Auth!Refuse(h, k) => Path!Refuse(h, k)
  /\ \A h \in Handlers : Auth!Abandon(h) => Path!Abandon(h)
  /\ \A h \in Handlers : Auth!Check(h) => Path!Check(h)
<1> USE DEF Auth!clockVars, Path!clockVars, Auth!handlerVars, Path!handlerVars, Auth!guardVars, Path!guardVars, Auth!historyVars, Path!historyVars
<1>1. Auth!Restart => Path!Restart
  BY DEF Auth!Restart, Path!Restart, Auth!NothingSeen, Path!NothingSeen, Auth!AnyDoc, Path!AnyDoc, Auth!Docs, Path!Docs
<1>2. Auth!Tick => Path!Tick
  BY DEF Auth!Tick, Path!Tick, Auth!Waiting, Path!Waiting, Auth!PastVerify, Path!PastVerify, Auth!InCheck, Path!InCheck, Auth!Advance, Path!Advance
<1>3. Auth!ClockStep => Path!ClockStep
  BY DEF Auth!ClockStep, Path!ClockStep, Auth!StepBack, Path!StepBack
<1>4. \A d \in Auth!Docs : Auth!Sign(d) => Path!Sign(d)
  BY DEF Auth!Sign, Path!Sign, Auth!Cardinality, Path!Cardinality
<1>5. \A h \in Handlers : \A d \in Auth!Docs : Auth!Receive(h, d) => Path!Receive(h, d)
  BY DEF Auth!Receive, Path!Receive
<1>6. \A h \in Handlers : \A k \in Keys : Auth!Verify(h, k) => Path!Verify(h, k)
  BY DEF Auth!Verify, Path!Verify, Auth!FreshAt, Path!FreshAt
<1>7. \A h \in Handlers : \A k \in Keys : Auth!Refuse(h, k) => Path!Refuse(h, k)
  BY DEF Auth!Refuse, Path!Refuse, Auth!FreshAt, Path!FreshAt, Auth!Leave, Path!Leave, Auth!AnyDoc, Path!AnyDoc, Auth!Docs, Path!Docs
<1>8. \A h \in Handlers : Auth!Abandon(h) => Path!Abandon(h)
  BY DEF Auth!Abandon, Path!Abandon, Auth!Leave, Path!Leave, Auth!AnyDoc, Path!AnyDoc, Auth!Docs, Path!Docs
<1>9. ASSUME NEW h \in Handlers PROVE Auth!Check(h) => Path!Check(h)
  <2> USE DEF Auth!Leave, Path!Leave, Auth!AnyDoc, Path!AnyDoc, Auth!Docs, Path!Docs, Auth!Release, Path!Release
  <2>1. Auth!EnterCheck(h) => Path!EnterCheck(h)
    BY DEF Auth!EnterCheck, Path!EnterCheck, Auth!LockFree, Path!LockFree, Auth!Prune, Path!Prune
  <2>2. Auth!SeenBefore(h) => Path!SeenBefore(h)
    BY DEF Auth!SeenBefore, Path!SeenBefore
  <2>3. Auth!NotSeen(h) => Path!NotSeen(h)
    BY DEF Auth!NotSeen, Path!NotSeen
  <2>4. Auth!AcceptRequest(h) => Path!AcceptRequest(h)
    BY DEF Auth!AcceptRequest, Path!AcceptRequest, Auth!Record, Path!Record, Auth!Expiry, Path!Expiry
  <2> QED
    BY <2>1, <2>2, <2>3, <2>4 DEF Auth!Check, Path!Check
<1> QED
  BY <1>1, <1>2, <1>3, <1>4, <1>5, <1>6, <1>7, <1>8, <1>9, Zenon

(* What the assumptions are called along the other way.                    *)
LEMMA PathAssumptions ==
  /\ Path!ClockAssumption /\ Path!TtlAssumption
  /\ Path!RequestAssumption /\ Path!TtlCoversWindow
BY ClockAssumption, SpokeAssumption
DEF Path!ClockAssumption, Path!TtlAssumption, Path!RequestAssumption, Path!TtlCoversWindow,
    Auth!TtlAssumption, Auth!RequestAssumption, Auth!TtlCoversWindow,
    Auth!Docs, Path!Docs, Auth!Larger, Path!Larger

LEMMA SpokeInitially == SpokeInit => SpokeInv
<1> SUFFICES ASSUME SpokeInit PROVE SpokeInv
  OBVIOUS
<1>1. CacheInv
  BY CacheInitially DEF SpokeInit, Auth!Init, Auth!ClockInit, ClockInit
<1>2. Path!IInv
  BY SameInit, PathAssumptions, Path!Initially DEF SpokeInit
<1>3. LookMatches
  BY DEF SpokeInit, CacheInit, LookMatches
<1> QED
  BY <1>1, <1>2, <1>3 DEF SpokeInv

(* What the parts promise about the data the composition passes on.        *)
LEMMA PassedTyped ==
  ASSUME SpokeInv, NEW h \in Handlers
  PROVE  got[h] \in Keys /\ doc[h].user \in Users
BY DEF SpokeInv, CacheInv, CacheTypeOK, Path!IInv, Path!TypeOK, Path!Docs

LEMMA SpokeIsPath ==
  ASSUME SpokeInv, [SpokeNext]_spokeVars
  PROVE  [Path!Next]_(Path!vars)
<1> USE SameActions, PassedTyped
    DEF Path!vars, Path!clockVars, Path!handlerVars, Path!guardVars, Path!historyVars, authVars,
        clockVars, cacheVars
<1>1. CASE SpokeRestart
  BY <1>1 DEF SpokeRestart, Path!Next
<1>2. CASE Environment
  <2>1. CASE RegistryStep /\ UNCHANGED authVars
    BY <2>1 DEF RegistryStep, Register, Withdraw
  <2>2. CASE Auth!Tick \/ Auth!ClockStep
    BY <2>2 DEF Path!Next
  <2>3. CASE \E d \in Auth!Docs : Auth!Sign(d)
    BY <2>3 DEF Path!Next, Auth!Docs, Path!Docs
  <2>4. CASE \E h \in Handlers, d \in Auth!Docs : Auth!Receive(h, d)
    BY <2>4 DEF Path!Next, Auth!Docs, Path!Docs
  <2> QED
    BY <1>2, <2>1, <2>2, <2>3, <2>4 DEF Environment
<1>3. ASSUME NEW h \in Handlers, Serve(h) PROVE [Path!Next]_(Path!vars)
  <2>1. CASE BeginLookup(h)
    BY <2>1 DEF BeginLookup, CacheHit, CacheMiss
  <2>2. CASE Lookup(h)
    BY <2>2 DEF Lookup, LookupStep, RegistryAnswers, RegistryFails, StoreAnswer
  <2>3. CASE UseKey(h)
    BY <2>3 DEF UseKey, Path!Next
  <2>4. CASE GiveUp(h)
    BY <2>4 DEF GiveUp, Path!Next
  <2>5. CASE Auth!Check(h)
    BY <2>5 DEF Path!Next
  <2> QED
    BY <1>3, <2>1, <2>2, <2>3, <2>4, <2>5 DEF Serve
<1>4. CASE UNCHANGED spokeVars
  BY <1>4 DEF spokeVars
<1> QED
  BY <1>1, <1>2, <1>3, <1>4 DEF SpokeNext

(* The request path leaves the clock to Tick and ClockStep.                *)
LEMMA PathClock ==
  ASSUME NEW h \in Handlers, NEW k \in Keys,
         \/ Auth!Restart \/ Auth!Verify(h, k) \/ Auth!Refuse(h, k) \/ Auth!Abandon(h)
         \/ Auth!Check(h) \/ \E d \in Auth!Docs : Auth!Sign(d) \/ Auth!Receive(h, d)
  PROVE  UNCHANGED clockVars
BY DEF clockVars, Auth!clockVars, Auth!Restart, Auth!Verify, Auth!Refuse, Auth!Abandon,
       Auth!Check, Auth!EnterCheck, Auth!SeenBefore, Auth!NotSeen, Auth!AcceptRequest,
       Auth!Sign, Auth!Receive

LEMMA SpokeIsCache ==
  ASSUME SpokeInv, [SpokeNext]_spokeVars
  PROVE  [CacheNext]_cacheAll
<1> USE PassedTyped, PathClock DEF cacheAll
<1>1. CASE SpokeRestart
  BY <1>1 DEF SpokeRestart, CacheNext, Auth!Restart, Auth!clockVars, clockVars
<1>2. CASE Environment
  <2>1. CASE RegistryStep
    BY <2>1 DEF CacheNext
  <2>2. CASE Auth!Tick \/ Auth!ClockStep
    BY <1>2, <2>2, ClockAssumption DEF CacheNext, Environment, RegistryStep, Register, Withdraw,
       Auth!Tick, Auth!ClockStep, Auth!Advance, Advance, Auth!StepBack, StepBack
  <2>3. CASE /\ UNCHANGED cacheVars
             /\ \/ \E d \in Auth!Docs : Auth!Sign(d)
                \/ \E h \in Handlers, d \in Auth!Docs : Auth!Receive(h, d)
    BY <2>3, Zenon DEF Auth!Sign, Auth!Receive, Auth!clockVars, clockVars
  <2> QED
    BY <1>2, <2>1, <2>2, <2>3 DEF Environment
<1>3. ASSUME NEW h \in Handlers, Serve(h) PROVE [CacheNext]_cacheAll
  <2>1. CASE BeginLookup(h)
    BY <2>1 DEF BeginLookup, LookFor, CacheNext
  <2>2. CASE Lookup(h)
    BY <2>2 DEF Lookup, CacheNext
  <2>3. CASE UseKey(h)
    BY <2>3 DEF UseKey, CacheNext
  <2>4. CASE GiveUp(h)
    BY <2>4 DEF GiveUp, CacheNext
  <2>5. CASE Auth!Check(h) /\ UNCHANGED cacheVars
    BY <2>5
  <2> QED
    BY <1>3, <2>1, <2>2, <2>3, <2>4, <2>5 DEF Serve
<1>4. CASE UNCHANGED spokeVars
  BY <1>4 DEF spokeVars
<1> QED
  BY <1>1, <1>2, <1>3, <1>4 DEF SpokeNext

LEMMA LookMatchesKept ==
  ASSUME SpokeInv, [SpokeNext]_spokeVars
  PROVE  LookMatches'
<1> USE DEF SpokeInv, CacheInv, CacheTypeOK, Path!IInv, Path!TypeOK, LookMatches,
        cacheVars, lookVars, authVars
<1>1. CASE SpokeRestart
  BY <1>1 DEF SpokeRestart, CacheLost
<1>2. CASE Environment
  BY <1>2 DEF Environment, RegistryStep, Register, Withdraw, Auth!Tick, Auth!ClockStep,
     Auth!Sign, Auth!Receive, Auth!handlerVars
<1>3. ASSUME NEW h \in Handlers, Serve(h) PROVE LookMatches'
  <2>1. CASE BeginLookup(h)
    BY <2>1 DEF BeginLookup, LookFor, CacheHit, CacheMiss
  <2>2. CASE Lookup(h)
    BY <2>2 DEF Lookup, LookupStep, RegistryAnswers, RegistryFails, StoreAnswer
  <2>3. CASE UseKey(h)
    BY <2>3 DEF UseKey, TakeKey, ClearLook, Auth!Verify, Auth!Refuse, Auth!Leave
  <2>4. CASE GiveUp(h)
    BY <2>4 DEF GiveUp, LookupRaises, ClearLook, Auth!Abandon, Auth!Leave
  <2>5. CASE Auth!Check(h) /\ UNCHANGED cacheVars
    BY <2>5 DEF Auth!Check, Auth!EnterCheck, Auth!SeenBefore, Auth!NotSeen, Auth!AcceptRequest,
       Auth!Leave
  <2> QED
    BY <1>3, <2>1, <2>2, <2>3, <2>4, <2>5 DEF Serve
<1>4. CASE UNCHANGED spokeVars
  BY <1>4 DEF spokeVars
<1> QED
  BY <1>1, <1>2, <1>3, <1>4 DEF SpokeNext

LEMMA SpokeInductive == SpokeInv /\ [SpokeNext]_spokeVars => SpokeInv'
BY SpokeIsPath, SpokeIsCache, LookMatchesKept, CacheInductive, PathAssumptions, Path!Inductive
DEF SpokeInv

LEMMA SpokeInvariance == SpokeSpec => []SpokeInv
<1>1. QED
  BY SpokeInitially, SpokeInductive, PTL DEF SpokeSpec

(* Looking keys up concurrently leaves the request path what it is: each   *)
(* document is accepted at most once.                                      *)
THEOREM SpokeServesOnce == SpokeSpec => []ServedOnce
<1>1. SpokeInv => ServedOnce
  BY DEF SpokeInv, ServedOnce, Path!IInv, Path!Counted, Auth!NoReplay, Auth!Docs, Path!Docs
<1>2. QED
  BY <1>1, SpokeInvariance, PTL

(* The cache in the composition hands out no key long ended.               *)
THEOREM SpokeStalenessBounded == SpokeSpec => []BoundedStaleness
<1>1. SpokeInv => BoundedStaleness
  BY DEF SpokeInv, CacheInv
<1>2. QED
  BY <1>1, SpokeInvariance, PTL

(* A spoke that looks keys up is still the request path: what it does to   *)
(* documents is what RequestAuth says, whatever lookups come between.      *)
THEOREM SpokeImplementsPath == SpokeSpec => Path!Spec
<1>1. SpokeInit => Path!Init
  BY SameInit DEF SpokeInit
<1>2. SpokeInv /\ [SpokeNext]_spokeVars => [Path!Next]_(Path!vars)
  BY SpokeIsPath
<1>3. QED
  BY <1>1, <1>2, SpokeInvariance, PTL DEF SpokeSpec, Path!Spec

(* And it is still the user key cache, whatever verify() and the replay    *)
(* guard do in between.                                                    *)
THEOREM SpokeImplementsCache == SpokeSpec => CacheSpec
<1>1. SpokeInit => CacheInit /\ ClockInit
  BY DEF SpokeInit, Auth!Init, Auth!ClockInit, ClockInit
<1>2. SpokeInv /\ [SpokeNext]_spokeVars => [CacheNext]_cacheAll
  BY SpokeIsCache
<1>3. QED
  BY <1>1, <1>2, SpokeInvariance, PTL DEF SpokeSpec, CacheSpec, cacheAll

(* So the composition acts on a document only while it is fresh, spaces    *)
(* out the uses of a request id, and no restart lets a document in again   *)
(* later than its window is wide.                                          *)
THEOREM SpokeKeepsPathPromises ==
  SpokeSpec => Path!CrashWindowBounded /\ []Path!AcceptedFresh /\ Path!IdReuseSpaced
<1>1. QED
  BY SpokeImplementsPath, PathAssumptions, Path!CrashesWidenNothing, Path!FreshWhenAccepted,
     Path!ReuseSpaced, PTL

(* What passes verify() does so by the key that the lookup returned.       *)
LEMMA VerifiesByLookup ==
  ASSUME SpokeInv, [SpokeNext]_spokeVars, NEW h \in Handlers, NEW k \in Keys,
         Auth!Verify(h, k)
  PROVE  look[h] = "done" /\ got[h] = k
<1> USE DEF SpokeInv, Path!IInv, Path!TypeOK, Auth!Verify, authVars, Auth!handlerVars
<1>1. stage \in [Handlers -> Path!Stages] /\ stage[h] = "received" /\ stage'[h] = "verified"
  OBVIOUS
<1>2. ~ SpokeRestart
  BY <1>1 DEF SpokeRestart, Auth!Restart
<1>3. ~ Environment
  BY <1>1 DEF Environment, Auth!Tick, Auth!ClockStep, Auth!Sign, Auth!Receive
<1>4. ASSUME NEW g \in Handlers, Serve(g) PROVE g = h /\ UseKey(h)
  <2>1. ~ BeginLookup(g) /\ ~ Lookup(g)
    BY <1>1 DEF BeginLookup, Lookup
  <2>2. ~ GiveUp(g)
    BY <1>1 DEF GiveUp, Auth!Abandon, Auth!Leave
  <2>3. ~ Auth!Check(g)
    BY <1>1 DEF Auth!Check, Auth!EnterCheck, Auth!SeenBefore, Auth!NotSeen, Auth!AcceptRequest,
       Auth!Leave
  <2>4. UseKey(g) => g = h
    BY <1>1 DEF UseKey, Auth!Refuse, Auth!Leave
  <2> QED
    BY <1>4, <2>1, <2>2, <2>3, <2>4 DEF Serve
<1>5. UNCHANGED spokeVars => FALSE
  BY <1>1 DEF spokeVars
<1>6. UseKey(h)
  BY <1>2, <1>3, <1>4, <1>5 DEF SpokeNext
<1> QED
  BY <1>1, <1>6 DEF UseKey, TakeKey, Auth!Refuse, Auth!Leave

(* A key that was rotated out or withdrawn verifies nothing once CacheTtl  *)
(* and a clock step have passed before the lookup.                         *)
THEOREM RetiredKeyNeverVerifies == SpokeSpec => RetiredKeyRefused
<1> DEFINE Dated == \A h \in Handlers, k \in Keys :
             Auth!Verify(h, k) /\ k \in DOMAIN endedAt
               => lookAt[h] < endedAt[k] + CacheTtl + Back
<1>1. SpokeInv /\ [SpokeNext]_spokeVars => [Dated]_spokeVars
  BY VerifiesByLookup DEF SpokeInv, CacheInv, BoundedStaleness
<1>2. QED
  BY <1>1, SpokeInvariance, PTL DEF SpokeSpec, RetiredKeyRefused

(* What verifies is signed by a key of the user the document names.        *)
THEOREM VerifiedIsItsUsers == SpokeSpec => SignedByItsUser
<1> DEFINE Own == \A h \in Handlers, k \in Keys :
             Auth!Verify(h, k) => k \in owned[doc[h].user]
<1>1. SpokeInv /\ [SpokeNext]_spokeVars => [Own]_spokeVars
  BY VerifiesByLookup DEF SpokeInv, CacheInv, OwnKey, LookMatches
<1>2. QED
  BY <1>1, SpokeInvariance, PTL DEF SpokeSpec, SignedByItsUser
=============================================================================
