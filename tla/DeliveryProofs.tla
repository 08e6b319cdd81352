---------------------------- MODULE DeliveryProofs ----------------------------
(***************************************************************************)
(* What comes over untrusted paths: manifests and handoffs (Fleet), whose  *)
(* word was true a bounded time before, for any number of entities,        *)
(* documents and moves of the clocks; and streams of envelopes             *)
(* (ChunkStream), read as their intact beginning, for any layout,          *)
(* fragmentation, truncation and damage.                                   *)
(***************************************************************************)
EXTENDS Fleet, ChunkStream, TLAPS

(* A hub stamps at most Lead ahead of a reading that was at most Back      *)
(* ahead of the reading at which the fact ended.                           *)
StampedBy(date, end) == date <= end + Back + Lead

(* A signed manifest lists who was enrolled at its date, and is the newest *)
(* until superseded.                                                       *)
ManifestDated(m) ==
  /\ m.genuine /\ m.version \in 1..version
  /\ m.expires = m.issued + Life /\ m.issued <= peak + Lead
  /\ \A i \in m.peers : i \in known /\ (i \in DOMAIN endedAt => StampedBy(m.issued, endedAt[i]))
  /\ m.version \in DOMAIN supersededAt => StampedBy(m.issued, supersededAt[m.version])

HandoffDated(h) ==
  /\ h.genuine /\ h.entity \in known
  /\ h.expires = h.issued + Ttl /\ h.issued <= peak + Lead
  /\ h.entity \in DOMAIN endedAt => StampedBy(h.issued, endedAt[h.entity])

ManifestsDated == \A m \in manifests : ManifestDated(m)
HandoffsDated == \A h \in handoffs : HandoffDated(h)

FleetInv == FleetTypeOK /\ ManifestsDated /\ HandoffsDated

-----------------------------------------------------------------------------
LEMMA FleetInitially == FleetInit => FleetInv
<1> SUFFICES ASSUME FleetInit PROVE FleetInv
  OBVIOUS
<1> USE ClockAssumption, ManifestAssumption, HandoffAssumption
    DEF FleetInit, ClockInit, MemberInit, ManifestInit, HandoffInit
<1>1. ClockOK /\ MemberOK
  BY DEF ClockOK, MemberOK
<1>2. ManifestOK /\ HandoffOK
  BY DEF ManifestOK, HandoffOK
<1>3. ManifestsDated /\ HandoffsDated
  BY DEF ManifestsDated, HandoffsDated
<1> QED
  BY <1>1, <1>2, <1>3 DEF FleetInv, FleetTypeOK

(* What a step must not do to the facts the documents are dated by.        *)
FactsGrow ==
  /\ peak <= peak' /\ known \subseteq known' /\ version <= version'
  /\ \A i \in DOMAIN endedAt' : \/ i \in DOMAIN endedAt /\ endedAt'[i] = endedAt[i]
                                \/ endedAt'[i] = clock
  /\ \A v \in DOMAIN supersededAt' :
       \/ v \in DOMAIN supersededAt /\ supersededAt'[v] = supersededAt[v]
       \/ supersededAt'[v] = clock

LEMMA DatedStay ==
  ASSUME FleetInv, FactsGrow, ClockOK', version' \in Nat
  PROVE  /\ \A m \in manifests : ManifestDated(m)'
         /\ \A h \in handoffs : HandoffDated(h)'
<1> USE ClockAssumption, MembershipAssumption DEF FleetInv, FleetTypeOK, FactsGrow, StampedBy
<1>1. /\ clock \in Int /\ peak \in Int /\ peak' \in Int /\ peak <= clock + Back
      /\ version \in Nat
  BY DEF ClockOK, ManifestOK
<1>2. ASSUME NEW m \in manifests PROVE ManifestDated(m)'
  <2>1. m.issued \in Int /\ m.version \in Nat /\ ManifestDated(m)
    BY DEF ManifestsDated, ManifestOK, Manifests
  <2>2. m.issued <= clock + Back + Lead
    BY <1>1, <2>1 DEF ManifestDated
  <2> QED
    BY <1>1, <2>1, <2>2 DEF ManifestDated
<1>3. ASSUME NEW h \in handoffs PROVE HandoffDated(h)'
  <2>1. h.issued \in Int /\ HandoffDated(h)
    BY DEF HandoffsDated, HandoffOK, HandoffDocs
  <2>2. h.issued <= clock + Back + Lead
    BY <1>1, <2>1 DEF HandoffDated
  <2> QED
    BY <1>1, <2>1, <2>2 DEF HandoffDated
<1> QED
  BY <1>2, <1>3

LEMMA ClockMovesKeep ==
  ASSUME FleetInv, ClockMoves
  PROVE  FleetInv'
<1> USE ClockAssumption
    DEF FleetInv, FleetTypeOK, ClockMoves, memberVars, manifestVars, signerVars, providerVars,
        handoffVars
<1>1. ClockOK' /\ peak <= peak'
  BY DEF ClockOK, Advance, StepBack
<1>2. MemberOK' /\ ManifestOK' /\ HandoffOK'
  BY DEF MemberOK, ManifestOK, HandoffOK
<1>3. FactsGrow /\ version' \in Nat
  BY <1>1 DEF FactsGrow, ManifestOK
<1> QED
  BY <1>1, <1>2, <1>3, DatedStay DEF ManifestsDated, HandoffsDated

LEMMA MembersKeep ==
  ASSUME FleetInv, MemberStep, UNCHANGED <<manifestVars, handoffVars>>
  PROVE  FleetInv'
<1> USE DEF FleetInv, FleetTypeOK, manifestVars, signerVars, providerVars, handoffVars
<1>1. PICK e \in Entities : Enlist(e) \/ Remove(e)
  BY DEF MemberStep
<1>2. UNCHANGED clockVars /\ known \subseteq known'
  BY <1>1 DEF Enlist, Remove
<1>3. ClockOK' /\ ManifestOK' /\ HandoffOK'
  BY <1>2 DEF ClockOK, ManifestOK, HandoffOK, clockVars
<1>4. \A i \in DOMAIN endedAt' : \/ i \in DOMAIN endedAt /\ endedAt'[i] = endedAt[i]
                                \/ endedAt'[i] = clock
  <2>1. CASE Enlist(e)
    BY <2>1 DEF Enlist
  <2>2. CASE Remove(e)
    BY <2>2 DEF Remove, Ended
  <2> QED
    BY <1>1, <2>1, <2>2
<1>5. MemberOK'
  <2>1. CASE Enlist(e)
    BY <2>1 DEF Enlist, MemberOK
  <2>2. CASE Remove(e)
    <3>1. endedAt' = Ended(e, endedAt) /\ enlisted' = enlisted \ {e} /\ known' = known
          /\ e \in enlisted /\ clock \in Int
      BY <2>2 DEF Remove, ClockOK
    <3>2. DOMAIN endedAt' = DOMAIN endedAt \cup {e}
      BY <3>1 DEF Ended
    <3> QED
      BY <1>4, <3>1, <3>2 DEF MemberOK
  <2> QED
    BY <1>1, <2>1, <2>2
<1>6. FactsGrow /\ version' \in Nat
  BY <1>2, <1>4 DEF FactsGrow, ManifestOK, clockVars, ClockOK
<1> QED
  BY <1>3, <1>5, <1>6, DatedStay DEF ManifestsDated, HandoffsDated

(* The hub's stamp is a whole number, at most Lead ahead.                  *)
LEMMA StampTyped ==
  ASSUME ClockOK, NEW date \in HubClock
  PROVE  date \in Int /\ date <= peak + Lead
BY ClockAssumption, MembershipAssumption DEF ClockOK, HubClock

LEMMA SigningKeeps ==
  ASSUME FleetInv, SignManifest, UNCHANGED handoffVars
  PROVE  FleetInv'
<1> USE ManifestAssumption
    DEF FleetInv, FleetTypeOK, clockVars, memberVars, providerVars, handoffVars
<1>1. PICK date \in HubClock : manifests' = manifests \cup {Signed(version + 1, date)}
  BY DEF SignManifest
<1> DEFINE new == Signed(version + 1, date)
<1>2. date \in Int /\ date <= peak + Lead
  BY StampTyped
<1>3. /\ version \in Nat /\ version' = version + 1 /\ version' \in 0..MaxVersion
      /\ UNCHANGED <<clockVars, memberVars, providerVars>>
  BY DEF SignManifest, ManifestOK
<1>4. /\ DOMAIN supersededAt' = 1..version
      /\ \A v \in DOMAIN supersededAt' :
           \/ v \in DOMAIN supersededAt /\ supersededAt'[v] = supersededAt[v]
           \/ supersededAt'[v] = clock
  <2>1. CASE version = 0
    BY <1>3, <2>1 DEF SignManifest, ManifestOK
  <2>2. CASE version # 0
    <3>1. supersededAt' = Ended(version, supersededAt) /\ DOMAIN supersededAt = 1..(version - 1)
      BY <2>2 DEF SignManifest, ManifestOK
    <3>2. DOMAIN supersededAt' = 1..(version - 1) \cup {version}
      BY <3>1 DEF Ended
    <3>3. 1..(version - 1) \cup {version} = 1..version
      BY <1>3, <2>2
    <3> QED
      BY <3>1, <3>2, <3>3 DEF Ended
  <2> QED
    BY <2>1, <2>2
<1>5. ClockOK' /\ MemberOK' /\ HandoffOK'
  BY <1>3 DEF ClockOK, MemberOK, HandoffOK
<1>6. new \in Manifests
  BY <1>2, <1>3 DEF Manifests, Signed, MemberOK
<1>7. ManifestOK'
  <2>1. \A v \in DOMAIN supersededAt' : supersededAt'[v] \in Int
    BY <1>4 DEF ManifestOK, ClockOK
  <2> QED
    BY <1>1, <1>3, <1>4, <1>6, <2>1 DEF ManifestOK
<1>8. FactsGrow
  BY <1>3, <1>4 DEF FactsGrow, ClockOK
<1>9. ASSUME NEW m, m = new PROVE ManifestDated(m)'
  <2>1. /\ m.genuine /\ m.version = version + 1 /\ m.issued = date
        /\ m.expires = date + Life /\ m.peers = enlisted
    BY <1>9 DEF Signed
  <2>2. m.version \in 1..version' /\ m.version \notin DOMAIN supersededAt'
    BY <1>3, <1>4, <2>1
  <2>3. \A i \in m.peers : i \in known' /\ i \notin DOMAIN endedAt'
    BY <1>3, <2>1 DEF MemberOK
  <2> QED
    BY <1>2, <1>3, <2>1, <2>2, <2>3 DEF ManifestDated
<1>10. ManifestsDated' /\ HandoffsDated'
  BY <1>1, <1>3, <1>5, <1>8, <1>9, DatedStay DEF ManifestsDated, HandoffsDated
<1> QED
  BY <1>5, <1>7, <1>10

(* What the untrusted path serves and the client loads is a manifest the   *)
(* hub signed, and its date bounds the client's clock.                     *)
LEMMA LoadedDated ==
  ASSUME FleetInv, NEW m \in Served, Vouched(m), FreshManifest(m)
  PROVE  /\ m \in manifests /\ ManifestDated(m)
         /\ m.issued \in Int /\ clock <= m.issued + Smaller(MaxAge, Life + Skew)
<1> USE DEF FleetInv, FleetTypeOK
<1>1. m \in manifests
  BY DEF Served, Altered, Vouched, ManifestOK, Manifests
<1>2. m.issued \in Int /\ clock \in Int /\ ManifestDated(m)
  BY <1>1 DEF ManifestOK, Manifests, ClockOK, ManifestsDated
<1> QED
  BY <1>1, <1>2, ManifestAssumption DEF FreshManifest, ManifestDated, Smaller

LEMMA ProviderKeeps ==
  ASSUME FleetInv, LoadManifest \/ ForgetManifest, UNCHANGED handoffVars
  PROVE  FleetInv'
<1> USE DEF FleetInv, FleetTypeOK, clockVars, memberVars, signerVars, handoffVars
<1>1. UNCHANGED <<clockVars, memberVars, signerVars>>
  BY DEF LoadManifest, ForgetManifest
<1>2. ClockOK' /\ MemberOK' /\ HandoffOK'
  BY <1>1 DEF ClockOK, MemberOK, HandoffOK
<1>3. peers' \subseteq known /\ peersVersion' \in 0..version /\ loadedAt' \in Int
  <2>1. CASE LoadManifest
    <3>1. PICK m \in Served : Vouched(m) /\ FreshManifest(m) /\ peers' = m.peers
                             /\ peersVersion' = m.version
      BY <2>1 DEF LoadManifest
    <3>2. ManifestDated(m)
      BY <3>1, LoadedDated
    <3>3. loadedAt' = clock
      BY <2>1 DEF LoadManifest
    <3> QED
      BY <3>1, <3>2, <3>3 DEF ManifestDated, ManifestOK, ClockOK
  <2>2. CASE ForgetManifest
    BY <2>2 DEF ForgetManifest, ManifestOK
  <2> QED
    BY <2>1, <2>2
<1>4. ManifestOK'
  BY <1>1, <1>3 DEF ManifestOK
<1>5. FactsGrow /\ version' \in Nat
  BY <1>1 DEF FactsGrow, ManifestOK, ClockOK
<1> QED
  BY <1>1, <1>2, <1>4, <1>5, DatedStay DEF ManifestsDated, HandoffsDated

LEMMA HandoffsKeep ==
  ASSUME FleetInv, HandoffStep, UNCHANGED manifestVars
  PROVE  FleetInv'
<1> USE DEF FleetInv, FleetTypeOK, clockVars, memberVars, manifestVars, signerVars, providerVars
<1>1. PICK i \in Entities : BuildHandoff(i) \/ UnwrapHandoff(i) \/ ForgetHandoff(i)
  BY DEF HandoffStep
<1>2. UNCHANGED <<clockVars, memberVars>>
  BY <1>1 DEF BuildHandoff, UnwrapHandoff, ForgetHandoff
<1>3. ClockOK' /\ MemberOK' /\ ManifestOK'
  BY <1>2 DEF ClockOK, MemberOK, ManifestOK
<1>4. FactsGrow /\ version' \in Nat
  BY <1>2 DEF FactsGrow, ManifestOK, ClockOK
<1>5. ManifestsDated'
  BY <1>3, <1>4, DatedStay DEF ManifestsDated
<1>6. CASE BuildHandoff(i)
  <2>1. PICK date \in HubClock :
          handoffs' = handoffs \cup
            {[entity |-> i, issued |-> date, expires |-> date + Ttl, genuine |-> TRUE]}
    BY <1>6 DEF BuildHandoff
  <2>2. date \in Int /\ date <= peak + Lead
    BY StampTyped
  <2>3. HandoffOK'
    <3>1. [entity |-> i, issued |-> date, expires |-> date + Ttl, genuine |-> TRUE] \in HandoffDocs
      BY <2>2, HandoffAssumption DEF HandoffDocs
    <3>2. built' \in 0..MaxHandoffs
      BY <1>6, HandoffAssumption DEF BuildHandoff, HandoffOK
    <3> QED
      BY <1>2, <1>6, <2>1, <3>1, <3>2 DEF BuildHandoff, HandoffOK
  <2>4. i \in known /\ i \notin DOMAIN endedAt
    BY <1>6 DEF BuildHandoff, MemberOK
  <2>5. ASSUME NEW h,
               h = [entity |-> i, issued |-> date, expires |-> date + Ttl, genuine |-> TRUE]
        PROVE  HandoffDated(h)'
    BY <1>2, <2>2, <2>4, <2>5 DEF HandoffDated
  <2>6. HandoffsDated'
    BY <1>3, <1>4, <2>1, <2>5, DatedStay DEF HandoffsDated
  <2> QED
    BY <1>3, <1>5, <2>3, <2>6
<1>7. CASE UnwrapHandoff(i)
  <2>1. PICK h \in Brought(i) : OpensFor(h, i)
    BY <1>7 DEF UnwrapHandoff
  <2>2. i \in known
    BY <2>1 DEF Brought, Forged, OpensFor, HandoffOK, HandoffDocs, HandoffsDated, HandoffDated
  <2>3. /\ unwrapped' = [e \in DOMAIN unwrapped \cup {i} |-> IF e = i THEN clock ELSE unwrapped[e]]
        /\ UNCHANGED <<built, handoffs>>
    BY <1>7 DEF UnwrapHandoff
  <2>4. HandoffOK'
    BY <1>2, <2>2, <2>3 DEF HandoffOK, ClockOK
  <2> QED
    BY <1>3, <1>4, <1>5, <2>3, <2>4, DatedStay DEF HandoffsDated
<1>8. CASE ForgetHandoff(i)
  <2>1. /\ unwrapped' = [e \in DOMAIN unwrapped \ {i} |-> unwrapped[e]]
        /\ UNCHANGED <<built, handoffs>>
    BY <1>8 DEF ForgetHandoff
  <2>2. HandoffOK'
    BY <1>2, <2>1 DEF HandoffOK
  <2> QED
    BY <1>3, <1>4, <1>5, <2>1, <2>2, DatedStay DEF HandoffsDated
<1> QED
  BY <1>1, <1>6, <1>7, <1>8

LEMMA FleetInductive == FleetInv /\ [FleetNext]_fleetVars => FleetInv'
<1> SUFFICES ASSUME FleetInv, [FleetNext]_fleetVars PROVE FleetInv'
  OBVIOUS
<1>1. CASE FleetNext
  BY <1>1, ClockMovesKeep, MembersKeep, SigningKeeps, ProviderKeeps, HandoffsKeep
  DEF FleetNext, ManifestStep
<1>2. CASE UNCHANGED fleetVars
  BY <1>2
  DEF fleetVars, clockVars, memberVars, manifestVars, signerVars, providerVars, handoffVars,
      FleetInv, FleetTypeOK, ClockOK, MemberOK, ManifestOK, HandoffOK, ManifestsDated,
      HandoffsDated, ManifestDated, HandoffDated
<1> QED
  BY <1>1, <1>2

LEMMA FleetInvariance == FleetSpec => []FleetInv
<1>1. QED
  BY FleetInitially, FleetInductive, PTL DEF FleetSpec

(* The hub's documents and what the clients took from them keep their      *)
(* types.                                                                  *)
THEOREM FleetTypeCorrect == FleetSpec => []FleetTypeOK
<1>1. FleetInv => FleetTypeOK
  BY DEF FleetInv
<1>2. QED
  BY <1>1, FleetInvariance, PTL

-----------------------------------------------------------------------------
(* Every reader of the hub's documents implements RecentFacts.             *)

(* Loading is the one step that changes what the provider holds, restarts  *)
(* aside.                                                                  *)
LEMMA LoadsOrKeeps ==
  ASSUME [FleetNext]_fleetVars
  PROVE  \/ LoadManifest
         \/ ForgetManifest
         \/ UNCHANGED <<peers, peersVersion, loadedAt>>
BY DEF FleetNext, ClockMoves, ManifestStep, SignManifest, fleetVars, manifestVars, providerVars

(* Whom a client takes for a peer was enrolled less than ManifestBound     *)
(* before.                                                                 *)
THEOREM PeersAreRecent == FleetSpec => PeersRecent
<1>1. FleetInit => PeersPromise!Init
  BY DEF FleetInit, ManifestInit, PeersPromise!Init
<1>2. ASSUME FleetInv, [FleetNext]_fleetVars
      PROVE  [PeersPromise!Next]_([i \in peers |-> loadedAt])
  <2>1. CASE LoadManifest
    <3>1. PICK m \in Served : Vouched(m) /\ FreshManifest(m) /\ peers' = m.peers
      BY <2>1 DEF LoadManifest
    <3>2. /\ ManifestDated(m) /\ m.issued \in Int
          /\ clock <= m.issued + Smaller(MaxAge, Life + Skew)
      BY <1>2, <3>1, LoadedDated
    <3>3. clock \in Int /\ \A i \in DOMAIN endedAt : endedAt[i] \in Int
      BY <1>2 DEF FleetInv, FleetTypeOK, ClockOK, MemberOK
    <3>4. ASSUME NEW i \in peers' PROVE PeersPromise!Recent(i)
      BY <3>1, <3>2, <3>3, <3>4, ClockAssumption, MembershipAssumption, ManifestAssumption
      DEF PeersPromise!Recent, ManifestDated, StampedBy, ManifestBound, Smaller
    <3>5. loadedAt' = clock
      BY <2>1 DEF LoadManifest
    <3> QED
      BY <3>4, <3>5 DEF PeersPromise!Next, PeersPromise!Taken
  <2>2. CASE ForgetManifest
    BY <2>2 DEF ForgetManifest, PeersPromise!Next
  <2>3. CASE UNCHANGED <<peers, loadedAt>>
    BY <2>3
  <2> QED
    BY <1>2, <2>1, <2>2, <2>3, LoadsOrKeeps
<1>3. QED
  BY <1>1, <1>2, FleetInvariance, PTL DEF FleetSpec, PeersRecent, PeersPromise!Spec

(* The manifest a client takes over was the newest less than ManifestBound *)
(* before.                                                                 *)
THEOREM VersionIsRecent == FleetSpec => VersionRecent
<1>1. FleetInit => VersionPromise!Init
  BY DEF FleetInit, ManifestInit, VersionPromise!Init
<1>2. ASSUME FleetInv, [FleetNext]_fleetVars
      PROVE  [VersionPromise!Next]_([v \in {peersVersion} \ {0} |-> loadedAt])
  <2>1. CASE LoadManifest
    <3>1. PICK m \in Served : Vouched(m) /\ FreshManifest(m) /\ peersVersion' = m.version
      BY <2>1 DEF LoadManifest
    <3>2. /\ ManifestDated(m) /\ m.issued \in Int
          /\ clock <= m.issued + Smaller(MaxAge, Life + Skew)
      BY <1>2, <3>1, LoadedDated
    <3>3. clock \in Int /\ \A v \in DOMAIN supersededAt : supersededAt[v] \in Int
      BY <1>2 DEF FleetInv, FleetTypeOK, ClockOK, ManifestOK
    <3>4. VersionPromise!Recent(peersVersion')
      BY <3>1, <3>2, <3>3, ClockAssumption, MembershipAssumption, ManifestAssumption
      DEF VersionPromise!Recent, ManifestDated, StampedBy, ManifestBound, Smaller
    <3>5. loadedAt' = clock
      BY <2>1 DEF LoadManifest
    <3> QED
      BY <3>4, <3>5 DEF VersionPromise!Next, VersionPromise!Taken
  <2>2. CASE ForgetManifest
    BY <2>2 DEF ForgetManifest, VersionPromise!Next
  <2>3. CASE UNCHANGED <<peersVersion, loadedAt>>
    BY <2>3
  <2> QED
    BY <1>2, <2>1, <2>2, <2>3, LoadsOrKeeps
<1>3. QED
  BY <1>1, <1>2, FleetInvariance, PTL DEF FleetSpec, VersionRecent, VersionPromise!Spec

(* A spoke opens a handoff only while it is approved, or HandoffBound      *)
(* after.                                                                  *)
THEOREM HandoffIsRecent == FleetSpec => HandoffRecent
<1>1. FleetInit => HandoffPromise!Init
  BY DEF FleetInit, HandoffInit, HandoffPromise!Init
<1>2. ASSUME FleetInv, [FleetNext]_fleetVars
      PROVE  [HandoffPromise!Next]_unwrapped
  <2>1. ASSUME NEW i \in Entities, UnwrapHandoff(i) PROVE HandoffPromise!Next
    <3>1. PICK h \in Brought(i) : OpensFor(h, i) /\ FreshHandoff(h)
      BY <2>1 DEF UnwrapHandoff
    <3>2. h \in handoffs
      BY <1>2, <3>1 DEF Brought, Forged, OpensFor, FleetInv, FleetTypeOK, HandoffOK, HandoffDocs
    <3>3. h.issued \in Int /\ HandoffDated(h) /\ h.entity = i
      BY <1>2, <3>1, <3>2
      DEF FleetInv, FleetTypeOK, HandoffOK, HandoffDocs, HandoffsDated, OpensFor
    <3>4. clock \in Int /\ \A e \in DOMAIN endedAt : endedAt[e] \in Int
      BY <1>2 DEF FleetInv, FleetTypeOK, ClockOK, MemberOK
    <3>5. HandoffPromise!Recent(i)
      BY <3>1, <3>3, <3>4, ClockAssumption, MembershipAssumption, HandoffAssumption
      DEF HandoffPromise!Recent, FreshHandoff, HandoffDated, StampedBy, HandoffBound, Smaller
    <3>6. unwrapped' = [e \in DOMAIN unwrapped \cup {i} |->
                          IF e = i THEN clock ELSE unwrapped[e]]
      BY <2>1 DEF UnwrapHandoff
    <3> QED
      BY <3>5, <3>6 DEF HandoffPromise!Next, HandoffPromise!Taken, HandoffPromise!Kept
  <2>2. ASSUME NEW i \in Entities, ForgetHandoff(i) PROVE HandoffPromise!Next
    BY <2>2 DEF ForgetHandoff, HandoffPromise!Next, HandoffPromise!Kept
  <2>3. CASE UNCHANGED unwrapped
    BY <2>3
  <2>4. \/ \E i \in Entities : UnwrapHandoff(i) \/ ForgetHandoff(i)
        \/ UNCHANGED unwrapped
    BY <1>2
    DEF FleetNext, ClockMoves, HandoffStep, BuildHandoff, fleetVars, handoffVars
  <2> QED
    BY <2>1, <2>2, <2>3, <2>4
<1>3. QED
  BY <1>1, <1>2, FleetInvariance, PTL DEF FleetSpec, HandoffRecent, HandoffPromise!Spec

-----------------------------------------------------------------------------
(* Streams of envelopes.                                                   *)

StreamTypeOK ==
  /\ ends \in [0..Envelopes -> Nat] /\ EndOf(0) = 0 /\ Laid
  /\ damage \in [Ids -> Damages]
  /\ cut \in 0..EndOf(Envelopes)
  /\ arrived \in 0..cut /\ ended \in BOOLEAN
  /\ taken \in 0..arrived
  /\ phase \in Reading \cup {"returned", "raised"}
  /\ yielded \in 0..Envelopes

(* The source ends only when all that arrives has arrived, and a body is   *)
(* read only of an envelope that was sent.                                 *)
EndKnown == ended => arrived = cut
BodyOfSent == phase = "body" => yielded < Envelopes /\ damage[Upcoming] # "header"

StreamInv == StreamTypeOK /\ EndKnown /\ BodyOfSent /\ YieldedInPlace

(* Every envelope is a header and a body of some length.                   *)
LEMMA LaidOut ==
  ASSUME StreamTypeOK, NEW i \in 0..Envelopes, i < Envelopes
  PROVE  /\ i + 1 \in Ids /\ EndOf(i) \in Nat /\ EndOf(i + 1) \in Nat
         /\ BodyLength(i + 1) \in Nat \ {0}
         /\ EndOf(i + 1) = EndOf(i) + Header + BodyLength(i + 1)
<1> USE StreamAssumption DEF StreamTypeOK, EndOf
<1>1. i + 1 \in Ids /\ (i + 1) - 1 = i
  BY DEF Ids
<1>2. EndOf(i) \in Nat /\ EndOf(i + 1) \in Nat
  BY <1>1 DEF Ids
<1>3. EndOf(i + 1) - EndOf(i) \in Header + 1 .. Header + MaxBody
  BY <1>1 DEF Laid
<1>4. QED
  BY <1>1, <1>2, <1>3 DEF BodyLength

LEMMA StreamInitially == Init => StreamInv
<1> SUFFICES ASSUME Init PROVE StreamInv
  OBVIOUS
<1> USE StreamAssumption
<1>1. ends \in [0..Envelopes -> Nat] /\ EndOf(0) = 0
  <2>1. 0 .. Envelopes * (Header + MaxBody) \subseteq Nat
    OBVIOUS
  <2>2. QED
    BY <2>1 DEF Init
<1>2. EndOf(Envelopes) \in Nat
  BY <1>1 DEF EndOf
<1>3. /\ Laid /\ damage \in [Ids -> Damages] /\ cut \in 0..EndOf(Envelopes)
      /\ arrived = 0 /\ ended = FALSE /\ taken = 0 /\ phase = "header" /\ yielded = 0
  BY DEF Init
<1>4. StreamTypeOK
  <2>1. arrived \in 0..cut /\ taken \in 0..arrived /\ yielded \in 0..Envelopes
    BY <1>2, <1>3
  <2>2. ended \in BOOLEAN /\ phase \in Reading
    BY <1>3 DEF Reading
  <2>3. QED
    BY <1>1, <1>3, <2>1, <2>2 DEF StreamTypeOK
<1>5. EndKnown /\ BodyOfSent
  BY <1>3 DEF EndKnown, BodyOfSent
<1>6. YieldedInPlace
  BY <1>1, <1>2, <1>3 DEF YieldedInPlace, Whole, Intact
<1>7. QED
  BY <1>4, <1>5, <1>6 DEF StreamInv

LEMMA PullKeeps == ASSUME StreamInv, PullFragment \/ SourceEnds PROVE StreamInv'
<1> USE DEF sourceVars, PullFragment, SourceEnds
<1>1. UNCHANGED <<ends, damage, cut, taken, phase, yielded>>
  OBVIOUS
<1>2. arrived' \in arrived..cut /\ ended' \in BOOLEAN /\ (ended' => arrived' = cut)
  <2>1. arrived \in Nat /\ cut \in Nat /\ arrived <= cut /\ ended \in BOOLEAN
    BY StreamAssumption DEF StreamInv, StreamTypeOK, EndOf
  <2>2. CASE PullFragment
    <3>1. PICK n \in 1..MaxFragment : arrived + n <= cut /\ arrived' = arrived + n
      BY <2>2
    <3>2. QED
      BY <2>1, <2>2, <3>1
  <2>3. CASE SourceEnds
    BY <2>1, <2>3
  <2>4. QED
    BY <2>2, <2>3
<1>3. StreamTypeOK'
  BY <1>1, <1>2 DEF StreamInv, StreamTypeOK, EndOf, Laid
<1>4. EndKnown' /\ BodyOfSent'
  BY <1>1, <1>2 DEF StreamInv, EndKnown, BodyOfSent, Upcoming
<1>5. YieldedInPlace'
  BY <1>1 DEF StreamInv, YieldedInPlace, Whole, Intact, EndOf
<1>6. QED
  BY <1>3, <1>4, <1>5 DEF StreamInv

(* What read(n) returns: n bytes, or the last ones of the stream.          *)
LEMMA ReadReturns ==
  ASSUME StreamInv, NEW n \in Nat, ended \/ ~ Short(n)
  PROVE  /\ Buffered(n) \in 0..n /\ taken + Buffered(n) \in taken..arrived
         /\ Buffered(n) < n => taken + Buffered(n) = cut
BY DEF StreamInv, StreamTypeOK, EndKnown, Short, Buffered, EndOf

(* Where the header of the next envelope is read, and where it ends.       *)
LEMMA HeaderRead ==
  ASSUME StreamInv, ReadHeader
  PROVE  /\ taken = EndOf(yielded) /\ Buffered(Header) \in 0..Header
         /\ taken + Buffered(Header) \in 0..arrived
         /\ Buffered(Header) < Header => cut = EndOf(yielded) + Buffered(Header)
         /\ Buffered(Header) = Header =>
              yielded < Envelopes /\ cut >= EndOf(yielded) + Header
<1> USE StreamAssumption
<1>1. /\ taken = EndOf(yielded) /\ taken \in Nat /\ arrived \in Nat /\ arrived <= cut
      /\ cut \in Nat /\ cut <= EndOf(Envelopes) /\ yielded \in 0..Envelopes
      /\ EndOf(Envelopes) \in Nat
  BY DEF StreamInv, StreamTypeOK, YieldedInPlace, ReadHeader, Reading, EndOf
<1>2. /\ Buffered(Header) \in 0..Header /\ taken + Buffered(Header) \in taken..arrived
      /\ Buffered(Header) < Header => taken + Buffered(Header) = cut
  BY ReadReturns DEF ReadHeader
<1>3. QED
  BY <1>1, <1>2

LEMMA HeaderKeeps == ASSUME StreamInv, ReadHeader PROVE StreamInv'
<1> USE StreamAssumption DEF sourceVars, readerVars
<1>1. UNCHANGED <<ends, damage, cut, arrived, ended, yielded>>
  BY DEF ReadHeader
<1>2. /\ taken = EndOf(yielded) /\ Buffered(Header) \in 0..Header
      /\ taken' = taken + Buffered(Header) /\ taken' \in 0..arrived
  BY HeaderRead DEF ReadHeader
<1>3. \/ phase' = "body" /\ Buffered(Header) = Header /\ yielded < Envelopes
         /\ damage[Upcoming] # "header"
      \/ phase' \in {"returned", "raised"}
  BY HeaderRead DEF ReadHeader, EndPhase
<1>4. StreamTypeOK'
  BY <1>1, <1>2, <1>3 DEF StreamInv, StreamTypeOK, EndOf, Laid, Reading
<1>5. EndKnown' /\ BodyOfSent'
  BY <1>1, <1>3 DEF StreamInv, EndKnown, BodyOfSent, Upcoming
<1>6. YieldedInPlace'
  BY <1>1, <1>2, <1>3 DEF StreamInv, YieldedInPlace, Whole, Intact, EndOf, Reading
<1>7. QED
  BY <1>4, <1>5, <1>6 DEF StreamInv

(* Where the body of the next envelope is read: it is complete exactly     *)
(* when the envelope arrived whole.                                        *)
LEMMA BodyRead ==
  ASSUME StreamInv, ReadBody
  PROVE  /\ yielded < Envelopes /\ Wanted \in Nat /\ Buffered(Wanted) \in 0..Wanted
         /\ taken + Buffered(Wanted) \in 0..arrived
         /\ cut > EndOf(yielded)
         /\ Buffered(Wanted) = Wanted =>
              taken + Buffered(Wanted) = EndOf(Upcoming) /\ Whole(Upcoming)
         /\ Buffered(Wanted) # Wanted => ~ Whole(Upcoming)
<1> USE StreamAssumption
<1>1. phase = "body" /\ yielded \in 0..Envelopes /\ yielded < Envelopes
  BY DEF StreamInv, StreamTypeOK, BodyOfSent, ReadBody
<1>2. /\ Wanted \in Nat /\ EndOf(yielded) \in Nat /\ EndOf(Upcoming) \in Nat
      /\ EndOf(Upcoming) = EndOf(yielded) + Header + Wanted
  BY <1>1, LaidOut DEF StreamInv, Wanted, Upcoming
<1>3. taken = EndOf(yielded) + Header
  BY <1>1 DEF StreamInv, YieldedInPlace, Reading
<1>4. /\ Buffered(Wanted) \in 0..Wanted /\ taken + Buffered(Wanted) \in taken..arrived
      /\ Buffered(Wanted) < Wanted => taken + Buffered(Wanted) = cut
  BY <1>2, ReadReturns DEF ReadBody
<1>5. arrived \in Nat /\ cut \in Nat /\ arrived <= cut
  BY DEF StreamInv, StreamTypeOK, EndOf
<1>6. QED
  BY <1>1, <1>2, <1>3, <1>4, <1>5 DEF Whole

(* The intact beginning reaches one envelope further.                      *)
LEMMA IntactGrows ==
  ASSUME StreamInv, yielded < Envelopes
  PROVE  Intact(Upcoming) <=> damage[Upcoming] = "none"
BY DEF StreamInv, StreamTypeOK, YieldedInPlace, Intact, Upcoming

LEMMA BodyKeeps == ASSUME StreamInv, ReadBody PROVE StreamInv'
<1> USE StreamAssumption DEF sourceVars, readerVars
<1>1. UNCHANGED <<ends, damage, cut, arrived, ended>>
  BY DEF ReadBody
<1>2. taken' \in 0..arrived
  BY BodyRead DEF ReadBody
<1>3. \/ phase' = "header" /\ yielded' = Upcoming /\ Upcoming \in 0..Envelopes
         /\ taken' = EndOf(Upcoming) /\ Whole(Upcoming) /\ Intact(Upcoming)
      \/ phase' = "raised" /\ yielded' = yielded
  BY BodyRead, IntactGrows DEF ReadBody, StreamInv, StreamTypeOK, Upcoming
<1>4. StreamTypeOK'
  BY <1>1, <1>2, <1>3 DEF StreamInv, StreamTypeOK, EndOf, Laid, Reading
<1>5. EndKnown' /\ BodyOfSent'
  BY <1>1, <1>3 DEF StreamInv, EndKnown, BodyOfSent
<1>6. YieldedInPlace'
  BY <1>1, <1>3 DEF StreamInv, StreamTypeOK, YieldedInPlace, Whole, Intact, EndOf, Reading
<1>7. QED
  BY <1>4, <1>5, <1>6 DEF StreamInv

LEMMA StreamInductive == StreamInv /\ [Next]_vars => StreamInv'
<1> SUFFICES ASSUME StreamInv, [Next]_vars PROVE StreamInv'
  OBVIOUS
<1>1. CASE Next
  BY <1>1, PullKeeps, HeaderKeeps, BodyKeeps DEF Next
<1>2. CASE UNCHANGED vars
  BY <1>2
  DEF vars, sourceVars, readerVars, StreamInv, StreamTypeOK, EndKnown, BodyOfSent, Upcoming,
      YieldedInPlace, Whole, Intact, EndOf, Laid
<1>3. QED
  BY <1>1, <1>2

LEMMA StreamInvariance == Spec => []StreamInv
<1>1. QED
  BY StreamInitially, StreamInductive, PTL DEF Spec

(* What iter_chunks() yielded is the chunks of the stream's intact         *)
(* beginning, each read from its own bytes.                                *)
THEOREM ChunksInPlace == Spec => []YieldedInPlace
<1>1. StreamInv => YieldedInPlace
  BY DEF StreamInv
<1>2. QED
  BY <1>1, StreamInvariance, PTL

(* iter_chunks() awaits no fragment while the next envelope has arrived.   *)
THEOREM ChunksNotHeldBack == Spec => NotHeldBack
<1> DEFINE Awaited == arrived' # arrived => yielded = Envelopes \/ arrived < EndOf(yielded + 1)
<1>1. ASSUME StreamInv, PullFragment PROVE Awaited
  <2> SUFFICES ASSUME yielded # Envelopes PROVE arrived < EndOf(yielded + 1)
    OBVIOUS
  <2>1. yielded \in 0..Envelopes /\ yielded < Envelopes /\ taken \in Nat /\ arrived \in Nat
    BY <1>1, StreamAssumption DEF StreamInv, StreamTypeOK, EndOf
  <2>2. /\ EndOf(yielded) \in Nat /\ EndOf(yielded + 1) \in Nat
        /\ BodyLength(yielded + 1) \in Nat \ {0}
        /\ EndOf(yielded + 1) = EndOf(yielded) + Header + BodyLength(yielded + 1)
    BY <1>1, <2>1, LaidOut DEF StreamInv
  <2>3. phase \in Reading /\ arrived - taken < Wanted
    BY <1>1 DEF PullFragment, Short
  <2>4. taken + Wanted <= EndOf(yielded + 1)
    BY <1>1, <2>1, <2>2, <2>3, StreamAssumption
    DEF StreamInv, YieldedInPlace, Reading, Wanted, Upcoming
  <2>5. Wanted \in Nat
    BY <2>2, StreamAssumption DEF Wanted, Upcoming
  <2>6. QED
    BY <2>1, <2>2, <2>3, <2>4, <2>5
<1>2. ASSUME StreamInv, [Next]_vars PROVE [Awaited]_vars
  BY <1>1, <1>2 DEF Next, SourceEnds, ReadHeader, ReadBody, readerVars
<1>3. QED
  BY <1>2, StreamInvariance, PTL DEF Spec, NotHeldBack

(* iter_chunks() implements IntactPrefix: chunks in their order as far as  *)
(* the stream is good, then a true word on how it ended.                   *)
THEOREM IntactBeginningDelivered == Spec => DeliversPrefix
<1>1. Init => Prefix!Init
  BY DEF Init, Prefix!Init, Verdict
<1>2. ASSUME StreamInv, [Next]_vars PROVE [Prefix!Next]_Prefix!vars
  <2> USE DEF Prefix!Next, Prefix!vars, Prefix!streamVars, Verdict
  <2>1. CASE PullFragment \/ SourceEnds \/ UNCHANGED vars
    BY <2>1 DEF PullFragment, SourceEnds, vars, sourceVars, Whole, Intact, EndOf
  <2> DEFINE goods == {i \in Ids : Whole(i) /\ Intact(i)}
             stopping == {i \in 0..Envelopes : EndOf(i) = cut}
  <2>2. ASSUME UNCHANGED sourceVars PROVE goods' = goods /\ stopping' = stopping
    BY <2>2 DEF sourceVars, Whole, Intact, EndOf
  <2>3. CASE ReadHeader
    <3>1. /\ UNCHANGED <<goods, stopping, yielded>> /\ phase = "header"
          /\ yielded \in 0..Envelopes
      BY <1>2, <2>2, <2>3 DEF ReadHeader, StreamInv, StreamTypeOK
    <3>2. CASE phase' = "body"
      BY <3>1, <3>2
    <3>3. CASE phase' # "body"
      <4>1. Upcoming \notin goods
        <5> SUFFICES ASSUME Upcoming \in Ids, Whole(Upcoming), Intact(Upcoming) PROVE FALSE
          OBVIOUS
        <5>1. yielded < Envelopes /\ damage[Upcoming] = "none"
          BY <3>1, IntactGrows, <1>2, StreamAssumption DEF Upcoming, Ids, Intact
        <5>2. EndOf(Upcoming) >= EndOf(yielded) + Header /\ EndOf(yielded) \in Nat
          BY <1>2, <3>1, <5>1, LaidOut, StreamAssumption DEF StreamInv, Upcoming
        <5>3. cut \in Nat /\ EndOf(Upcoming) \in Nat /\ EndOf(Upcoming) <= cut
          BY <1>2, <3>1, <5>1 DEF Whole, StreamInv, StreamTypeOK, EndOf, Ids, Upcoming
        <5>4. /\ Buffered(Header) \in 0..Header
              /\ Buffered(Header) < Header => cut = EndOf(yielded) + Buffered(Header)
          BY <1>2, <2>3, HeaderRead
        <5>5. Buffered(Header) = Header
          BY <5>2, <5>3, <5>4, StreamAssumption
        <5>6. QED
          BY <2>3, <3>3, <5>1, <5>5, StreamAssumption DEF ReadHeader
      <4>2. phase' = (IF EndOf(yielded) = cut THEN "returned" ELSE "raised")
        <5>1. /\ Buffered(Header) \in 0..Header /\ EndOf(yielded) \in Nat /\ cut \in Nat
              /\ Buffered(Header) < Header => cut = EndOf(yielded) + Buffered(Header)
              /\ Buffered(Header) = Header => cut >= EndOf(yielded) + Header
          BY <1>2, <2>3, HeaderRead DEF StreamInv, StreamTypeOK, EndOf
        <5>2. CASE Buffered(Header) = Header
          BY <2>3, <3>3, <5>1, <5>2, StreamAssumption DEF ReadHeader
        <5>3. CASE Buffered(Header) # Header
          BY <2>3, <5>1, <5>3, StreamAssumption DEF ReadHeader, EndPhase
        <5>4. QED
          BY <5>2, <5>3
      <4>3. QED
        BY <3>1, <4>1, <4>2 DEF Prefix!Close, Upcoming
    <3>4. QED
      BY <3>2, <3>3
  <2>4. CASE ReadBody
    <3>1. /\ UNCHANGED <<goods, stopping>> /\ phase = "body" /\ yielded < Envelopes
          /\ yielded \in 0..Envelopes /\ Upcoming \in Ids /\ cut # EndOf(yielded)
      <4>1. UNCHANGED sourceVars /\ phase = "body"
        BY <2>4 DEF ReadBody
      <4>2. yielded < Envelopes /\ cut > EndOf(yielded) /\ EndOf(yielded) \in Nat /\ cut \in Nat
        BY <1>2, <2>4, BodyRead DEF StreamInv, StreamTypeOK, EndOf
      <4>3. yielded \in 0..Envelopes
        BY <1>2 DEF StreamInv, StreamTypeOK
      <4>4. QED
        BY <2>2, <4>1, <4>2, <4>3, StreamAssumption DEF Upcoming, Ids
    <3>2. CASE Upcoming \in goods
      <4>1. phase' = "header" /\ yielded' = Upcoming
        BY <1>2, <2>4, <3>1, <3>2, BodyRead, IntactGrows DEF ReadBody, Upcoming
      <4>2. QED
        BY <3>1, <3>2, <4>1 DEF Prefix!HandOut, Upcoming
    <3>3. CASE Upcoming \notin goods
      <4>1. phase' = "raised" /\ yielded' = yielded
        BY <1>2, <2>4, <3>1, <3>3, BodyRead, IntactGrows DEF ReadBody
      <4>2. QED
        BY <3>1, <3>3, <4>1 DEF Prefix!Close, Upcoming
    <3>4. QED
      BY <3>2, <3>3
  <2>5. QED
    BY <1>2, <2>1, <2>3, <2>4 DEF Next
<1>3. QED
  BY <1>1, <1>2, StreamInvariance, PTL DEF Spec, DeliversPrefix, Prefix!Spec
=============================================================================
