-------------------------- MODULE RegistryManifest --------------------------
(***************************************************************************)
(* The signed manifest (_manifest.py) and the provider built from it,      *)
(* RegistryKeyProvider (_keys.py).  The hub signs the list of entities     *)
(* anew, with a version that grows; a delivery path that is not trusted    *)
(* serves any manifest it ever saw, or an altered copy.  A client fetches  *)
(* one, checks the signature against its pinned anchor and the dates       *)
(* against its clock, and takes its peers from it; the provider asks again *)
(* only when it is built anew.                                             *)
(*                                                                         *)
(* Providers share nothing, so one client stands for each of them.  A      *)
(* peer's keys, role and host name come as one, and are not told apart.    *)
(***************************************************************************)
EXTENDS Membership

CONSTANTS
  Life,                    \* how long the hub dates a manifest
  MaxAge, Skew,            \* max_age_s and skew_s of verify()
  MaxVersion               \* bound: manifests signed

ASSUME ManifestAssumption ==
  /\ Life \in Nat /\ MaxAge \in Nat /\ Skew \in Nat /\ MaxVersion \in Nat

VARIABLES
  version, supersededAt,   \* the newest manifest; when older ones were
  manifests,               \* every manifest the hub signed
  peers, peersVersion,     \* the provider: _peers and _manifest_version
  loadedAt                 \* the clock when the provider was built

signerVars == <<version, supersededAt, manifests>>
providerVars == <<peers, peersVersion, loadedAt>>
manifestVars == <<signerVars, providerVars>>

ManifestInit ==
  /\ version = 0 /\ supersededAt = [v \in {} |-> 0]
  /\ manifests = {}
  /\ peers = {} /\ peersVersion = 0 /\ loadedAt = 0

-----------------------------------------------------------------------------
(* sign(): the list as it is, dated and numbered by the hub.               *)
Signed(n, date) ==
  [version |-> n, issued |-> date, expires |-> date + Life,
   peers |-> enlisted, genuine |-> TRUE]

SignManifest ==
  /\ version < MaxVersion
  /\ version' = version + 1
  /\ supersededAt' = IF version = 0 THEN supersededAt
                                    ELSE Ended(version, supersededAt)
  /\ \E date \in HubClock :
       manifests' = manifests \cup {Signed(version + 1, date)}
  /\ UNCHANGED <<clockVars, memberVars, providerVars>>

(* An altered copy no longer bears a signature of the anchor.              *)
Altered(m) == [m EXCEPT !.peers = Entities, !.genuine = FALSE]

(* What the path may serve at any moment.                                  *)
Served == manifests \cup {Altered(m) : m \in manifests}

(* Mutants: the age, or the signature, is not checked.                     *)
FreshManifest_NoAge(m) ==
  m.issued <= clock + Skew /\ clock <= m.expires + Skew
Vouched_Any(m) == TRUE

(* _check_freshness(): neither expired, nor from the future, nor stale.    *)
FreshManifest(m) ==
  /\ clock <= m.expires + Skew
  /\ m.issued <= clock + Skew
  /\ clock - m.issued <= MaxAge

Vouched(m) == m.genuine

(* RegistryKeyProvider is built: _load_manifest() fetches what the path    *)
(* serves, verify() lets it pass, and the peers are taken from it.  When   *)
(* it raises there is no new provider, and the one there was stays.        *)
LoadManifest ==
  /\ \E m \in Served :
       /\ Vouched(m) /\ FreshManifest(m)
       /\ peers' = m.peers
       /\ peersVersion' = m.version
  /\ loadedAt' = clock
  /\ UNCHANGED <<clockVars, memberVars, signerVars>>

(* The client restarts.                                                    *)
ForgetManifest ==
  /\ peers' = {} /\ peersVersion' = 0 /\ loadedAt' = 0
  /\ UNCHANGED <<clockVars, memberVars, signerVars>>

ManifestStep == SignManifest \/ LoadManifest \/ ForgetManifest

-----------------------------------------------------------------------------
Manifests ==
  [version : Nat, issued : Int, expires : Int, peers : SUBSET Entities,
   genuine : BOOLEAN]

ManifestOK ==
  /\ version \in 0..MaxVersion
  /\ DOMAIN supersededAt = 1..(version - 1)
  /\ \A v \in DOMAIN supersededAt : supersededAt[v] \in Int
  /\ manifests \subseteq Manifests
  /\ peers \subseteq known /\ peersVersion \in 0..version /\ loadedAt \in Int

(* How long a signed list is taken for true, as the reader's clock has it. *)
ManifestBound == Smaller(MaxAge, Life + Skew) + Lead + Back

(* Whom a client takes for a peer was enrolled less than ManifestBound     *)
(* before, whatever the path served it: "a key that is not in a manifest   *)
(* signed by the pinned key is never used", and a removed spoke ends.      *)
PeersPromise == INSTANCE RecentFacts WITH
  Bound <- ManifestBound, held <- [i \in peers |-> loadedAt]

PeersRecent == PeersPromise!Spec

(* A client is never put back to a manifest that was replaced longer ago,  *)
(* even by a path that keeps serving old ones when it asks anew because    *)
(* its version is behind.                                                  *)
VersionPromise == INSTANCE RecentFacts WITH
  Bound <- ManifestBound, known <- 1..version, endedAt <- supersededAt,
  held <- [v \in {peersVersion} \ {0} |-> loadedAt]

VersionRecent == VersionPromise!Spec
=============================================================================
