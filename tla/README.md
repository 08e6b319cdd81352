# A TLA+ development of secretskit

`secretskit` (`src/src/secretskit/`) is the library with which the services of an
LLM analytics platform identify each other, sign and seal what they exchange, and
hand out key material: *spokes* that serve requests, a *key hub* that releases
identities and lists registered users, a *realm* (an OIDC provider) that issues
access tokens to people, a *proxy*, a *builder* and a *logger*. The code is a library
without a main loop, but it is full of protocol: replay guards with a lifetime, caches
with a lifetime, a handshake that survives crashes, a background client that makes
itself ready, a stream reader. These modules state what that protocol promises, check
it with TLC on small instances, and prove the promises that matter most with TLAPS
for every instance.

Line numbers below refer to files in `src/src/secretskit/` at the commit modelled.
`PROJECT.json` maps each definition to the lines it stands for.

## 1. Inventory

| Part | State it keeps | Operations | Hard behaviour | Correct when | Modelled by |
|---|---|---|---|---|---|
| Signed requests (`_signing.py`) | `ReplayGuard._seen`: id -> expiry | `sign`, `extract_user_id`, `verify`, `ReplayGuard.check` | two clock readings per request, threads, clock steps, ids re-used by callers, a restart empties the table | a document is accepted once, fresh; its id not again for a window | `ReplayGuard`, `RequestAuth` |
| User key cache (`_keys.py`, `RegistryUserProvider`) | `_users`: id -> (expiry, key) | `signing_public`, `peer_public` | a slow registry, overlapping lookups stored out of order, rotation and withdrawal | a key handed out ended less than the TTL ago | `UserRegistryCache` |
| The spoke's request path | the two above | look up, verify, check | a key retired between lookup and verify | a retired key stops verifying within the TTL | `SpokeRequests` |
| Signed HTTP requests (`_transport_auth.py`) | class-wide nonce cache | `sign_request`, `verify_request`, `_cleanup_nonce_cache` | nonce tested, recorded and signature checked in separate steps, calls that overlap, the nonce's life against the timestamp window | a request is let through once, or once per overlapping call; no later copy | `TransportAuth` |
| Enrollment keyring (`_keys.py`) | two key files per identity | `ensure_keyring`, `save_identity`, `_load_identity` | crash between two writes | filled files are never overwritten; what is there loads | `Keyring` |
| Boot (`_keys.py`, `BootKeyProvider`) | the key directory; an identity in memory | `_load`, `_fetch_identity_with_enrollment`, `_submit_pending`, `_wait_for_approval` | faults, lost answers and late submissions, crashes, decisions at any moment | the pair the admin approves is the one on disk; an approved spoke comes up | `BootEnrollment` |
| Log edge client (`log_edge.py`) | `_enc`, `_signing` | `send_prompt`, `send_response`, `send_record`, `_deliver`, `_ensure`, `_post` | a thread per record, making ready without a lock, best effort | a ready client loses a record to that record's own faults only | `LogEdge` |
| OIDC verification (`_oidc.py`) | `_key_set`, `_fetched_at` | `JWKSCache.key_set`, `refresh`, `OIDCVerifier.verify` | overlapping refreshes, rotation, withdrawal | withdrawn keys expire, new keys are found | `JwksCache` |
| Human authentication (`_user_auth.py`, `_dpop.py`, `_tiers.py`) | one replay guard per server | `verify_dpop`, `verify_bundle` | any token with any proof, two servers, three clock readings, demotion | one act per proof, by its maker, at its target; demotion takes effect | `HumanAuth` |
| Chunk streams (`_api.py`, `_envelope.py`) | reader buffer | `iter_chunks`, `_StreamReader.read`, `pack`, `unpack` | fragmentation, truncation, damage | yields the intact beginning, holds nothing back, no silent truncation | `ChunkStream` |
| Registry manifest and provider (`_manifest.py`, `RegistryKeyProvider`) | pinned anchor, `_peers`, `_manifest_version` | `sign`, `verify`, `_load_manifest` | a delivery path that is not trusted, two clocks, three limits in time, no memory of versions | a peer loaded was enrolled less than a bound ago; a client is not put back further than that | `RegistryManifest`, `Fleet` |
| Handoff bundle (`_handoff.py`) | none | `build_handoff`, `unwrap_handoff` | relayed, repeated, late or altered delivery; restarts | only the spoke approved opens one, and soon nobody | `Handoff`, `Fleet` |
| Release accessors of `BootKeyProvider` (`_keys.py`) | `_identity`, `_signing`, `_tokens`, `_registry_anchor`, `_cloudflared` | `_load`, the accessors, `wipe` | lazy load without a lock, a fill that fails half-way, a wipe meanwhile, rekeying | an answer is what was released; one release whole or no key | `BootRelease` |
| File and environment providers | fixed after construction | accessors | | | no state to explore |
| `_hybrid.py`, `_config.py`, `_hygiene.py`, `_manifest_cli.py`, `_errors.py`, `__init__.py` | none | | | | cryptography, configuration, memory locking, a command line, re-exports: nothing a state machine tells apart |

How the parts interact. A requester signs with `sign()`; the spoke's handler calls
`extract_user_id()`, obtains the user's key from the `RegistryUserProvider`, calls
`verify()` and then its `ReplayGuard` (shared by all handler threads, *"Not thread-safe;
guard externally"*). Services call each other over HTTP with `sign_request()` /
`verify_request()`. A spoke gets its own identity from the key hub through
`BootKeyProvider`, which uses `ensure_keyring()` and `FileKeyProvider` on its key
directory. People reach the proxy with a bearer token and a DPoP proof, and the builder
with the same pair inside an envelope; both run `verify_dpop()`, which uses
`OIDCVerifier` and a `ReplayGuard`. Every service reports to the logger through a
`LogEdgeClient`, which signs its HTTP calls with `sign_request()` and its records with
`sign()`. Clients learn their peers from the manifest the hub signs, and an approved spoke
learns its overlay from the handoff; both travel over paths that are not trusted. Streams between services are sequences of envelopes.

The 40 hazards in `PROJECT.json` say, line by line, what in this code is hard to test;
the properties below were chosen from that list.

## 2. Modules

| Module | Role |
|---|---|
| `WallClock` | The wall clock the code reads with `time.time()`: it advances, and may be set back, but never more than `Back` below its `peak`. `Horizon` bounds it. |
| `OneIdentity` | Abstract specification: a spoke settles on one key pair, is known outside by no other, and runs with what was released to it. |
| `IntactPrefix` | Abstract specification: a reader hands out the good beginning of a stream and says truly how the stream ended. |
| `ReplayGuard` | The parts of `ReplayGuard.check()` as operators: drop what expired, record. |
| `RequestAuth` | Handler threads over one guard; composes the clock and `ReplayGuard`. |
| `UserRegistryCache` | The user key cache and the registry behind it. |
| `SpokeRequests` | Composes `RequestAuth` and `UserRegistryCache` on one clock and one set of threads. |
| `TransportAuth` | `verify_request()` and the clean-up step by step, in overlapping calls. |
| `Keyring` | The two key files. |
| `BootEnrollment` | The boot handshake over `Keyring`, against a hub that falters; implements `OneIdentity`. |
| `BootRelease` | The material a booted provider holds, its accessors and `wipe()`, in several threads. |
| `RecentFacts` | Abstract specification of a reader of dated documents: a fact it takes over was true, and ended no more than `Bound` before. |
| `Membership` | The hub's list of approved entities, and its clock (external). |
| `RegistryManifest` | Signed manifests, the path that serves them, and the provider built from one; implements `RecentFacts` twice (peers, version). |
| `Handoff` | Handoffs built, brought and unwrapped; implements `RecentFacts`. |
| `Fleet` | Composes the two over one membership and one clock. |
| `LogEdge` | Deliveries that make one client ready concurrently. |
| `JwksCache` | Token verification over the shared key set. |
| `HumanAuth` | `verify_dpop()` on two servers, each with its `ReplayGuard`, and the realm that approves and demotes. |
| `ChunkStream` | `iter_chunks()` over fragments; implements `IntactPrefix`. |
| `MCSpokeRequests`, `MCHumanAuth` | Symmetry for TLC. |
| `RequestAuthProofs`, `TransportAuthProofs`, `LogEdgeProofs`, `JwksCacheProofs`, `HumanAuthProofs` | Theorems and proofs about the module of that name. |
| `SpokeProofs` | About `UserRegistryCache`, and about `SpokeRequests` by way of `RequestAuthProofs`. |
| `BootProofs` | About `BootEnrollment` and `BootRelease`. |
| `DeliveryProofs` | About what arrives over paths that are not trusted: `Fleet` and `ChunkStream`. |

Conventions. One action per step at which another thread, the network or the clock may
come between; a handler's progress is a `stage` (or `phase`, `look`) per thread. What a
service *outside* the repository does (registry, hub, realm, logger, network,
supervisor) is modelled from the answers the code tells apart and is marked external in
the map. History variables (`accepted`, `acceptedAt`, `firstAt`, `served`, `endedAt`, `supersededAt`,
`warm`, `disturbed`, `spoiled`, `acts`, `demotedAt`) are written and never read by guards. Operators whose name carries an
underscore and a suffix (`FreshAt_NoAge`) are mutants: plausible slips that the runs
must notice.

### Correspondence, part by part

**RequestAuth.** `stage` goes idle -> received (`extract_user_id`) -> verified
(`verify`, first clock reading, `verifiedAt`) -> checking (`check` entered, second
reading `checkNow`, expired ids dropped, 120-122) -> unseen (membership test, 123) ->
accepted (insertion, 125-126). The lock is the external guard that the class asks
for; the waiting for it is why the two readings may lie `Gap` apart. A document is its user, id,
timestamp and signing key; the signature verifies under exactly that key. `sign()`'s
optional `request_id` is why two documents may share an id.

**UserRegistryCache.** `CacheHit`/`CacheMiss` are lines 552-555 of `_fetch_user`,
`RegistryAnswers`/`RegistryFails` the GET, `StoreAnswer` lines 591-592, with the expiry
computed from the reading that *began* the lookup. Threads are independent, so an older
answer may be stored over a newer one.

**SpokeRequests.** A thread that received a document starts the lookup of the
document's user; `UseKey` is `verify()` with the key returned; the ids `valid_user_id()`
refuses (`BadIds`) give the request up.

**TransportAuth.** `arrived` -> timestamp window -> `fresh` -> nonce test -> `new` ->
nonce recorded -> `recorded` -> signature. The nonce is recorded *before* the signature
is checked, as in lines 114-131. The code has no lock, so any number of calls may be
between any two of these steps; a server that runs one at a time has a single call.
`_cleanup_nonce_cache()` lists what expired (`ListExpired`, 149) and deletes it entry by
entry (`DropListed`, 150-151), with calls in between: an entry recorded anew after it was
listed is deleted all the same. One clean-up runs at a time; nothing in the code calls it.

**Keyring, BootEnrollment.** A key file is missing, torn, or filled by the n-th
`generate_identity()`. `save_identity` is four steps (open with `O_TRUNC`, write; twice).
The hub's record is none, pending, approved or rejected; a reply is the class of answer
the spoke distinguishes (envelope; 403 with its three reasons; 429/5xx; none; not JSON;
for the POST 201, 409, 429, other codes, none). An answer is computed at one moment and
handled at a later one, and a submission whose answer was lost may still reach the hub later (`late`).
`FailFast` is every answer to the poll that no other branch takes: the rejection
(759), another code (790), what is no JSON. `why` records what ended a boot; `Supervise`
is a restart, which may never come.
Time is abstracted: a back-off is the stage `waiting`.

**BootRelease.** A field holds the number of the release it was filled from, so that a
mixture of two releases shows. A thread is at `asking` between the test of `_identity`
(689) and the answer, then at the field it is about to assign (708-726, in the code's
order), then at `reading`. `FillRaises` is a release whose signing key does not load
(713) or whose `cloudflared` is no dict (726): the call raises, and the fields assigned
by then stay. `wipe()` clears the three key fields in order, and
neither the anchor nor the tunnel (928-930). The two history variables mark the calls
and states for which the code promises nothing: `disturbed`, a call that met another
thread's fill or a wipe, and `spoiled`, since a fill failed half-way or overlapped.

**Membership, RegistryManifest, Handoff, Fleet.** An entity is one enrollment with its
keys: a spoke that enrolls again is a new one. A document is its content, its two dates
and whether the pinned key signed it. `Served` and `Brought` are what the path may bring:
every document ever made, and altered copies. `LoadManifest` is the construction of a
`RegistryKeyProvider` (361-431); a construction that raises changes nothing, so it is
no action. The dates are compared as in `_manifest.py` 162-167 (expiry with skew, age
without) and `_handoff.py` 155-160 (expiry without skew, age with). The hub stamps with
its own clock, up to `Lead` ahead and `Lag` behind the reader's.

**LogEdge.** The steps of `_ensure` between which another delivery may run (203, 204,
205, 206-213, 214), then signing, sealing and the POST. `cause` says what lost a record: among them content
that `json.dumps` or UTF-8 refuses (`sound`, 271) and a `sender_id` that is not configured
(`named`, 118-119 by way of 273), both of which raise before anything is signed.
A strict client raises where another drops (`Lose`, 278-282); `Refuse` is the check of
`send_record`'s argument (194-199).

**JwksCache.** `refresh()` is fetch, assignment (65), stamp (66) and the return that
reads `_key_set` anew (67), a step each. `verify()` retries once after an unknown `kid`,
and the decode after that (153) is outside the `try`: a bad signature leaves it as the
library's own error (`JoseError`). The checks of
the claims end `verified` or `AuthError` as they please. The test of `key_set()` and its
return of `_key_set` are one step.

**HumanAuth.** `verify_dpop()` reads the clock for the token (`CheckToken`), the proof
(`CheckProof`) and the guard (`CheckJti`); the key binding and the tier come last, after
the id was recorded (`Act`, `RefuseLate`). `Legs` are the proxy and the builder. The
guard is used under its external lock, so here `check()` is one step (`RequestAuth` has
its inside). `nonce` and `require_tier_floor` have their defaults: none, and on.

**ChunkStream.** A byte is its position; `ends` says where each envelope of the stream
ends, the next one beginning there (`pack()`), and a header states the length of its body
(`BodyLength`). `PullFragment`/`SourceEnds` are `_next()`,
guarded by the loop condition of `read()`; `ReadHeader` and `ReadBody` are the two reads
of `iter_chunks()`. A stream that ends in an error ends `raised`, whether with
`DecryptError` or with what `decapsulate` raises of a damaged key (147, outside the `try`).
Left out: empty fragments, the widths of the fields, damage to the length field (the reader would
then await bytes beyond the envelope), and the branch for file-like sources (222-224),
which asks for up to 65536 bytes at a time and so may block past envelopes that have
arrived: `NotHeldBack` is about iterators of fragments.

## 3. What each run checks

Passing runs. Each property has a mutant of the code that breaks it under the run's own
configuration.

| Run | Properties | What it shows |
|---|---|---|
| `RequestAuth` | `TypeOK`, `NoReplay`, `AcceptedFresh`, `IdReuseSpaced`, `CrashWindowBounded` | Two threads, two ids, a clock that is stepped, restarts: a run accepts each document once, fresh up to the wait between the readings, its id not again for a window; and across restarts, which empty the table, a document is still accepted only within the width of its window. |
| `MCSpokeRequests` | `BoundedStaleness`, `ServedOnce`, `RetiredKeyRefused`, `SignedByItsUser` | The whole path with rotation and withdrawal, slow and reordered registry answers, and a malformed id. |
| `TransportAuth` | `LateCopyRefused`, `ReplayNeedsOverlap`, `WindowCovered` | Two calls interleaved at every step, with clock steps, slow clean-ups and restarts: as long as a request is timely its nonce is known once it was let through, a copy that comes to the nonce test after one was recorded is turned away, so a request passes at most once per call in progress. |
| `BootEnrollment` | `TypeOK`, `EnrolledPairOnDisk`, `KeyringUsable`, `NeverOverwritten`, `ApprovalBoots`, `EnrollmentArrives`, `RejectionEndsBoot` | Two faults and two crashes at any point outside `save_identity`, late submissions, decisions at any moment, with a supervisor or without. |
| `BootRelease` | `ReleaseTypeOK`, `AnswerThere`, `WholeOrNothing` | Two threads, four releases of which one has a bad signing key and one a bad tunnel, a wipe at any moment: an accessor whose call met no other fill or wipe returns released material, and the provider at rest holds one release whole or no key, after a wipe and a rekey too. |
| `Fleet` | `FleetTypeOK`, `PeersRecent`, `VersionRecent`, `HandoffRecent` | Two entities approved and removed, two manifests and a handoff, served and brought by a path that repeats, delays, relays and alters: what is taken over was true less than a bound ago. |
| `LogEdge` | `TypeOK`, `HalfReadyExplained`, `WarmSparedReadiness`, `Settles` | Three records in threads of their own, strict or not, with and without a sender and content that can be encoded, two faults among fetches, posts and the key file: once the client is ready, nothing a delivery does to it loses a record. |
| `JwksCache` | `TypeOK`, `WithdrawnKeyExpires`, `RotationSurvived` | Two threads with overlapping refreshes: a withdrawn key is accepted for a bounded time; the one way to refuse a published key as unknown is another thread's older set stored between 65 and 67. |
| `MCHumanAuth` | `ActsWhileValid`, `OneActPerProof`, `DemotionTakesEffect` | Two servers, any token with any proof, an approval given and taken back, clock steps and restarts: one act per proof, by its maker, at its target, and with token and proof still in date up to the waits of the call. |
| `ChunkStream` | `YieldedInPlace`, `DeliversPrefix`, `NotHeldBack`, `Terminates` | Every fragmentation, truncation and damage of streams of up to three envelopes: the chunks are the intact beginning, a cut inside an envelope never passes for the end, nothing is held back. |

What the properties except. Some of these races the code really has, and a property
that forbade them would be false. `AnswerThere` and `WholeOrNothing` leave out calls that
met a fill or a wipe and providers whose fill failed or overlapped; `HalfReadyExplained`
says when the half-ready state arises; `RotationSurvived` leaves out the one race named
above; `ApprovalBoots` and `EnrollmentArrives` leave out the boots in `GivenUp`. Each
says that nothing else goes wrong, not that this does not. `DeliversPrefix` permits a
quiet end at any envelope boundary, as the format does. The hazards in `PROJECT.json`
repeat this where it applies.

Runs in which TLC finds the code to do otherwise than it says:

| Run | Property | The disagreement |
|---|---|---|
| `TransportAuthEdge` | `NoReplay` | `_transport_auth.py` 5 and 23 promise that the nonce cache rejects replays. A nonce recorded at `t` is unknown again at `t + 2*max_age_s` (118, 121), and a request stamped `max_age_s` ahead of `t` is still within its window then (111): it passes twice. |
| `BootTornKeyring` | `KeyringUsable` | `_keys.py` 151: identities are generated if their files are missing. `ensure_keyring` tests one of the two files (160): after a crash in `save_identity` no later boot repairs or loads the pair. |

Other divergences met while modelling, visible in the models: `_keys.py` 742 and 774
promise that transient faults are retried, yet a 5xx answer to, or no answer from, the
enrollment POST ends the boot (873, 794; `why = "post"` in `BootEnrollment`), and
only a restart brings the spoke up, which is why `GivenUp` lists it; `_ensure`
publishes `_enc` before `_signing` (`log_edge.py` 205, 213) without a lock, so the second
of two first deliveries is dropped unsigned although nothing failed (`cause =
"unsigned"` in `LogEdge`); `BootKeyProvider._load` leaves `_identity` set when the
signing key does not load (`_keys.py` 708, 713), and a `cloudflared` that is no dict
raises `AttributeError` (726), which the `except` (727) does not name, so the next `signing_key()` returns
`None` instead of raising, and a load under way puts keys back behind a `wipe()`
(`spoiled` in `BootRelease`); `verify_dpop` says it raises `AuthError` "on any failure"
(`_user_auth.py` 72), yet the decode after the refresh (`_oidc.py` 153) and the fetch let
other exceptions out (`InvalidKeyIdError`, `JoseError` and `URLError` of `JwksCache`);
`FileKeyProvider` clears `_pinned` (`_keys.py` 208) after its identity was loaded, so
nothing is left for `_wipe_pinned` to wipe; `BootKeyProvider.wipe` (921-930) keeps
`_registry_anchor` and `_cloudflared` although it says it drops all cached key material;
a manifest is accepted up to its expiry plus the skew, which the hub cannot shorten, and
its peers are used until the provider is built anew, however long that is
(`RegistryManifest` dates what is *loaded*); `send_record` raises on a bad
argument although the module says a send never raises (`log_edge.py` 30); and the two
halves of a logged call share one `request_id` (190), which is also the signed document's
replay id.

### Bounds, and why they suffice

Windows, lifetimes and steps are constants, so small numbers keep their relations:
what the properties depend on is which of them is larger, and by how much at the
boundary, and the configurations put the assumptions at or near equality.

* `RequestAuth`: `Ttl = 4 = MaxAge + Skew + Back + Larger(Back, Gap)`, the tightest
  table the assumption `TtlCoversWindow` allows; `Horizon = 6` lets a clock reading pass
  a whole window after an acceptance; two documents with one or two ids cover re-signing;
  two threads cover every pair of overlapping checks.
* `MCSpokeRequests`: `CacheTtl = 1`, two keys (old and new), one registered user and one
  malformed id, one document delivered any number of times. Threads are interchangeable
  (symmetry). The clock is not set back here; the two component proofs cover that.
* `TransportAuth`: `MaxAge = 4`, `Lead = Back = Gap = 1`, again the tightest instance of
  its assumption; `Horizon = 9` reaches past `2 * MaxAge`; two calls and one request, since
  calls meet only over a nonce. `TransportAuthEdge` uses
  `Lead = MaxAge = 2`.
* `BootEnrollment`: `MaxBlips = MaxCrashes = 2`, enough for a fault or crash in each of
  two successive attempts (one that leaves a submission behind, one that meets it).
* `LogEdge`: three records are one that makes the client ready, one that overlaps with
  it and one that comes later.
* `BootRelease`: two threads are a fill and who meets it; of four releases the second
  and third are bad, each in its way, with a good one before and after them; one wipe,
  since a provider that holds an identity asks for no other release until it is wiped.
* `Fleet`: `Life = MaxAge = Ttl = HandoffAge = 1` with skews of one. In this
  instance it is the age limit that decides how long a manifest is taken and the expiry
  how long a handoff is, each off by one when it is dropped; the limits that do not bind
  here (a manifest's expiry plus skew, a handoff's age, a date in the future) are covered
  by the proofs, whose bounds hold for any relation between the constants. The hub stamps up to
  `Lead = 1` ahead; two entities, so that one document lists a removed one beside one
  that stays, and a handoff can be brought to the wrong one; two manifests, for one
  replaced. `Horizon = 3` reaches one past the bounds (2). The clock is not set back
  here and the hub does not lag; the proof covers both.
* `JwksCache`: `JwksTtl = Timeout = Back = 1` and two threads, which is what it takes for
  a slow refresh to store an old set and a second one to date it; one key that is
  published and withdrawn; `Horizon = 5` reaches the bound of `WithdrawnKeyExpires`,
  which is exact.
* `MCHumanAuth`: one user and a second key, one proof id, one proof, two tokens
  (approved and not); `Ttl = MaxAge + Skew + Back + Larger(Back, Gap) = 3`, the tightest the
  assumption allows. `Horizon = 4` is one past the first moment at which the guard drops an
  id, so pruning is exercised: dropping ids one second too early breaks `OneActPerProof`
  here. One thread per server: within a server the guard is one step, and
  the proof covers any number.
* `ChunkStream`: a two-byte header can be cut inside, bodies of one or two bytes differ
  from it and from each other, a fragment of up to three bytes spans an envelope
  boundary, three envelopes give a first, a middle and a last.

`Horizon`, `MaxSent`, `MaxTokens`, `MaxBlips`, `MaxCrashes`, `MaxRelease`, `MaxWipes`,
`MaxVersion`, `MaxHandoffs`, `Nonces`, `Proofs`,
`Envelopes`, `MaxBody` and `MaxFragment` are the bounds on counters. Deadlock is not
checked: the clock ends at its `Horizon` and the other modules at their bounds, and a
boot or a stream really ends.

### Fairness

Liveness is claimed in three runs only, and only from fairness the code earns.

* `BootEnrollment`: `WF(BootStep)`. The polling loop of
  `_fetch_identity_with_enrollment` has no end of its own, its HTTP calls have timeouts (so the hub answers or falters), and a
  machine that went down comes back. Nothing is assumed of the supervisor: a boot that
  raised may stay down (`GivenUp`), so that the code's own retries are what the liveness
  properties test. Nothing is assumed of the admin: the
  liveness properties are conditional on what the hub's record is. Faults are finitely
  many (`MaxBlips`), which is what "transient" means.
* `LogEdge`: weak fairness of every delivery thread: it is an OS thread and its HTTP calls have
  a timeout of ten seconds.
* `ChunkStream`: the consumer keeps iterating and the source yields or ends.

## 4. What is proved

`tlapm` checks every proof. The theorems hold for every value of the constants that meets the
named assumptions; `Horizon` is an arbitrary natural number.

| Module | Theorems | Assumptions |
|---|---|---|
| `RequestAuthProofs` | `TypeCorrect`, `AcceptedOnce` (`NoReplay`), `FreshWhenAccepted` (`AcceptedFresh`), `ReuseSpaced` (`IdReuseSpaced`), `CrashesWidenNothing` (`CrashWindowBounded`) | `TtlCoversWindow`: the replay window covers the freshness window, the skew, a clock step and the wait between the readings (3600 >= 300 + 60 + ... by default) |
| `SpokeProofs` | `CacheTypeCorrect`, `StalenessBounded` (`BoundedStaleness`) of the cache; `SpokeServesOnce` (`ServedOnce`), `SpokeStalenessBounded`, `RetiredKeyNeverVerifies` (`RetiredKeyRefused`), `VerifiedIsItsUsers` (`SignedByItsUser`) of the composition; `SpokeImplementsPath`, `SpokeImplementsCache`: it implements each of its components; `SpokeKeepsPathPromises`: hence `CrashWindowBounded`, `AcceptedFresh`, `IdReuseSpaced` | `CacheTtl > 0`; for the composition `SpokeAssumption`, the assumptions of `RequestAuth` |
| `TransportAuthProofs` | `TypeCorrect`, `ReplayBounded` (`ReplayNeedsOverlap`), `LateCopiesTurnedAway` (`LateCopyRefused`), `CacheCoversWindow` (`WindowCovered`), for any number of overlapping calls; `ServedOnce` (`NoReplay`) for calls that do not overlap | `LeadBelowWindow`: requesters' clocks run ahead by less than the window, clock steps and holds-up taken off; without it TLC finds `TransportAuthEdge`. `ServedOnce` has the hypothesis `OneAtATime`: two overlapping calls can both test the nonce before either records it, so a threaded server has `ReplayBounded` and no more |
| `BootProofs` | `TypeCorrect`, `EnrolledPairStays`, `KeysNeverOverwritten`, `UsableUnlessTorn`, `OneIdentityKept` (implements `OneIdentity`), `ReleaseOpens`; `ReleaseTypeCorrect`, `AnswerIsThere` (`AnswerThere`), `ReleaseWhole` (`WholeOrNothing`) | no crash inside `save_identity` for `UsableUnlessTorn`; none for the others, torn writes included |
| `LogEdgeProofs` | `TypeCorrect`, `HalfReadyHasCause` (`HalfReadyExplained`), `WarmClientSpares` (`WarmSparedReadiness`) | none |
| `JwksCacheProofs` | `TypeCorrect`, `WithdrawalTakesEffect` (`WithdrawnKeyExpires`), `OneRefreshSuffices` (`RotationSurvived`) | none beyond the types |
| `HumanAuthProofs` | `TypeCorrect`, `OneActEach` (`OneActPerProof`), `DemotionNoticed` (`DemotionTakesEffect`), `ValidWhenActed` (`ActsWhileValid`) | `TtlCoversProof`: the replay window covers the proof's age, skew, a clock step and a wait |
| `DeliveryProofs` | `FleetTypeCorrect`, `PeersAreRecent` (`PeersRecent`), `VersionIsRecent` (`VersionRecent`), `HandoffIsRecent` (`HandoffRecent`); `ChunksInPlace` (`YieldedInPlace`), `ChunksNotHeldBack` (`NotHeldBack`), `IntactBeginningDelivered` (`DeliversPrefix`) | none beyond the types |

Each safety theorem rests on one inductive invariant (`IInv`; `CacheInv`, `SpokeInv`,
`ReleaseInv`, `FleetInv` and `StreamInv` where a module holds several), with a lemma per action or group of actions.

* **RequestAuth.** `NoReplay` is not inductive: it says nothing of what the guard
  remembers. `Remembered` ties an accepted id to its entry, or to a clock that has passed
  it; `Counted` ties a document's timestamp to that acceptance. The heart is
  `ForgottenLate`: if the guard has forgotten the id a handler holds, the handler's
  reading is late, hence, by `TtlCoversWindow`, its document was no longer fresh.
  `FirstDated` ties the first acceptance of a document, which no restart forgets, to its
  timestamp: from it `CrashWindowBounded`.
  `VerifiedFresh` and `ReadingsClose` bound the readings against the clock and each
  other, `TestHolds` keeps the membership test valid until the insertion, which is what
  the external lock is for.
* **UserRegistryCache.** `EntriesDated` bounds an entry's expiry by the end of its key,
  `AnswersLate` does the same for an answer still on its way: since an entry is dated by
  the reading that *began* its lookup, the order of storing does not matter.
* **SpokeRequests.** `SpokeInv` is `CacheInv`, the invariant of `RequestAuthProofs`
  (taken by `INSTANCE`) and `LookMatches`: a thread looks up the user of the document it
  holds. A step of the composition is a step of each component or leaves it alone
  (`SameActions`), so the components' lemmas carry over; `RetiredKeyRefused` then follows
  from the staleness of what the lookup returned. The same two lemmas make the
  composition a refinement of each component, by which the theorems about
  `RequestAuth` alone are theorems about the spoke.
* **TransportAuth.** `Reach` is how late a request can still pass, seen from any
  reading. A request is *spoken for* when it was let through or a call has recorded it and
  will. `KeptBeyondReach` keeps every nonce longer than its reach, `SpokenKept` has the
  nonce of a request spoken for in the cache as long as it matters, and `LateCallsRefused`
  carries this to a call that read its clock earlier: at the nonce test it still finds the
  nonce. `DoomedOut` says that what a clean-up has listed is past that reach, so that
  deleting it late does no harm. Hence no call enters the race for a request once
  the request was spoken for. The
  race itself is counted: `RaceBounded` says that the times a request was let through and
  the calls past the nonce test for it (`Racing`) are together no more than the calls
  there are. A call that lets the request through leaves the race, one that joins it
  finds nothing let through yet.
* **BootEnrollment.** `SavingFresh`: a pair is being written only while the hub, the
  network and the disk know none; `KemFirst` and `WholePair` describe what a crash can
  leave; `PostsLoaded` makes what is submitted something that was loaded. For
  `OneIdentityKept` the spoke settles in the step that fills the second file, before which
  nobody outside knows a pair; for `ReleaseOpens` the invariant needs one more part,
  `ReleasedCarries`: a release is for some pair.
* **BootRelease.** While nothing is spoiled, `OneFiller` says that a single thread fills
  and no wipe runs, `PrefixFilled` how far it came, `WipedSoFar` how far a wipe came, and
  `ReadersServed` that an undisturbed reader finds every field.
* **Fleet.** `ManifestsDated` and `HandoffsDated`: whatever a genuine document states and
  no longer holds ended at most the hub's lead and a clock step before its date. With the
  limits in time this bounds the age of what is taken over. The three theorems are
  refinements of `RecentFacts`: a step that takes nothing over keeps what is held.
* **ChunkStream.** The layout of the stream is a function of positions and not a fold over
  body lengths, so that no induction is needed: `LaidOut` has one envelope after the other.
  `YieldedInPlace` ties the bytes taken to the chunks yielded and is, with `EndKnown` (the
  source ended where the stream was cut) and `BodyOfSent` (a body is read of an envelope
  that was sent), inductive. Each step of the reader then maps to a step or a stutter of
  `IntactPrefix`: the header that ends the iteration closes it, with the verdict the cut
  calls for, and `ReadBody` hands out or closes.
* **LogEdge.** `WarmStaysReady`: `_enc` and `_signing` are never taken back, so a record
  sent to a ready client skips the fetch and the key file and takes a signing key; what
  can still lose it are its content, the missing sender and its POST (`OwnLoss`).
* **JwksCache.** `AskedInTime`, `DatedInTime` and `UsedInTime` follow a key set from
  request over store and stamp to use. The bound is the TTL, *two* refreshes and a clock
  step, since a set is dated when it is stamped and by whichever refresh stamps last.
  `KeyStaysFound` is the invariant of an undisturbed call.
* **HumanAuth.** `SpentKnown`: a proof that was acted upon, or is about to be, is known
  to the guard, or no reading finds it timely any more and no call that still did is on
  its way; `Alone`: a call about to act is the only one and the first. For
  `DemotionTakesEffect`, `TokensDated` bounds the life of a token against the demotion of
  its user and `InLife` a call's readings against the life of its token.
  `InWindow` dates the proof of a call under way against its last reading; with `InLife`
  it gives `ValidWhenActed`.

Of the type invariants, those of `TransportAuth` and `HumanAuth` are only proved.

Only model-checked: liveness (`ApprovalBoots`, `EnrollmentArrives`, `RejectionEndsBoot`,
`Settles`, `Terminates`), since the prover has no `ENABLED`. Every invariant and action
property of the passing runs is proved.

## 5. Not modelled

* Cryptography (`_hybrid.py`) is taken as it is: a signature or envelope opens under the
  right key and no other. Encodings, canonical JSON and URLs, header names and the
  parsing of configuration (`_config.py`, `_manifest_cli.py`) are abstract.
* `FileKeyProvider` and `EnvKeyProvider` load once and do not change; of the first, the
  loading of an identity is in `Keyring`, peer discovery is not modelled. Two processes
  on one key directory (`_keys.py` 160) and `save_peer` beside a starting provider (136)
  are listed as hazards without a property: the bring-up gives each container a
  directory of its own and writes peers first, but nothing in the code enforces either.
  Two threads inside the first `_load()` of one provider are in the same position:
  each can find the kem file missing and mint a pair, and the pair enrolled first need
  not be the one left on disk. `BootRelease` takes the enrollment as one step.
* `ensure_keyring(signing=True)`, the third key file. Of the boot, a missing
  `BOOT_ENROLL_KEYDIR` (695-698, 827-831), which ends it with a `ConfigurationError`
  before any file is touched, and plain material from hubs that wrap nothing (706-707),
  which needs no key pair.
* What the signed HTTP requests and the DPoP proofs do not promise: a copy with a wrong
  signature uses up the nonce of the genuine request (`_transport_auth.py` 121), and a
  request refused late has used up its proof's id (`_dpop.py` 136). Both happen in the
  models; no property of availability is stated. Two clean-ups of the nonce cache at a
  time, which would raise `KeyError`, are left out.
* `_hygiene.py` locks and zeroes memory through libc, `_errors.py` and `__init__.py`
  define exceptions and re-export: no state.
* Of `_oidc.py`, `verify_access_token` without a cache, which is one call without state;
  of `_api.py`, the single-payload calls and the resolution of peers, likewise. An
  envelope is not bound to its place: a stream from which whole envelopes were taken, or
  to which a copy was added, is another well-formed stream, and `ChunkStream` does not
  tell the two apart.

## 6. What could follow

1. `Keyring` with two writers and a reader that discovers peers, for the two hazards
   above.
2. An abstract cache ("a value handed out was current less than a bound ago") that
   `UserRegistryCache` and `JwksCache` implement as the fleet's readers implement
   `RecentFacts`, which asks a little more than it: a cache hands a fact out later than
   it took it.
3. An abstract release for `BootRelease` ("one release whole, or nothing, to whoever
   asks") as far as the code keeps it.
4. Delivery properties of signed HTTP requests: a copy with a wrong signature uses up
   the nonce of the genuine request (`_transport_auth.py` 121).
