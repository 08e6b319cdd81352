----------------------------- MODULE BootRelease -----------------------------
(***************************************************************************)
(* The key material a BootKeyProvider holds in memory (_keys.py), shared   *)
(* by the threads of a spoke.  Every accessor calls _load() and then reads *)
(* its field; _load() returns at once when _identity is there, and else    *)
(* asks the hub and assigns the fields one after the other.  wipe() clears *)
(* them one after the other.  Nothing takes a lock, so threads meet        *)
(* between any two assignments.                                            *)
(*                                                                         *)
(* A field holds the number of the release it was filled from; the hub     *)
(* makes a new release when it rekeys the spoke.  How the hub is asked is  *)
(* BootEnrollment; here it releases or the call raises.  `anchor` is       *)
(* _registry_anchor and `tunnel` _cloudflared.  _pem is never read and is  *)
(* left out.                                                               *)
(***************************************************************************)
EXTENDS Integers

CONSTANTS
  Threads,                 \* threads of the spoke that call accessors
  MaxRelease,              \* bound: releases the hub makes
  BadSigning,              \* releases whose signing key does not load
  BadTunnel,               \* releases whose cloudflared is no dict
  MaxWipes                 \* bound: calls of wipe()

ASSUME ReleaseAssumption ==
  /\ MaxRelease \in Nat \ {0} /\ BadSigning \subseteq 1..MaxRelease
  /\ BadTunnel \subseteq 1..MaxRelease
  /\ MaxWipes \in Nat

VARIABLES
  material,                \* the hub's current release
  field,                   \* the provider's fields
  phase, want, found,      \* per thread: its step, field wanted, release
  answer,                  \* per thread: what the accessor returns
  wiping, wipes,           \* where wipe() is, and how often it was called
  disturbed,               \* history: who met a fill or a wipe in its call
  spoiled                  \* history: a fill failed half-way or overlapped

callVars == <<phase, want, found, answer>>
releaseVars == <<material, field, callVars, wiping, wipes, disturbed, spoiled>>

None == 0                              \* None, {} and "" alike
Fields == {"identity", "signing", "tokens", "anchor", "tunnel"}
KeyFields == {"identity", "signing", "tokens"}      \* what wipe() clears

(* A thread in phase f \in Fields is about to assign f.                    *)
Phases == {"idle", "asking", "reading", "returned"} \cup Fields

ReleaseInit ==
  /\ material = 1
  /\ field = [f \in Fields |-> None]
  /\ phase = [t \in Threads |-> "idle"]
  /\ want = [t \in Threads |-> "identity"]
  /\ found = [t \in Threads |-> None]
  /\ answer = [t \in Threads |-> None]
  /\ wiping = "idle" /\ wipes = 0
  /\ disturbed = [t \in Threads |-> FALSE]
  /\ spoiled = FALSE

-----------------------------------------------------------------------------
(* Mutants: a field that wipe() leaves is taken for the mark of a loaded   *)
(* provider; a field once filled is kept.                                  *)
Loaded_Tunnel == field["tunnel"] # None
Assigned_Kept(f, n) == IF field[f] = None THEN n ELSE field[f]

(* What _load() takes for "already loaded".                                *)
Loaded == field["identity"] # None

Assigned(f, n) == n

(* The order of the assignments in _load(), and of those in wipe().        *)
AfterFill(f) == CASE f = "identity" -> "signing"
                  [] f = "signing"  -> "tokens"
                  [] f = "tokens"   -> "anchor"
                  [] f = "anchor"   -> "tunnel"
                  [] f = "tunnel"   -> "reading"

AfterWipe(f) == CASE f = "identity" -> "signing"
                  [] f = "signing"  -> "tokens"
                  [] f = "tokens"   -> "idle"

Emptied == \A f \in KeyFields : field[f] = None

Filling == {t \in Threads : phase[t] \in Fields}

GoOn(t, p) == phase' = [phase EXCEPT ![t] = p]

(* An accessor is called: identity_keys(), signing_key(), ...              *)
CallAccessor(t, f) ==
  /\ phase[t] = "idle"
  /\ want' = [want EXCEPT ![t] = f]
  /\ GoOn(t, IF Loaded THEN "reading" ELSE "asking")
  /\ disturbed' = [disturbed EXCEPT ![t] = Filling # {} \/ wiping # "idle"]
  /\ UNCHANGED <<material, field, found, answer, wiping, wipes, spoiled>>

(* The hub releases the identity, and the envelope opens.                  *)
ReleaseArrives(t) ==
  /\ phase[t] = "asking"
  /\ found' = [found EXCEPT ![t] = material]
  /\ GoOn(t, "identity")
  /\ spoiled' = (spoiled \/ Filling # {} \/ wiping # "idle")
  /\ UNCHANGED <<material, field, want, answer, wiping, wipes, disturbed>>

EndCall(t) ==
  /\ GoOn(t, "idle")
  /\ want' = [want EXCEPT ![t] = "identity"]
  /\ found' = [found EXCEPT ![t] = None]
  /\ answer' = [answer EXCEPT ![t] = None]

(* Mutant: the error is swallowed, and nothing is assigned as if released. *)
LoadRaises_Swallowed(t) ==
  /\ phase[t] = "asking"
  /\ GoOn(t, "identity")
  /\ UNCHANGED <<material, field, want, found, answer, wiping, wipes,
                 disturbed, spoiled>>

(* _load() raises before it assigned anything: the enrollment is rejected, *)
(* the envelope does not open, or its identity keys do not load.           *)
LoadRaises(t) ==
  /\ phase[t] = "asking"
  /\ EndCall(t)
  /\ UNCHANGED <<material, field, wiping, wipes, disturbed, spoiled>>

(* What thread t is about to assign cannot be made of its release.         *)
Unfillable(t) == \/ phase[t] = "signing" /\ found[t] \in BadSigning
                 \/ phase[t] = "tunnel" /\ found[t] \in BadTunnel

FillField(t) ==
  /\ phase[t] \in Fields /\ ~ Unfillable(t)
  /\ field' = [field EXCEPT ![phase[t]] = Assigned(phase[t], found[t])]
  /\ GoOn(t, AfterFill(phase[t]))
  /\ UNCHANGED <<material, want, found, answer, wiping, wipes, disturbed,
                 spoiled>>

(* load_signing_key() or cfd.items() raises: the fields assigned before    *)
(* stay, the others are as they were.                                      *)
FillRaises(t) ==
  /\ Unfillable(t)
  /\ EndCall(t)
  /\ spoiled' = TRUE
  /\ UNCHANGED <<material, field, wiping, wipes, disturbed>>

ReadField(t) ==
  /\ phase[t] = "reading"
  /\ answer' = [answer EXCEPT ![t] = field[want[t]]]
  /\ GoOn(t, "returned")
  /\ UNCHANGED <<material, field, want, found, wiping, wipes, disturbed,
                 spoiled>>

TakeAnswer(t) ==
  /\ phase[t] = "returned"
  /\ EndCall(t)
  /\ UNCHANGED <<material, field, wiping, wipes, disturbed, spoiled>>

(* wipe(), by the thread that shuts the spoke down.                        *)
BeginWipe ==
  /\ wiping = "idle" /\ wipes < MaxWipes
  /\ wipes' = wipes + 1
  /\ wiping' = "identity"
  /\ disturbed' = [t \in Threads |-> TRUE]
  /\ spoiled' = (spoiled \/ Filling # {})
  /\ UNCHANGED <<material, field, callVars>>

(* When no key is left and nobody fills, the provider is as good as new.   *)
WipeField ==
  /\ wiping \in KeyFields
  /\ field' = [field EXCEPT ![wiping] = None]
  /\ wiping' = AfterWipe(wiping)
  /\ disturbed' = [t \in Threads |-> TRUE]
  /\ spoiled' = (spoiled /\ ~ (wiping' = "idle" /\ Emptied' /\ Filling = {}))
  /\ UNCHANGED <<material, callVars, wipes>>

(* The hub makes new material for the spoke.                               *)
Rekey ==
  /\ material < MaxRelease
  /\ material' = material + 1
  /\ UNCHANGED <<field, callVars, wiping, wipes, disturbed, spoiled>>

Access(t) ==
  \/ \E f \in Fields : CallAccessor(t, f)
  \/ ReleaseArrives(t) \/ LoadRaises(t) \/ FillField(t) \/ FillRaises(t)
  \/ ReadField(t) \/ TakeAnswer(t)

ReleaseNext ==
  \/ \E t \in Threads : Access(t)
  \/ BeginWipe \/ WipeField \/ Rekey

ReleaseSpec == ReleaseInit /\ [][ReleaseNext]_releaseVars

-----------------------------------------------------------------------------
ReleaseTypeOK ==
  /\ material \in 1..MaxRelease
  /\ field \in [Fields -> 0..MaxRelease]
  /\ phase \in [Threads -> Phases]
  /\ want \in [Threads -> Fields]
  /\ found \in [Threads -> 0..MaxRelease]
  /\ answer \in [Threads -> 0..MaxRelease]
  /\ wiping \in {"idle"} \cup KeyFields /\ wipes \in 0..MaxWipes
  /\ disturbed \in [Threads -> BOOLEAN] /\ spoiled \in BOOLEAN
  /\ \A t \in Filling : found[t] # None

(* An accessor returns what the hub released, never None: `_load(); return *)
(* self._field` with _identity alone as the mark.  Calls that met another  *)
(* thread's fill or a wipe(), and providers whose fill failed half-way or  *)
(* overlapped with another or with a wipe(), are left out: there None is   *)
(* returned.  The property says that there is no other way to get None.    *)
AnswerThere ==
  \A t \in Threads :
    phase[t] = "returned" /\ ~ disturbed[t] /\ ~ spoiled => answer[t] # None

(* At rest the provider holds one release whole, or no key at all: the     *)
(* signing key, the tokens, the anchor and the tunnel belong to the        *)
(* identity, also after the hub rekeyed the spoke, and no key is left by a *)
(* wipe() ("Drop all cached key material").  A provider whose fill failed  *)
(* or overlapped is left out until a wipe() empties it, as before.         *)
WholeOrNothing ==
  Filling = {} /\ wiping = "idle" /\ ~ spoiled =>
    \/ Emptied
    \/ Loaded /\ \A f \in Fields : field[f] = field["identity"]
=============================================================================
