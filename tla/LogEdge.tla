------------------------------- MODULE LogEdge -------------------------------
(***************************************************************************)
(* LogEdgeClient (log_edge.py) sending records to the logger from several  *)
(* threads: with background=True every record has a thread of its own, and *)
(* the two sides of a request share one client.  A record that fails is    *)
(* never retried: it is reported and dropped, or the exception goes to the *)
(* caller if the client is strict.  (A disabled client does nothing.)      *)
(*                                                                         *)
(* _ensure() makes the client ready at the first delivery.  It tests       *)
(* `_enc is None`, fetches the logger's keys, sets _enc and only then      *)
(* loads the signing key, without a lock: a second delivery that finds     *)
(* _enc set takes whatever _signing is at that moment.                     *)
(*                                                                         *)
(* A record's `stage`:                                                     *)
(*   new -> start -> [fetch -> wire -> key ->] take -> sign -> post        *)
(*       -> delivered, or lost or raised on the way, for a `cause`         *)
(*   new -> refused                                                        *)
(***************************************************************************)
EXTENDS Integers

CONSTANTS
  Records,                 \* records to send, one delivery each
  Supplied,                \* whether the caller passed signing=
  KeyAtStart,              \* whether the key file is readable at first
  MaxBlips                 \* bound: faults of the network or the logger

ASSUME LogEdgeAssumption ==
  Supplied \in BOOLEAN /\ KeyAtStart \in BOOLEAN /\ MaxBlips \in Nat

VARIABLES
  strict, named,           \* _strict; whether sender_id is configured
  enc, signing,            \* whether _enc and _signing are set
  keyFile,                 \* whether the configured key file is readable
  stage, cause,            \* per record: progress, and why it was lost
  sound,                   \* per record: whether its content can be encoded
  signs,                   \* per record: whether _ensure() returned a key
  warm,                    \* history: the client was ready when it was sent
  blips

clientVars == <<strict, named, enc, signing>>
recordVars == <<stage, cause, sound, signs, warm>>
vars == <<clientVars, keyFile, recordVars, blips>>

Failed == {"lost", "raised"}
Ended == {"delivered", "refused"} \cup Failed
Stages == {"new", "start", "fetch", "wire", "key", "take", "sign", "post"}
            \cup Ended
Causes == {"none", "fetch", "key", "encode", "sender", "unsigned", "post"}

Ready == enc /\ signing

Init ==
  /\ strict \in BOOLEAN /\ named \in BOOLEAN
  /\ enc = FALSE /\ signing = Supplied
  /\ keyFile = KeyAtStart
  /\ stage = [r \in Records |-> "new"]
  /\ cause = [r \in Records |-> "none"]
  /\ sound = [r \in Records |-> TRUE]
  /\ signs = [r \in Records |-> FALSE]
  /\ warm = [r \in Records |-> FALSE]
  /\ blips = 0

GoTo(r, s) == stage' = [stage EXCEPT ![r] = s]

(* _deliver_sync(): the exception is printed and the record is dropped, or *)
(* it goes on to the caller.                                               *)
Lose(r, why) ==
  /\ GoTo(r, IF strict THEN "raised" ELSE "lost")
  /\ cause' = [cause EXCEPT ![r] = why]

Blip == blips < MaxBlips /\ blips' = blips + 1

-----------------------------------------------------------------------------
(* Mutants: a failed fetch forgets the client; the key is loaded and not   *)
(* kept; a record without a key starts over; a stage of its own.           *)
AfterFailedFetch_Reset == enc' = FALSE /\ UNCHANGED <<strict, named, signing>>
KeepKey_Dropped == UNCHANGED signing
Unsigned_Again(r) == GoTo(r, "start") /\ UNCHANGED cause
Unsigned_Silent(r) == GoTo(r, "dropped") /\ UNCHANGED cause

(* send_record() refuses what is no dict, or has no kind or request_id.    *)
Refuse(r) ==
  /\ stage[r] = "new"
  /\ GoTo(r, "refused")
  /\ UNCHANGED <<clientVars, keyFile, cause, sound, signs, warm, blips>>

(* send_prompt(), send_response(), send_record() on an enabled client, s:  *)
(* with content that json.dumps() and UTF-8 can encode.                    *)
Send(r, s) ==
  /\ stage[r] = "new"
  /\ sound' = [sound EXCEPT ![r] = s]
  /\ GoTo(r, "start")
  /\ warm' = [warm EXCEPT ![r] = Ready]
  /\ UNCHANGED <<clientVars, keyFile, cause, signs, blips>>

(* _ensure(): `if self._enc is None`.                                      *)
TestEnc(r) ==
  /\ stage[r] = "start"
  /\ IF enc THEN GoTo(r, "take") ELSE GoTo(r, "fetch")
  /\ UNCHANGED <<clientVars, keyFile, cause, sound, signs, warm, blips>>

(* GET /keys, once per delivery that found no _enc.                        *)
FetchKeys(r) ==
  /\ stage[r] = "fetch"
  /\ GoTo(r, "wire")
  /\ UNCHANGED <<clientVars, keyFile, cause, sound, signs, warm, blips>>

AfterFailedFetch == UNCHANGED clientVars

FetchFails(r) ==
  /\ stage[r] = "fetch"
  /\ Blip
  /\ Lose(r, "fetch")
  /\ AfterFailedFetch
  /\ UNCHANGED <<keyFile, sound, signs, warm>>

SetEnc(r) ==
  /\ stage[r] = "wire"
  /\ enc' = TRUE
  /\ GoTo(r, "key")
  /\ UNCHANGED <<strict, named, signing, keyFile, cause, sound, signs, warm, blips>>

(* The signing key is loaded unless _signing is set; without a readable    *)
(* file the delivery fails, and _enc stays set.                            *)
KeepKey == signing' = TRUE

LoadKey(r) ==
  /\ stage[r] = "key"
  /\ \/ signing /\ GoTo(r, "take") /\ UNCHANGED <<signing, cause>>
     \/ ~ signing /\ keyFile /\ GoTo(r, "take") /\ KeepKey /\ UNCHANGED cause
     \/ ~ signing /\ ~ keyFile /\ Lose(r, "key") /\ UNCHANGED signing
  /\ UNCHANGED <<strict, named, enc, keyFile, sound, signs, warm, blips>>

(* `return self._enc, self._signing`.                                      *)
TakeClient(r) ==
  /\ stage[r] = "take"
  /\ signs' = [signs EXCEPT ![r] = signing]
  /\ GoTo(r, "sign")
  /\ UNCHANGED <<clientVars, keyFile, cause, sound, warm, blips>>

(* The arguments of sign() are evaluated first: a record that cannot be    *)
(* encoded raises, and without a sender_id the identity asked of the       *)
(* encryptor does.  sign() without a key raises too.                       *)
Unsigned(r) == Lose(r, "unsigned")

SignAndSeal(r) ==
  /\ stage[r] = "sign"
  /\ \/ ~ sound[r] /\ Lose(r, "encode")
     \/ sound[r] /\ ~ named /\ Lose(r, "sender")
     \/ sound[r] /\ named /\ ~ signs[r] /\ Unsigned(r)
     \/ sound[r] /\ named /\ signs[r] /\ GoTo(r, "post") /\ UNCHANGED cause
  /\ UNCHANGED <<clientVars, keyFile, sound, signs, warm, blips>>

Post(r) ==
  /\ stage[r] = "post"
  /\ GoTo(r, "delivered")
  /\ UNCHANGED <<clientVars, keyFile, cause, sound, signs, warm, blips>>

PostFails(r) ==
  /\ stage[r] = "post"
  /\ Blip
  /\ Lose(r, "post")
  /\ UNCHANGED <<clientVars, keyFile, sound, signs, warm>>

(* The operator mounts the key file, or it goes away.                      *)
ChangeKeyFile ==
  /\ ~ Supplied /\ blips < MaxBlips
  /\ keyFile' = ~ keyFile
  /\ blips' = blips + 1
  /\ UNCHANGED <<clientVars, recordVars>>

Deliver(r) ==
  \/ TestEnc(r) \/ FetchKeys(r) \/ FetchFails(r) \/ SetEnc(r) \/ LoadKey(r)
  \/ TakeClient(r) \/ SignAndSeal(r) \/ Post(r) \/ PostFails(r)

Next ==
  \/ ChangeKeyFile
  \/ \E r \in Records, s \in BOOLEAN : Send(r, s)
  \/ \E r \in Records : Refuse(r) \/ Deliver(r)

Spec == Init /\ [][Next]_vars

(* Every thread runs on: the HTTP calls have a timeout of ten seconds.     *)
FairSpec == Spec /\ \A r \in Records : WF_vars(Deliver(r))

-----------------------------------------------------------------------------
TypeOK ==
  /\ strict \in BOOLEAN /\ named \in BOOLEAN
  /\ enc \in BOOLEAN /\ signing \in BOOLEAN /\ keyFile \in BOOLEAN
  /\ stage \in [Records -> Stages]
  /\ cause \in [Records -> Causes]
  /\ sound \in [Records -> BOOLEAN]
  /\ signs \in [Records -> BOOLEAN]
  /\ warm \in [Records -> BOOLEAN]
  /\ blips \in 0..MaxBlips
  /\ \A r \in Records : stage[r] \in Failed <=> cause[r] # "none"

(* The client has its encryptor but no signing key only while a delivery   *)
(* is about to load it, or since one failed to: what _ensure()'s single    *)
(* test of _enc relies on.  Records sent meanwhile are lost unsigned; this *)
(* says when, not that none is.                                            *)
HalfReadyExplained ==
  enc /\ ~ signing =>
    \E r \in Records : stage[r] = "key" \/ cause[r] = "key"

(* The losses that are a record's own: its POST fails, it cannot be        *)
(* encoded, or the client has no sender_id to sign in the name of.         *)
OwnLoss(r) ==
  \/ cause[r] = "post"
  \/ cause[r] = "encode" /\ ~ sound[r]
  \/ cause[r] = "sender" /\ ~ named

(* Once the client is ready it stays so: a record sent from then on is not *)
(* lost to fetching keys, to loading the signing key or to its absence,    *)
(* whatever the deliveries that began before run into, but to a loss of    *)
(* its own alone.                                                          *)
WarmSparedReadiness ==
  \A r \in Records : warm[r] /\ stage[r] \in Failed => OwnLoss(r)

(* Every record sent ends delivered, reported as lost or raised.           *)
Settles ==
  \A r \in Records : stage[r] = "start" ~> stage[r] \in Ended
=============================================================================
