--------------------------- MODULE BootEnrollment ---------------------------
(***************************************************************************)
(* How a spoke obtains its identity at boot: BootKeyProvider._load() and   *)
(* the enrollment handshake it drives (_keys.py), against the key hub.     *)
(*                                                                         *)
(* The spoke asks the hub for its identity.  An unknown spoke mints an     *)
(* enrollment key pair in its key directory and submits the public half;   *)
(* an admin approves or rejects it; the spoke polls until the hub releases *)
(* an envelope wrapped to the approved key, and opens it with the pair on  *)
(* disk.  Each answer is computed by the hub at one moment and handled by  *)
(* the spoke at a later one.                                               *)
(*                                                                         *)
(* The hub is a service outside this repository, modelled from the status  *)
(* codes and texts the spoke distinguishes.  A spoke that crashed starts   *)
(* again, one whose boot failed may be restarted by a supervisor; all      *)
(* either kept is the key directory.                                       *)
(*                                                                         *)
(* Time is not modelled: a back-off is the stage "waiting".                *)
(***************************************************************************)
EXTENDS Keyring

CONSTANTS
  MaxBlips,                \* bound: transient faults of network and hub
  MaxCrashes,              \* bound: crashes
  TornWrites               \* whether a crash may fall inside save_identity

ASSUME BootAssumption ==
  MaxBlips \in Nat /\ MaxCrashes \in Nat /\ TornWrites \in BOOLEAN

VARIABLES
  status, hubPair,         \* the hub's enrollment record and its key pair
  late,                    \* pairs of submissions that may still arrive
  stage,                   \* where the spoke is in _load()
  reply, replyPair,        \* the answer in flight or being handled
  why,                     \* what ended the last failed boot
  blips, crashes

hubVars == <<status, hubPair>>
faultVars == <<blips, crashes>>
vars == <<keyringVars, hubVars, late, stage, reply, replyPair, why, faultVars>>

Statuses == {"none", "pending", "approved", "rejected"}

Saving == {"truncKem", "fillKem", "truncX", "fillX"}
Stages == {"off", "asking", "answered", "submit", "load", "posting", "posted",
           "waiting", "booted", "failed"} \cup Saving

(* Answers to GET /keys/identities/<id>, then those to POST /enrollments.  *)
GetReplies == {"released", "pending", "unknown", "rejected",
               "busy", "lost", "unusable", "error"}
PostReplies == {"created", "exists", "limited", "broken", "lost"}
Replies == {"none"} \cup GetReplies \cup PostReplies

(* What ended a boot: the poll's answer, or what failed besides.           *)
Causes == Replies \cup {"keyring", "unwrap", "post"}
NoPair == <<0, 0>>

Init ==
  /\ KeyringInit
  /\ status = "none" /\ hubPair = NoPair /\ late = {}
  /\ stage = "off" /\ reply = "none" /\ replyPair = NoPair /\ why = "none"
  /\ blips = 0 /\ crashes = 0

GoTo(s) == stage' = s /\ reply' = "none" /\ replyPair' = NoPair

Fail(cause) == GoTo("failed") /\ why' = cause

Blip == blips < MaxBlips /\ blips' = blips + 1

-----------------------------------------------------------------------------
(* Mutants: a busy hub is not waited for; an unknown spoke does not enroll;*)
(* a rejection is waited on as if it were pending; the keyring is made     *)
(* anew at every submission, or never made.                                *)
Transient_LostOnly == {"lost"}
MayEnroll_Never == FALSE
Transient_Rejected == {"busy", "lost", "rejected"}
NeedsPair_Always == TRUE
NeedsPair_Never == FALSE

(* What _fetch_identity_with_enrollment() answers with a back-off.         *)
Transient == {"busy", "lost"}

MayEnroll == reply = "unknown"

NeedsPair == MustMint              \* see ensure_keyring() in Keyring

StartBoot ==
  /\ stage = "off"
  /\ GoTo("asking")
  /\ why' = "none"
  /\ UNCHANGED <<keyringVars, hubVars, late, faultVars>>

(* The hub answers by its record: the envelope, or 403 and a reason.       *)
HubAnswers ==
  /\ stage = "asking"
  /\ stage' = "answered"
  /\ reply' = CASE status = "approved" -> "released"
                [] status = "pending"  -> "pending"
                [] status = "rejected" -> "rejected"
                [] status = "none"     -> "unknown"
  /\ replyPair' = IF status = "approved" THEN hubPair ELSE NoPair
  /\ UNCHANGED <<keyringVars, hubVars, late, why, faultVars>>

(* 429 or 5xx, no connection, an answer the spoke cannot use, or another   *)
(* code or reason.                                                         *)
HubFalters ==
  /\ stage = "asking"
  /\ Blip
  /\ stage' = "answered"
  /\ reply' \in {"busy", "lost", "unusable", "error"}
  /\ UNCHANGED <<keyringVars, hubVars, late, replyPair, why, crashes>>

Awaited == {"pending"} \cup Transient

BackOff ==
  /\ stage = "answered" /\ reply \in Awaited
  /\ GoTo("waiting")
  /\ UNCHANGED <<keyringVars, hubVars, late, why, faultVars>>

(* A rejection, and whatever no other branch takes: the boot raises.       *)
FailFast ==
  /\ stage = "answered"
  /\ reply # "released" /\ reply \notin Awaited /\ ~ MayEnroll
  /\ Fail(reply)
  /\ UNCHANGED <<keyringVars, hubVars, late, faultVars>>

PollAgain ==
  /\ stage = "waiting"
  /\ GoTo("asking")
  /\ UNCHANGED <<keyringVars, hubVars, late, why, faultVars>>

(* The envelope opens with the pair on disk, if that is the pair it was    *)
(* wrapped to; the identity is then held in memory.                        *)
OpenEnvelope ==
  /\ stage = "answered" /\ reply = "released"
  /\ \/ ~ Loadable /\ Fail("keyring")
     \/ Loadable /\ DiskPair # replyPair /\ Fail("unwrap")
     \/ Loadable /\ DiskPair = replyPair /\ GoTo("booted") /\ UNCHANGED why
  /\ UNCHANGED <<keyringVars, hubVars, late, faultVars>>

(* _submit_pending(): ensure_keyring() first.                              *)
BeginEnrollment ==
  /\ stage = "answered" /\ MayEnroll
  /\ GoTo("submit")
  /\ UNCHANGED <<keyringVars, hubVars, late, why, faultVars>>

EnsureKeyring ==
  /\ \/ stage = "submit" /\ ~ NeedsPair /\ GoTo("load") /\ UNCHANGED keyringVars
     \/ stage = "submit" /\ NeedsPair /\ GoTo("truncKem") /\ Mint
     \/ stage = "truncKem" /\ GoTo("fillKem") /\ TruncateKem
     \/ stage = "fillKem" /\ GoTo("truncX") /\ FillKem
     \/ stage = "truncX" /\ GoTo("fillX") /\ TruncateX
     \/ stage = "fillX" /\ GoTo("load") /\ FillX
  /\ UNCHANGED <<hubVars, late, why, faultVars>>

(* ... then FileKeyProvider, which raises when a file is missing or torn.  *)
LoadKeyring ==
  /\ stage = "load"
  /\ \/ Loadable /\ GoTo("posting") /\ UNCHANGED why
     \/ ~ Loadable /\ Fail("keyring")
  /\ UNCHANGED <<keyringVars, hubVars, late, faultVars>>

(* POST /keys/enrollments reaches the hub.                                 *)
Enroll(pair) ==
  IF status = "none" THEN status' = "pending" /\ hubPair' = pair
                     ELSE UNCHANGED hubVars

HubAccepts ==
  /\ stage = "posting"
  /\ Enroll(DiskPair)
  /\ stage' = "posted"
  /\ reply' = IF status = "none" THEN "created" ELSE "exists"
  /\ UNCHANGED <<keyringVars, late, replyPair, why, faultVars>>

(* 429, another error code, or no answer; in the last case the hub may     *)
(* still receive the submission, whatever the spoke does meanwhile.        *)
PostFalters ==
  /\ stage = "posting"
  /\ Blip
  /\ stage' = "posted"
  /\ \/ reply' \in {"limited", "broken"} /\ UNCHANGED late
     \/ reply' = "lost" /\ late' \in {late, late \cup {DiskPair}}
  /\ UNCHANGED <<keyringVars, hubVars, replyPair, why, crashes>>

LateArrival ==
  /\ \E pair \in late : Enroll(pair) /\ late' = late \ {pair}
  /\ UNCHANGED <<keyringVars, stage, reply, replyPair, why, faultVars>>

(* 409 and 429 are taken as submitted; any other code is a                 *)
(* ConfigurationError, and a network error leaves _load() as it is.        *)
AfterPost ==
  /\ stage = "posted"
  /\ \/ reply \in {"created", "exists", "limited"} /\ GoTo("waiting") /\ UNCHANGED why
     \/ reply \in {"broken", "lost"} /\ Fail("post")
  /\ UNCHANGED <<keyringVars, hubVars, late, faultVars>>

(* The container whose boot raised is started again, if anything does that.*)
Supervise ==
  /\ stage = "failed"
  /\ GoTo("off")
  /\ UNCHANGED <<keyringVars, hubVars, late, why, faultVars>>

(* The process dies: memory is gone, the files stay as they are.           *)
Crash ==
  /\ stage # "off" /\ crashes < MaxCrashes
  /\ TornWrites \/ stage \notin Saving \ {"truncKem"}
  /\ crashes' = crashes + 1
  /\ late' \in IF stage = "posting" THEN {late, late \cup {DiskPair}} ELSE {late}
  /\ GoTo("off")
  /\ why' = "none"
  /\ UNCHANGED <<keyringVars, hubVars, blips>>

(* The admin, and a request that expires or is withdrawn.                  *)
Decide ==
  /\ \/ status = "pending" /\ status' \in {"approved", "rejected"} /\ UNCHANGED hubPair
     \/ status # "none" /\ status' = "none" /\ hubPair' = NoPair
  /\ UNCHANGED <<keyringVars, late, stage, reply, replyPair, why, faultVars>>

BootStep ==
  \/ StartBoot \/ HubAnswers \/ HubFalters \/ BackOff \/ FailFast \/ PollAgain
  \/ OpenEnvelope \/ BeginEnrollment \/ EnsureKeyring \/ LoadKeyring
  \/ HubAccepts \/ PostFalters \/ AfterPost

Next == BootStep \/ Supervise \/ LateArrival \/ Crash \/ Decide

Spec == Init /\ [][Next]_vars

(* A spoke that is up runs, the hub answers or falters, a machine that     *)
(* went down comes back.  Nothing need restart a boot that raised.         *)
FairSpec == Spec /\ WF_vars(BootStep)

-----------------------------------------------------------------------------
Pairs == Contents \X Contents

TypeOK ==
  /\ KeyringOK
  /\ status \in Statuses /\ hubPair \in Pairs /\ late \subseteq Pairs
  /\ stage \in Stages /\ reply \in Replies /\ replyPair \in Pairs
  /\ why \in Causes
  /\ blips \in 0..MaxBlips /\ crashes \in 0..MaxCrashes
  /\ status = "none" <=> hubPair = NoPair

(* What the admin approves is the key pair the spoke still has: while the  *)
(* hub holds a record, and while a submission or a release is on its way,  *)
(* both files on disk are those of the submitted pair, whatever crashed,   *)
(* was lost or came late (ensure_keyring(), _submit_pending(), _load()).   *)
EnrolledPairOnDisk ==
  \A pair \in {hubPair, replyPair} \cup late :
    pair # NoPair => Loadable /\ DiskPair = pair

(* A key file, once filled, is never overwritten: ensure_keyring()'s       *)
(* "Existing keys are never overwritten".                                  *)
NeverOverwritten ==
  [][/\ kemFile > 0 => kemFile' = kemFile
     /\ xFile > 0 => xFile' = xFile]_keyringVars

(* What the code does not try again: a rejection, a release it cannot use, *)
(* another error code, a submission that failed.                           *)
GivenUp == stage = "failed" /\ why \in {"rejected", "unusable", "error", "post"}

(* A spoke whose enrollment stays approved comes up by itself and stays    *)
(* up, however the hub was busy or out of reach and wherever it crashed;   *)
(* only an answer the code does not try again leaves it down until it is   *)
(* restarted ("A spoke boot MUST self-heal", _keys.py).                    *)
ApprovalBoots == <>[](status = "approved") => <>[](stage = "booted" \/ GivenUp)

(* A spoke the hub does not know makes itself known, also after its        *)
(* request expired, unless such an answer ends its boot.                   *)
EnrollmentArrives ==
  status = "none" ~> (status # "none" \/ stage = "booted" \/ GivenUp)

(* A rejected enrollment ends the boot: it is not polled again as if it    *)
(* were pending ("A rejected enrollment fails fast").                      *)
RejectionEndsBoot ==
  reply = "rejected" ~> (stage \in {"failed", "off"})

(* "Generate an identity into keydir if its key files are missing": after  *)
(* ensure_keyring() the identity can be loaded.  It holds while no crash   *)
(* falls inside save_identity(), and only then.                            *)
KeyringUsable == stage = "load" => Loadable

(* The spoke settles on one key pair for the life of its key directory,    *)
(* whatever reaches the hub or comes from it is about that pair, and it    *)
(* boots only with what was released to the pair.                          *)
Identity == INSTANCE OneIdentity
              WITH None <- NoPair, own <- IF Loadable THEN DiskPair ELSE NoPair,
                   known <- ({hubPair, replyPair} \cup late) \ {NoPair},
                   running <- (stage = "booted")

KeepsOneIdentity == Identity!Spec
=============================================================================
