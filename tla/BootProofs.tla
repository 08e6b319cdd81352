------------------------------ MODULE BootProofs ------------------------------
(***************************************************************************)
(* The two halves of a BootKeyProvider.  BootEnrollment: safety for any    *)
(* number of faults and crashes, and with crashes inside save_identity()   *)
(* unless a theorem excludes them.  BootRelease: safety for any set of     *)
(* threads and any number of releases and wipes.                           *)
(***************************************************************************)
EXTENDS BootEnrollment, BootRelease, TLAPS

-----------------------------------------------------------------------------
(* BootEnrollment                                                          *)

(* Only an answer being handled carries a pair.                            *)
RepliesCarry == stage # "answered" => replyPair = NoPair

(* While a pair is being saved the hub knows none, and save_identity()     *)
(* finds the files as ensure_keyring() saw them.                           *)
SavingFresh ==
  /\ stage \in Saving => hubPair = NoPair /\ late = {} /\ minted > 0
  /\ stage = "truncKem" => kemFile = NoFile
  /\ stage = "fillKem" => kemFile = Torn
  /\ stage \in {"truncKem", "fillKem", "truncX"} => xFile = NoFile
  /\ stage = "fillX" => xFile = Torn
  /\ stage \in {"truncX", "fillX"} => kemFile > 0

(* A submission carries a pair.                                            *)
LateFilled == NoPair \notin late

(* The x file is written after the kem file.                               *)
KemFirst == kemFile = NoFile => xFile = NoFile

(* The pair that is submitted is one that was loaded.                      *)
PostsLoaded ==
  /\ stage = "load" => kemFile # NoFile
  /\ stage = "posting" => Loadable

(* Without a crash inside save_identity() both files exist or neither.     *)
WholePair ==
  ~ TornWrites /\ stage \notin Saving =>
    Loadable \/ (kemFile = NoFile /\ xFile = NoFile)

IInv ==
  /\ TypeOK /\ EnrolledPairOnDisk /\ RepliesCarry /\ LateFilled /\ SavingFresh /\ KemFirst
  /\ PostsLoaded /\ WholePair

-----------------------------------------------------------------------------
(* The steps of the boot that leave key files, hub and submissions alone.  *)
QuietStep ==
  \/ StartBoot \/ HubAnswers \/ HubFalters \/ BackOff \/ FailFast \/ PollAgain
  \/ OpenEnvelope \/ BeginEnrollment \/ LoadKeyring \/ AfterPost \/ Supervise

LEMMA Initially == Init => IInv
BY BootAssumption
DEF Init, KeyringInit, IInv, TypeOK, KeyringOK, Contents, Pairs, Statuses, Stages, Saving,
    Replies, GetReplies, PostReplies, Causes, NoPair, EnrolledPairOnDisk, RepliesCarry,
    LateFilled, SavingFresh, KemFirst, PostsLoaded, Loadable, WholePair, NoFile, Torn

(* Where a quiet step leads, and that it brings no new pair.               *)
LEMMA QuietFacts ==
  ASSUME IInv, QuietStep
  PROVE  /\ UNCHANGED <<keyringVars, hubVars, late>>
         /\ stage' \in Stages \ (Saving \cup {"load"})
         /\ stage' = "posting" => Loadable
         /\ reply' \in Replies
         /\ replyPair' \in {NoPair, hubPair}
         /\ stage' # "answered" => replyPair' = NoPair
         /\ why' \in Causes
         /\ blips' \in 0..MaxBlips /\ crashes' \in 0..MaxCrashes
<1> USE BootAssumption
    DEF IInv, TypeOK, RepliesCarry, Stages, Saving, Replies, GetReplies, PostReplies, Causes,
        GoTo, Fail, faultVars
<1>1. CASE StartBoot \/ BackOff \/ PollAgain \/ BeginEnrollment \/ Supervise
  BY <1>1 DEF StartBoot, BackOff, PollAgain, BeginEnrollment, Supervise
<1>2. CASE HubAnswers
  BY <1>2 DEF HubAnswers, Statuses
<1>3. CASE HubFalters
  BY <1>3 DEF HubFalters, Blip
<1>4. CASE FailFast \/ AfterPost
  BY <1>4 DEF FailFast, AfterPost
<1>5. CASE OpenEnvelope \/ LoadKeyring
  BY <1>5 DEF OpenEnvelope, LoadKeyring
<1> QED
  BY <1>1, <1>2, <1>3, <1>4, <1>5 DEF QuietStep

LEMMA QuietKeeps ==
  ASSUME IInv, QuietStep
  PROVE  IInv'
<1> USE QuietFacts DEF IInv, keyringVars, hubVars
<1>1. TypeOK'
  BY DEF TypeOK, KeyringOK, Pairs, Contents, NoPair, NoFile
<1>2. EnrolledPairOnDisk'
  BY DEF EnrolledPairOnDisk, Loadable, DiskPair
<1>3. RepliesCarry' /\ KemFirst' /\ LateFilled'
  BY DEF RepliesCarry, KemFirst, LateFilled, PostsLoaded, Loadable, DiskPair
<1>4. SavingFresh'
  BY DEF SavingFresh, Saving
<1>5. PostsLoaded'
  BY DEF PostsLoaded, Loadable
<1>6. WholePair'
  <2>1. CASE stage \in Saving
    BY <2>1
    DEF Saving, QuietStep, StartBoot, HubAnswers, HubFalters, BackOff, FailFast, PollAgain,
        OpenEnvelope, BeginEnrollment, LoadKeyring, AfterPost, Supervise
  <2>2. CASE stage \notin Saving
    BY <2>2 DEF WholePair, Loadable
  <2> QED
    BY <2>1, <2>2
<1> QED
  BY <1>1, <1>2, <1>3, <1>4, <1>5, <1>6

LEMMA KeyringKeeps ==
  ASSUME IInv, EnsureKeyring
  PROVE  IInv'
<1> USE DEF IInv, GoTo, keyringVars, hubVars, faultVars, NoPair, NoFile, Torn, EnsureKeyring,
            NeedsPair, MustMint, Mint, TruncateKem, FillKem, TruncateX, FillX,
            TypeOK, KeyringOK, Contents
<1>1. TypeOK'
  BY DEF Pairs, Stages, Saving, Replies
<1>2. EnrolledPairOnDisk'
  BY DEF EnrolledPairOnDisk, Loadable, DiskPair, SavingFresh, Saving
<1>3. RepliesCarry' /\ LateFilled'
  BY DEF RepliesCarry, LateFilled
<1>4. SavingFresh'
  <2>1. MustMint => late = {} /\ hubPair = NoPair
    BY DEF EnrolledPairOnDisk, LateFilled, Loadable
  <2> QED
    BY <2>1 DEF SavingFresh, Saving, KemFirst
<1>5. KemFirst'
  BY DEF KemFirst, SavingFresh, Saving
<1>6. PostsLoaded'
  BY DEF PostsLoaded, Loadable, SavingFresh, Saving
<1>7. WholePair'
  BY DEF WholePair, Loadable, Saving, SavingFresh, KemFirst
<1> QED
  BY <1>1, <1>2, <1>3, <1>4, <1>5, <1>6, <1>7

(* The steps that touch the hub or the submissions, but no key file.       *)
LEMMA HubKeeps ==
  ASSUME IInv, HubAccepts \/ PostFalters \/ LateArrival \/ Decide
  PROVE  IInv'
<1> USE BootAssumption
    DEF IInv, keyringVars, hubVars, faultVars, NoPair, HubAccepts, PostFalters, LateArrival,
        Decide, Blip, Enroll
<1>1. TypeOK'
  BY DEF TypeOK, KeyringOK, Contents, Pairs, Statuses, Stages, Saving, Replies, PostReplies,
         PostsLoaded, Loadable, DiskPair, LateFilled, NoFile
<1>2. EnrolledPairOnDisk'
  BY DEF EnrolledPairOnDisk, TypeOK, Loadable, DiskPair, PostsLoaded, RepliesCarry
<1>3. RepliesCarry' /\ KemFirst' /\ LateFilled'
  BY DEF RepliesCarry, KemFirst, LateFilled, PostsLoaded, Loadable, DiskPair
<1>4. SavingFresh'
  BY DEF SavingFresh, Saving
<1>5. PostsLoaded' /\ WholePair'
  BY DEF PostsLoaded, WholePair, Loadable, Saving
<1> QED
  BY <1>1, <1>2, <1>3, <1>4, <1>5

LEMMA CrashKeeps ==
  ASSUME IInv, Crash
  PROVE  IInv'
<1> USE BootAssumption
    DEF IInv, GoTo, keyringVars, hubVars, NoPair, Crash
<1>1. TypeOK'
  BY DEF TypeOK, KeyringOK, Contents, Pairs, Stages, Replies, Causes, DiskPair, NoFile
<1>2. EnrolledPairOnDisk'
  BY DEF EnrolledPairOnDisk, Loadable, DiskPair, PostsLoaded
<1>3. RepliesCarry' /\ LateFilled' /\ KemFirst' /\ SavingFresh' /\ PostsLoaded'
  BY DEF RepliesCarry, LateFilled, Loadable, DiskPair, KemFirst, SavingFresh, Saving, PostsLoaded
<1>4. WholePair'
  BY DEF WholePair, Loadable, Saving, SavingFresh, KemFirst
<1> QED
  BY <1>1, <1>2, <1>3, <1>4

LEMMA Inductive == IInv /\ [Next]_vars => IInv'
<1> SUFFICES ASSUME IInv, [Next]_vars PROVE IInv'
  OBVIOUS
<1>1. CASE Next
  BY <1>1, QuietKeeps, KeyringKeeps, HubKeeps, CrashKeeps DEF Next, BootStep, QuietStep
<1>2. CASE UNCHANGED vars
  BY <1>2
  DEF vars, keyringVars, hubVars, faultVars, IInv, TypeOK, KeyringOK, EnrolledPairOnDisk,
      DiskPair, RepliesCarry, LateFilled, SavingFresh, KemFirst, PostsLoaded, Loadable, WholePair
<1> QED
  BY <1>1, <1>2

LEMMA Invariance == Spec => []IInv
<1>1. QED
  BY Initially, Inductive, PTL DEF Spec

(* The variables keep their types, and the hub holds a pair exactly when   *)
(* it holds an enrollment.                                                 *)
THEOREM TypeCorrect == Spec => []TypeOK
<1>1. IInv => TypeOK
  BY DEF IInv
<1>2. QED
  BY <1>1, Invariance, PTL

(* An approved spoke can open what the hub releases to it: the pair the    *)
(* hub wraps to is the pair on disk, whatever crashed or was lost.         *)
THEOREM EnrolledPairStays == Spec => []EnrolledPairOnDisk
<1>1. IInv => EnrolledPairOnDisk
  BY DEF IInv
<1>2. QED
  BY <1>1, Invariance, PTL

(* ensure_keyring() never overwrites a filled key file.                    *)
THEOREM KeysNeverOverwritten == Spec => NeverOverwritten
<1> DEFINE Keeps == /\ kemFile > 0 => kemFile' = kemFile
                    /\ xFile > 0 => xFile' = xFile
<1>1. ASSUME IInv, Next PROVE Keeps
  <2>1. CASE EnsureKeyring
    BY <1>1, <2>1 DEF IInv, SavingFresh, EnsureKeyring, Mint, TruncateKem, FillKem,
       TruncateX, FillX, keyringVars, NoFile, Torn
  <2>2. CASE ~ EnsureKeyring
    BY <1>1, <2>2 DEF Next, BootStep, StartBoot, HubAnswers, HubFalters, BackOff,
       FailFast, PollAgain, OpenEnvelope, BeginEnrollment, LoadKeyring, HubAccepts,
       PostFalters, LateArrival, AfterPost, Supervise, Crash, Decide, keyringVars
  <2>3. QED
    BY <2>1, <2>2
<1>2. IInv /\ [Next]_vars => [Keeps]_keyringVars
  BY <1>1 DEF vars, keyringVars
<1>3. QED
  BY <1>2, Invariance, PTL DEF Spec, NeverOverwritten

(* If no crash falls inside save_identity(), ensure_keyring() always       *)
(* leaves an identity that loads.                                          *)
THEOREM UsableUnlessTorn ==
  ASSUME ~ TornWrites
  PROVE  Spec => []KeyringUsable
<1>1. IInv => KeyringUsable
  BY DEF IInv, KeyringUsable, WholePair, PostsLoaded, Saving
<1>2. QED
  BY <1>1, Invariance, PTL

(* The spoke and the hub implement OneIdentity.                            *)
THEOREM OneIdentityKept == Spec => KeepsOneIdentity
<1> USE DEF Loadable, DiskPair, NoPair, NoFile, Torn
<1>1. Init => Identity!Init
  BY DEF Init, KeyringInit, Identity!Init
<1>2. ASSUME IInv, [Next]_vars PROVE [Identity!Next]_(Identity!vars)
  <2> DEFINE pair == IF Loadable THEN DiskPair ELSE NoPair
             known == ({hubPair, replyPair} \cup late) \ {NoPair}
  <2>1. known \subseteq {pair} /\ known' \subseteq {pair'} /\ (known = {} \/ pair # NoPair)
    BY <1>2, Inductive DEF IInv, EnrolledPairOnDisk
  <2>2. ASSUME pair' = pair, (stage' = "booted") <=> (stage = "booted")
        PROVE  [Identity!Next]_(Identity!vars)
    <3>1. CASE pair # NoPair
      BY <2>1, <2>2, <3>1 DEF Identity!Next, Identity!Tell
    <3>2. CASE pair = NoPair
      <4>1. known = {} /\ known' = {}
        BY <2>1, <2>2, <3>2
      <4>2. QED
        BY <2>2, <4>1 DEF Identity!vars
    <3>3. QED
      BY <3>1, <3>2
  <2>3. CASE EnsureKeyring
    <3>1. UNCHANGED <<hubPair, late>> /\ replyPair = NoPair /\ replyPair' = NoPair
      BY <1>2, <2>3 DEF IInv, RepliesCarry, EnsureKeyring, GoTo, hubVars
    <3>2. stage # "booted" /\ stage' # "booted"
      BY <2>3 DEF EnsureKeyring, GoTo
    <3>3. pair' = pair \/ (pair = NoPair /\ pair' # NoPair)
      BY <1>2, <2>3 DEF IInv, SavingFresh, EnsureKeyring, Mint, TruncateKem, FillKem,
         TruncateX, FillX, keyringVars
    <3>4. CASE pair = NoPair /\ pair' # NoPair
      <4>1. known = {} /\ known' = known
        BY <2>1, <3>1, <3>4
      <4>2. QED
        BY <3>2, <3>4, <4>1 DEF Identity!Next, Identity!Settle
    <3>5. QED
      BY <2>2, <3>2, <3>3, <3>4
  <2>4. CASE QuietStep
    <3>1. UNCHANGED <<keyringVars, hubPair, late>> /\ pair' = pair
      BY <1>2, <2>4, QuietFacts DEF keyringVars, hubVars
    <3>2. CASE stage' = "booted" /\ stage # "booted"
      <4>1. OpenEnvelope /\ Loadable /\ DiskPair = replyPair
        BY <2>4, <3>2 DEF QuietStep, StartBoot, HubAnswers, HubFalters, BackOff, FailFast,
           PollAgain, OpenEnvelope, BeginEnrollment, LoadKeyring, AfterPost, Supervise, GoTo,
           Fail
      <4>2. pair \in known /\ known' \subseteq known
        BY <3>1, <4>1 DEF OpenEnvelope, GoTo
      <4>3. QED
        BY <3>1, <3>2, <4>2 DEF Identity!Next, Identity!ComeUp
    <3>3. CASE stage' # "booted" /\ stage = "booted"
      BY <2>4, <3>3 DEF QuietStep, StartBoot, HubAnswers, HubFalters, BackOff, FailFast,
         PollAgain, OpenEnvelope, BeginEnrollment, LoadKeyring, AfterPost, Supervise
    <3>4. QED
      BY <2>2, <3>1, <3>2, <3>3
  <2>5. CASE Crash
    <3>1. pair' = pair /\ stage' # "booted"
      BY <2>5 DEF Crash, GoTo, keyringVars
    <3>2. known' \subseteq known \cup ({pair} \ {NoPair})
      BY <2>1, <3>1
    <3>3. QED
      BY <3>1, <3>2 DEF Identity!Next, Identity!GoDown
  <2>6. CASE HubAccepts \/ PostFalters \/ LateArrival \/ Decide
    <3>1. pair' = pair /\ ((stage' = "booted") <=> (stage = "booted"))
      BY <2>6 DEF HubAccepts, PostFalters, LateArrival, Decide, keyringVars
    <3>2. QED
      BY <2>2, <3>1
  <2>7. CASE UNCHANGED vars
    BY <2>2, <2>7 DEF vars, keyringVars
  <2>8. QED
    BY <1>2, <2>3, <2>4, <2>5, <2>6, <2>7 DEF Next, BootStep, QuietStep
<1>3. QED
  BY <1>1, <1>2, Invariance, PTL DEF Spec, KeepsOneIdentity, Identity!Spec

(* A release that arrives opens: a boot never ends because the hub wrapped *)
(* the identity to another pair, or the keyring did not load, at this      *)
(* point.                                                                  *)
ReleasedCarries == reply = "released" => replyPair # NoPair

THEOREM ReleaseOpens == Spec => [][OpenEnvelope => stage' = "booted"]_vars
<1> DEFINE Carries == IInv /\ ReleasedCarries
<1>1. Init => Carries
  BY Initially DEF Init, ReleasedCarries
<1>2. ASSUME IInv, ReleasedCarries, [Next]_vars PROVE Carries'
  <2>1. IInv'
    BY <1>2, Inductive
  <2>2. ReleasedCarries'
    <3>1. CASE HubAnswers
      BY <1>2, <3>1 DEF HubAnswers, IInv, TypeOK, Statuses, ReleasedCarries
    <3>2. CASE QuietStep /\ ~ HubAnswers
      BY <1>2, <3>2
      DEF ReleasedCarries, QuietStep, StartBoot, HubFalters, BackOff, FailFast, PollAgain,
          OpenEnvelope, BeginEnrollment, LoadKeyring, AfterPost, Supervise, GoTo, Fail
    <3>3. CASE EnsureKeyring \/ HubAccepts \/ PostFalters \/ LateArrival \/ Crash \/ Decide
      BY <1>2, <3>3
      DEF ReleasedCarries, EnsureKeyring, HubAccepts, PostFalters, LateArrival, Crash, Decide, GoTo
    <3>4. CASE UNCHANGED vars
      BY <1>2, <3>4 DEF vars, ReleasedCarries
    <3>5. QED
      BY <1>2, <3>1, <3>2, <3>3, <3>4 DEF Next, BootStep, QuietStep
  <2>3. QED
    BY <2>1, <2>2
<1>3. Carries /\ OpenEnvelope => stage' = "booted"
  BY DEF IInv, EnrolledPairOnDisk, ReleasedCarries, OpenEnvelope, GoTo
<1>4. Carries /\ [Next]_vars => [OpenEnvelope => stage' = "booted"]_vars
  BY <1>3
<1>5. QED
  BY <1>1, <1>2, <1>4, PTL DEF Spec

-----------------------------------------------------------------------------
(* BootRelease                                                             *)

(* Unless spoiled, one thread fills at a time, and none while wiping.      *)
OneFiller ==
  ~ spoiled =>
    /\ \A s, t \in Filling : s = t
    /\ Filling # {} => wiping = "idle"

(* Unless spoiled, a thread that fills has filled what comes first.        *)
PrefixFilled ==
  ~ spoiled =>
    \A t \in Filling :
      /\ phase[t] # "identity" => field["identity"] = found[t]
      /\ phase[t] \in {"tokens", "anchor", "tunnel"} => field["signing"] = found[t]
      /\ phase[t] \in {"anchor", "tunnel"} => field["tokens"] = found[t]
      /\ phase[t] = "tunnel" => field["anchor"] = found[t]

(* Unless spoiled, a wipe has cleared what comes first.                    *)
WipedSoFar ==
  ~ spoiled =>
    /\ wiping \in {"signing", "tokens"} => field["identity"] = None
    /\ wiping = "tokens" => field["signing"] = None

(* Who goes on to read undisturbed finds every field.                      *)
ReadersServed ==
  ~ spoiled =>
    \A t \in Threads :
      phase[t] = "reading" /\ ~ disturbed[t] => \A f \in Fields : field[f] # None

ReleaseInv ==
  /\ ReleaseTypeOK /\ OneFiller /\ PrefixFilled /\ WipedSoFar /\ ReadersServed
  /\ AnswerThere /\ WholeOrNothing

LEMMA ReleaseInitially == ReleaseInit => ReleaseInv
<1> SUFFICES ASSUME ReleaseInit PROVE ReleaseInv
  OBVIOUS
<1> USE ReleaseAssumption DEF ReleaseInit, Fields, KeyFields, Phases, None
<1>1. Filling = {}
  BY DEF Filling
<1>2. ReleaseTypeOK
  <2>1. 0 \in 0..MaxRelease /\ 1 \in 1..MaxRelease /\ 0 \in 0..MaxWipes
    OBVIOUS
  <2> QED
    BY <1>1, <2>1, Zenon DEF ReleaseTypeOK
<1>3. ReadersServed /\ AnswerThere /\ WholeOrNothing
  BY DEF ReadersServed, AnswerThere, WholeOrNothing, Emptied
<1> QED
  BY <1>1, <1>2, <1>3 DEF ReleaseInv, OneFiller, PrefixFilled, WipedSoFar

LEMMA ReleaseTyped ==
  ASSUME ReleaseInv, ReleaseNext
  PROVE  ReleaseTypeOK'
<1> USE ReleaseAssumption
    DEF ReleaseInv, ReleaseTypeOK, Fields, KeyFields, Phases, None, Filling, GoOn, EndCall, callVars
<1>1. ASSUME NEW t \in Threads, Access(t) PROVE ReleaseTypeOK'
  <2>1. CASE \E f \in Fields : CallAccessor(t, f)
    BY <2>1 DEF CallAccessor
  <2>2. CASE ReleaseArrives(t)
    <3>1. spoiled' \in BOOLEAN
      BY <2>2, Zenon DEF ReleaseArrives
    <3> QED
      BY <2>2, <3>1 DEF ReleaseArrives
  <2>3. CASE LoadRaises(t) \/ FillRaises(t)
    <3>1. EndCall(t) /\ UNCHANGED <<material, field, wiping, wipes, disturbed>>
      BY <2>3 DEF LoadRaises, FillRaises, Unfillable
    <3>2. spoiled' \in BOOLEAN
      BY <2>3 DEF LoadRaises, FillRaises, Unfillable
    <3> QED
      BY <3>1, <3>2
  <2>4. CASE FillField(t)
    BY <2>4 DEF FillField, Assigned, AfterFill
  <2>5. CASE ReadField(t) \/ TakeAnswer(t)
    BY <2>5 DEF ReadField, TakeAnswer
  <2> QED
    BY <1>1, <2>1, <2>2, <2>3, <2>4, <2>5 DEF Access
<1>2. CASE BeginWipe \/ WipeField
  <2>1. spoiled' \in BOOLEAN
    BY <1>2, Zenon DEF BeginWipe, WipeField
  <2>2. CASE BeginWipe
    BY <2>1, <2>2 DEF BeginWipe
  <2>3. CASE WipeField
    BY <2>1, <2>3 DEF WipeField, AfterWipe
  <2> QED
    BY <1>2, <2>2, <2>3
<1>3. CASE Rekey
  BY <1>3 DEF Rekey
<1> QED
  BY <1>1, <1>2, <1>3 DEF ReleaseNext

(* The conjuncts of the invariant that the types do not cover.             *)
ReleaseRest ==
  /\ OneFiller /\ PrefixFilled /\ WipedSoFar /\ ReadersServed /\ AnswerThere /\ WholeOrNothing

(* The steps of a thread that assign no field.                             *)
LEMMA QuietAccessKeeps ==
  ASSUME ReleaseInv, NEW t \in Threads,
         \/ \E f \in Fields : CallAccessor(t, f)
         \/ LoadRaises(t) \/ ReadField(t) \/ TakeAnswer(t)
  PROVE  ReleaseRest'
<1> USE DEF ReleaseInv, ReleaseTypeOK, Fields, KeyFields, Phases, None, GoOn, EndCall
<1>1. Filling' = Filling /\ UNCHANGED <<field, wiping, spoiled>>
  BY DEF Filling, CallAccessor, LoadRaises, ReadField, TakeAnswer
<1>2. \A s \in Filling : phase'[s] = phase[s] /\ found'[s] = found[s]
  BY DEF Filling, CallAccessor, LoadRaises, ReadField, TakeAnswer
<1>3. OneFiller' /\ PrefixFilled' /\ WipedSoFar' /\ WholeOrNothing'
  BY <1>1, <1>2 DEF OneFiller, PrefixFilled, WipedSoFar, WholeOrNothing, Emptied, Loaded
<1>4. ReadersServed'
  BY <1>1 DEF ReadersServed, WholeOrNothing, Emptied, Loaded, CallAccessor, LoadRaises,
     ReadField, TakeAnswer
<1>5. AnswerThere'
  BY <1>1 DEF AnswerThere, ReadersServed, CallAccessor, LoadRaises, ReadField, TakeAnswer
<1> QED
  BY <1>3, <1>4, <1>5 DEF ReleaseRest

LEMMA FillingKeeps ==
  ASSUME ReleaseInv, NEW t \in Threads, ReleaseArrives(t) \/ FillField(t) \/ FillRaises(t)
  PROVE  ReleaseRest'
<1> USE DEF ReleaseInv, ReleaseTypeOK, Fields, KeyFields, Phases, None, GoOn, EndCall
<1>1. CASE ReleaseArrives(t)
  <2> USE <1>1 DEF ReleaseArrives, Filling
  <2>1. OneFiller' /\ PrefixFilled'
    BY DEF OneFiller, PrefixFilled
  <2>2. WipedSoFar' /\ ReadersServed' /\ AnswerThere'
    BY DEF WipedSoFar, ReadersServed, AnswerThere
  <2>3. WholeOrNothing'
    BY DEF WholeOrNothing, Emptied, Loaded
  <2> QED
    BY <2>1, <2>2, <2>3 DEF ReleaseRest
<1>2. CASE FillRaises(t)
  BY <1>2 DEF FillRaises, Unfillable, ReleaseRest, OneFiller, PrefixFilled, WipedSoFar,
     ReadersServed, AnswerThere, WholeOrNothing
<1>3. CASE FillField(t)
  <2> USE <1>3 DEF FillField, Assigned, AfterFill, Filling
  <2> SUFFICES ASSUME ~ spoiled PROVE ReleaseRest'
    BY DEF ReleaseRest, OneFiller, PrefixFilled, WipedSoFar, ReadersServed, AnswerThere,
       WholeOrNothing
  <2>1. \A s \in Threads : s # t => phase[s] \notin Fields /\ phase'[s] = phase[s]
    BY DEF OneFiller
  <2>2. wiping = "idle" /\ found[t] # None
    BY DEF OneFiller
  <2>3. OneFiller' /\ PrefixFilled' /\ WipedSoFar'
    BY <2>1, <2>2 DEF OneFiller, PrefixFilled, WipedSoFar
  <2>4. ReadersServed' /\ AnswerThere'
    BY <2>1, <2>2 DEF ReadersServed, AnswerThere, PrefixFilled
  <2>5. WholeOrNothing'
    BY <2>1, <2>2 DEF WholeOrNothing, PrefixFilled, Loaded, Emptied
  <2> QED
    BY <2>3, <2>4, <2>5 DEF ReleaseRest
<1> QED
  BY <1>1, <1>2, <1>3

LEMMA WipingKeeps ==
  ASSUME ReleaseInv, BeginWipe \/ WipeField \/ Rekey
  PROVE  ReleaseRest'
<1> USE DEF ReleaseInv, ReleaseTypeOK, Fields, KeyFields, Phases, None, callVars
<1>1. Filling' = Filling
  BY DEF Filling, BeginWipe, WipeField, Rekey
<1>2. CASE BeginWipe \/ Rekey
  BY <1>1, <1>2 DEF BeginWipe, Rekey, ReleaseRest, OneFiller, PrefixFilled, WipedSoFar,
     ReadersServed, AnswerThere, WholeOrNothing, Emptied, Loaded
<1>3. CASE WipeField
  <2>1. ReadersServed' /\ AnswerThere'
    BY <1>3 DEF WipeField, ReadersServed, AnswerThere
  <2>2. CASE spoiled
    BY <1>1, <1>3, <2>1, <2>2 DEF WipeField, ReleaseRest, OneFiller, PrefixFilled, WipedSoFar,
       WholeOrNothing, Emptied
  <2>3. CASE ~ spoiled
    BY <1>1, <1>3, <2>1, <2>3 DEF WipeField, AfterWipe, ReleaseRest, OneFiller, PrefixFilled,
       WipedSoFar, WholeOrNothing, Emptied
  <2> QED
    BY <2>2, <2>3
<1> QED
  BY <1>2, <1>3

LEMMA ReleaseInductive == ReleaseInv /\ [ReleaseNext]_releaseVars => ReleaseInv'
<1> SUFFICES ASSUME ReleaseInv, [ReleaseNext]_releaseVars PROVE ReleaseInv'
  OBVIOUS
<1>1. CASE ReleaseNext
  <2>1. ReleaseRest'
    BY <1>1, QuietAccessKeeps, FillingKeeps, WipingKeeps DEF ReleaseNext, Access
  <2> QED
    BY <1>1, <2>1, ReleaseTyped DEF ReleaseInv, ReleaseRest
<1>2. CASE UNCHANGED releaseVars
  BY <1>2
  DEF releaseVars, callVars, ReleaseInv, ReleaseTypeOK, OneFiller, PrefixFilled, WipedSoFar,
      ReadersServed, AnswerThere, WholeOrNothing, Filling, Emptied, Loaded
<1> QED
  BY <1>1, <1>2

LEMMA ReleaseInvariance == ReleaseSpec => []ReleaseInv
<1>1. QED
  BY ReleaseInitially, ReleaseInductive, PTL DEF ReleaseSpec

(* The fields and the calls in progress keep their types.                  *)
THEOREM ReleaseTypeCorrect == ReleaseSpec => []ReleaseTypeOK
<1>1. ReleaseInv => ReleaseTypeOK
  BY DEF ReleaseInv
<1>2. QED
  BY <1>1, ReleaseInvariance, PTL

(* An accessor whose call met no fill, no wipe and no broken load returns  *)
(* a key, for any number of threads.                                       *)
THEOREM AnswerIsThere == ReleaseSpec => []AnswerThere
<1>1. ReleaseInv => AnswerThere
  BY DEF ReleaseInv
<1>2. QED
  BY <1>1, ReleaseInvariance, PTL

(* At rest the provider holds the material of one release, or no key.      *)
THEOREM ReleaseWhole == ReleaseSpec => []WholeOrNothing
<1>1. ReleaseInv => WholeOrNothing
  BY DEF ReleaseInv
<1>2. QED
  BY <1>1, ReleaseInvariance, PTL
=============================================================================
