----------------------------- MODULE ChunkStream -----------------------------
(***************************************************************************)
(* Streaming decryption (_api.py, _envelope.py).  The sender turns every   *)
(* yield into one self-delimiting envelope; the network delivers their     *)
(* concatenation in fragments of any size, damages some envelopes and may  *)
(* stop anywhere; Decryptor.iter_chunks() reads a header, learns the body  *)
(* length from it, reads the body and yields the chunk, pulling fragments  *)
(* through _StreamReader only when its buffer is too short.                *)
(*                                                                         *)
(* A byte is its position in the stream: the reader's buffer is the        *)
(* positions taken+1 .. arrived.  Damage to a header is damage its magic   *)
(* or version shows.                                                       *)
(***************************************************************************)
EXTENDS Integers

CONSTANTS
  Envelopes,               \* bound: envelopes the sender may send
  Header,                  \* HEADER_SIZE, 14 in the code
  MaxBody,                 \* bound: longest body
  MaxFragment              \* bound: longest fragment

ASSUME StreamAssumption ==
  /\ Envelopes \in Nat /\ Header \in Nat \ {0}
  /\ MaxBody \in Nat \ {0} /\ MaxFragment \in Nat \ {0}

Ids == 1..Envelopes

VARIABLES
  ends,                    \* where each envelope ends (0 ends nowhere, at 0)
  damage,                  \* what the network did to each envelope
  cut,                     \* how many bytes arrive before the stream ends
  arrived, ended,          \* _StreamReader: bytes pulled, source exhausted
  taken,                   \* bytes that read() returned
  phase,                   \* what iter_chunks() reads, or how it ended
  yielded                  \* chunks yielded

sourceVars == <<ends, damage, cut>>
readerVars == <<arrived, ended>>
vars == <<sourceVars, readerVars, taken, phase, yielded>>

Damages == {"none", "header", "body"}
Reading == {"header", "body"}

(* Where envelope i of the stream ends and the next one begins: pack()     *)
(* puts a header before every body.                                        *)
EndOf(i) == ends[i]
Laid == \A i \in Ids : EndOf(i) - EndOf(i - 1) \in Header + 1 .. Header + MaxBody
Whole(i) == EndOf(i) <= cut
Intact(i) == \A j \in 1..i : damage[j] = "none"

Init ==
  /\ ends \in [0..Envelopes -> 0 .. Envelopes * (Header + MaxBody)]
  /\ EndOf(0) = 0 /\ Laid
  /\ damage \in [Ids -> Damages]
  /\ cut \in 0..EndOf(Envelopes)
  /\ arrived = 0 /\ ended = FALSE
  /\ taken = 0 /\ phase = "header" /\ yielded = 0

-----------------------------------------------------------------------------
(* Mutants: read() awaits a byte too many; an end inside a header passes   *)
(* for the end, an empty read for a pause; the body is measured short.     *)
Short_OrEqual(n) == arrived - taken <= n
EndPhase_Quiet(n) == "returned"
EndPhase_GoOn(n) == IF n = 0 THEN "header" ELSE "raised"
BodyLength_Less(i) == EndOf(i) - EndOf(i - 1) - Header - 1

(* read(n): the buffer is too short.                                       *)
Short(n) == arrived - taken < n

(* What read(n) returns, in bytes.                                         *)
Buffered(n) == IF Short(n) THEN arrived - taken ELSE n

(* iter_chunks() returns on an empty header, raises on an incomplete one.  *)
EndPhase(n) == IF n = 0 THEN "returned" ELSE "raised"

(* unpack_header(): the body length the header states.                     *)
BodyLength(i) == EndOf(i) - EndOf(i - 1) - Header

Upcoming == yielded + 1         \* the envelope being read

Wanted == IF phase = "header" THEN Header ELSE BodyLength(Upcoming)

(* _next(): the next fragment of the source.                               *)
PullFragment ==
  /\ phase \in Reading /\ Short(Wanted) /\ ~ ended
  /\ \E n \in 1..MaxFragment : arrived + n <= cut /\ arrived' = arrived + n
  /\ UNCHANGED <<sourceVars, ended, taken, phase, yielded>>

SourceEnds ==
  /\ phase \in Reading /\ Short(Wanted) /\ ~ ended
  /\ arrived = cut
  /\ ended' = TRUE
  /\ UNCHANGED <<sourceVars, arrived, taken, phase, yielded>>

(* read(HEADER_SIZE) returns; unpack_header() checks magic and version.    *)
ReadHeader ==
  /\ phase = "header" /\ (ended \/ ~ Short(Header))
  /\ taken' = taken + Buffered(Header)
  /\ phase' = IF Buffered(Header) < Header THEN EndPhase(Buffered(Header))
              ELSE IF damage[Upcoming] = "header" THEN "raised"
              ELSE "body"
  /\ UNCHANGED <<sourceVars, readerVars, yielded>>

(* read(body_len) returns, and decrypt_chunk() opens the envelope or       *)
(* raises: DecryptError, or what decapsulate() raises of a damaged key.    *)
ReadBody ==
  /\ phase = "body" /\ (ended \/ ~ Short(Wanted))
  /\ taken' = taken + Buffered(Wanted)
  /\ IF Buffered(Wanted) = Wanted /\ damage[Upcoming] = "none"
     THEN phase' = "header" /\ yielded' = yielded + 1
     ELSE phase' = "raised" /\ UNCHANGED yielded
  /\ UNCHANGED <<sourceVars, readerVars>>

Next == PullFragment \/ SourceEnds \/ ReadHeader \/ ReadBody

Spec == Init /\ [][Next]_vars

(* The consumer keeps asking, and the source answers or ends.              *)
FairSpec == Spec /\ WF_vars(Next)

-----------------------------------------------------------------------------
(* What was yielded is the chunks of the stream's intact beginning, each   *)
(* read from its own bytes, however the fragments fell.                    *)
YieldedInPlace ==
  /\ yielded <= Envelopes /\ Whole(yielded) /\ Intact(yielded)
  /\ phase \in Reading =>
       taken = EndOf(yielded) + (IF phase = "header" THEN 0 ELSE Header)

(* The iteration is that of the stream's intact beginning: chunks one by   *)
(* one, as far as envelopes arrived whole and undamaged, a quiet end only  *)
(* where the stream ends between envelopes, otherwise an error.            *)
Verdict == CASE phase = "returned" -> "end" [] phase = "raised" -> "error"
             [] OTHER -> "open"

Prefix == INSTANCE IntactPrefix
            WITH good <- {i \in Ids : Whole(i) /\ Intact(i)},
                 stops <- {i \in 0..Envelopes : EndOf(i) = cut},
                 count <- yielded, verdict <- Verdict

DeliversPrefix == Prefix!Spec

(* A chunk is not held back: no fragment is awaited while the envelope to  *)
(* be read next has arrived (a live stream's next fragment may be far off).*)
NotHeldBack ==
  [][arrived' # arrived => yielded = Envelopes \/ arrived < EndOf(yielded + 1)]_vars

(* The iteration of a stream that ends comes to an end.                    *)
Terminates == <>(phase \notin Reading)
=============================================================================
