---------------------------- MODULE OneIdentity ----------------------------
(***************************************************************************)
(* What enrollment promises about a spoke's key pair: the spoke settles on *)
(* one pair for the life of its key directory, nobody outside ever knows   *)
(* it by another, and it runs with an identity that was released to it.    *)
(***************************************************************************)

CONSTANT None

VARIABLES
  own,                     \* the pair the spoke settled on, or None
  known,                   \* pairs the hub or the network may have
  running                  \* the spoke holds a released identity

vars == <<own, known, running>>

Init == own = None /\ known = {} /\ running = FALSE

Settle ==
  /\ own = None /\ known = {}
  /\ own' # None
  /\ UNCHANGED <<known, running>>

(* Submissions, approvals, releases, expiries: all are of the one pair.    *)
Tell ==
  /\ own # None
  /\ known' \subseteq {own}
  /\ UNCHANGED <<own, running>>

ComeUp ==
  /\ own \in known
  /\ running' = TRUE
  /\ known' \subseteq known
  /\ UNCHANGED own

GoDown ==
  /\ running' = FALSE
  /\ known' \subseteq known \cup ({own} \ {None})
  /\ UNCHANGED own

Next == Settle \/ Tell \/ ComeUp \/ GoDown

Spec == Init /\ [][Next]_vars
=============================================================================
