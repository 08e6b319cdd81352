----------------------------- MODULE Membership -----------------------------
(***************************************************************************)
(* Who is enrolled on the key hub, a service outside the repository: an    *)
(* entity is one enrollment of a spoke, with the key pairs that go with    *)
(* it.  An admin approves it and may remove it; a spoke that enrolls again *)
(* is a new entity.  The hub stamps what it signs with its own clock,      *)
(* which runs at most Lead ahead of, or Lag behind, the readers' clock.    *)
(***************************************************************************)
EXTENDS WallClock

CONSTANTS Entities, Lead, Lag

ASSUME MembershipAssumption == Lead \in Nat /\ Lag \in Nat

VARIABLES
  enlisted,                \* entities approved now
  known,                   \* history: entities ever approved
  endedAt                  \* history: when a removed entity was removed

memberVars == <<enlisted, known, endedAt>>

MemberInit == enlisted = {} /\ known = {} /\ endedAt = [i \in {} |-> 0]

Smaller(a, b) == IF a < b THEN a ELSE b

(* What the hub's clock may show.                                          *)
HubClock == (clock - Lag) .. (clock + Lead)

Ended(f, at) == [i \in DOMAIN at \cup {f} |-> IF i = f THEN clock ELSE at[i]]

Enlist(i) ==
  /\ i \in Entities \ known
  /\ enlisted' = enlisted \cup {i}
  /\ known' = known \cup {i}
  /\ UNCHANGED <<clockVars, endedAt>>

Remove(i) ==
  /\ i \in enlisted
  /\ enlisted' = enlisted \ {i}
  /\ endedAt' = Ended(i, endedAt)
  /\ UNCHANGED <<clockVars, known>>

MemberStep == \E i \in Entities : Enlist(i) \/ Remove(i)

MemberOK ==
  /\ enlisted \subseteq known /\ known \subseteq Entities
  /\ DOMAIN endedAt = known \ enlisted
  /\ \A i \in DOMAIN endedAt : endedAt[i] \in Int
=============================================================================
