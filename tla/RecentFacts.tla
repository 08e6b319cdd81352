----------------------------- MODULE RecentFacts -----------------------------
(***************************************************************************)
(* What a reader of dated documents promises: a fact it takes over (a peer *)
(* is listed, a manifest is the newest, an enrollment is approved) was     *)
(* true, and ended no more than Bound before the reader took it.  A fact   *)
(* taken stays held, with the reading at which it was taken, until dropped *)
(* or taken anew.                                                          *)
(*                                                                         *)
(* The facts themselves come and go as they please: clock, known and       *)
(* endedAt are the reader's environment.                                   *)
(***************************************************************************)
EXTENDS Integers

CONSTANT Bound

VARIABLES
  clock,                   \* the reader's clock
  known,                   \* facts that have been true
  endedAt,                 \* when a fact ended, a partial function
  held                     \* facts held, with the time of taking

Recent(f) ==
  f \in known /\ (f \in DOMAIN endedAt => clock <= endedAt[f] + Bound)

Init == held = [f \in {} |-> 0]

Kept(f) == f \in DOMAIN held /\ held'[f] = held[f]

Taken(f) == held'[f] = clock /\ Recent(f)

Next == \A f \in DOMAIN held' : Kept(f) \/ Taken(f)

Spec == Init /\ [][Next]_held
=============================================================================
