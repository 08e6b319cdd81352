------------------------------ MODULE WallClock ------------------------------
(***************************************************************************)
(* The wall clock of one host.  Every freshness and expiry decision of     *)
(* secretskit reads it with time.time() or datetime.now(UTC), so it moves  *)
(* forward on its own and may be stepped back (NTP, a resumed VM).         *)
(*                                                                         *)
(*   clock    what a read returns now                                      *)
(*   peak     the largest value a read could have returned so far          *)
(*   Back     how far behind peak a step may put the clock                 *)
(*   Horizon  where the modelled run ends (a bound, not a promise)         *)
(***************************************************************************)
EXTENDS Integers

CONSTANTS Horizon, Back

ASSUME ClockAssumption == Horizon \in Nat /\ Back \in Nat

VARIABLES clock, peak

clockVars == <<clock, peak>>

ClockInit == clock = 0 /\ peak = 0

(* One second passes, at most up to `limit`, the earliest deadline.        *)
Advance(limit) ==
  /\ clock < Horizon
  /\ clock < limit
  /\ clock' = clock + 1
  /\ peak' = IF clock' > peak THEN clock' ELSE peak

StepBack ==
  /\ \E t \in (peak - Back) .. (clock - 1) : clock' = t
  /\ UNCHANGED peak

ClockOK ==
  /\ clock \in Int /\ peak \in Int
  /\ peak - Back <= clock /\ clock <= peak /\ peak <= Horizon
=============================================================================
