---------------------------- MODULE IntactPrefix ----------------------------
(***************************************************************************)
(* What the reader of a stream of authenticated envelopes promises: it     *)
(* hands out the chunks in their order for as long as the next envelope is *)
(* good, and then says truly whether the stream ended there or broke off.  *)
(***************************************************************************)
EXTENDS Naturals

VARIABLES
  good,                    \* positions up to which all envelopes are good
  stops,                   \* positions after which nothing more arrives
  count,                   \* chunks handed out
  verdict                  \* "open", or how the reading ended

streamVars == <<good, stops>>
vars == <<streamVars, count, verdict>>

Init == count = 0 /\ verdict = "open"

HandOut ==
  /\ verdict = "open" /\ count + 1 \in good
  /\ count' = count + 1
  /\ UNCHANGED <<streamVars, verdict>>

Close ==
  /\ verdict = "open" /\ count + 1 \notin good
  /\ verdict' = IF count \in stops THEN "end" ELSE "error"
  /\ UNCHANGED <<streamVars, count>>

Next == HandOut \/ Close

Spec == Init /\ [][Next]_vars
=============================================================================
