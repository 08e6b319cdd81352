--------------------------- MODULE MCSpokeRequests ---------------------------
(* SpokeRequests for TLC: its threads are interchangeable.                 *)
EXTENDS SpokeRequests, TLC

HandlerSymmetry == Permutations(Handlers)
=============================================================================
