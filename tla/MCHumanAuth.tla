----------------------------- MODULE MCHumanAuth -----------------------------
(* HumanAuth for TLC: its two servers are interchangeable.                 *)
EXTENDS HumanAuth, TLC

LegSymmetry == Permutations(Legs)
=============================================================================
