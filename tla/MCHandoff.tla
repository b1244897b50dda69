------------------------------- MODULE MCHandoff -------------------------------
(* Constants of Handoff for TLC.                                           *)
EXTENDS Handoff, TLC

CONSTANTS p1, p2, f1, f2, f3

MCSymmetry == Permutations({p1, p2}) \cup Permutations({f1, f2, f3})
=============================================================================
