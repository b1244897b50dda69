------------------------------ MODULE MCHeadless ------------------------------
(* Constants of HeadlessProcess for TLC.                                   *)
EXTENDS HeadlessProcess, TLC

CONSTANTS s1, s2

=============================================================================
