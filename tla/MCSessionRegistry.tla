-------------------------- MODULE MCSessionRegistry --------------------------
(* Constants of SessionRegistry for TLC.                                   *)
EXTENDS SessionRegistry, TLC

CONSTANTS c1, c2, i1
=============================================================================
