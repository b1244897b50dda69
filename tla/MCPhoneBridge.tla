---------------------------- MODULE MCPhoneBridge ----------------------------
(* Constants of PhoneBridge for TLC.                                       *)
EXTENDS PhoneBridge, TLC

CONSTANTS c1, c2, i1, i2, b1

MCDelta == [type |-> "message_update", preview |-> None]
MCDeltas == {MCDelta}
MCSymmetry == Permutations({c1, c2}) \cup Permutations({i1, i2})
=============================================================================
