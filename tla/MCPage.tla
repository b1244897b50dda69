-------------------------------- MODULE MCPage --------------------------------
(* Page for TLC: its constants are numbers and model values.               *)
EXTENDS Page, TLC
=============================================================================
