--------------------------- MODULE MCChatTranscript ---------------------------
(* ChatTranscript for TLC: its constants are numbers and model values.     *)
EXTENDS ChatTranscript, TLC
=============================================================================
