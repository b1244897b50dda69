---------------------------- MODULE MCAgentClient ----------------------------
(* AgentClient for TLC: its constants are numbers and model values.        *)
EXTENDS AgentClient, TLC
=============================================================================
