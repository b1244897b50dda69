--------------------------- MODULE MCControlClients ---------------------------
(* Constants of ControlClients for TLC.                                    *)
EXTENDS ControlClients, TLC

CONSTANTS c1, i1, p1, text

MCStart == [type |-> "agent_start", preview |-> None]
MCSettled == [type |-> "agent_settled", preview |-> None]
MCMessage == [type |-> "message_end", preview |-> text]

MCStatusEvents == {MCStart, MCSettled, MCMessage}
MCStarts == {MCStart}
=============================================================================
