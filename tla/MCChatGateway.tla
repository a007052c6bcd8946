--------------------------- MODULE MCChatGateway ---------------------------
(* Messages, isolates and cron passes for the model checker. *)
EXTENDS ChatGateway
CONSTANTS ask, flow, i1, p1
=============================================================================
