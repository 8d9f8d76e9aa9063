--------------------------- MODULE MCAgentMailbox ---------------------------
(* AgentMailbox on a few messages and one background process. *)
EXTENDS AgentMailbox

=============================================================================
