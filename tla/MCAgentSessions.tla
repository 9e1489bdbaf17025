-------------------------- MODULE MCAgentSessions --------------------------
(* Instance of AgentSessions for TLC. *)
EXTENDS AgentSessions
=============================================================================
