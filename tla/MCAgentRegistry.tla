-------------------------- MODULE MCAgentRegistry --------------------------
(* Instance of AgentRegistry for TLC.  The servers and connections are
   interchangeable, but the run checks liveness, so no symmetry is declared. *)
EXTENDS AgentRegistry, TLC
=============================================================================
