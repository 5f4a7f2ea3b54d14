------------------------- MODULE MCAgentOperation -------------------------
(* Instances of AgentOperation for TLC. *)
EXTENDS AgentOperation
=============================================================================
