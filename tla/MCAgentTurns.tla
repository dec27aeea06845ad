---------------------------- MODULE MCAgentTurns ----------------------------
(* Small instances of AgentTurns for TLC. *)
EXTENDS AgentTurns, TLC
=============================================================================
