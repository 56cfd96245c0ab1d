---------------------------- MODULE MCAgentSession ----------------------------
(* Instances of AgentSession for TLC. *)
EXTENDS AgentSession

AllButTheSecond == Out \ {2}
=============================================================================
