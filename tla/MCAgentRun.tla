----------------------------- MODULE MCAgentRun ----------------------------
(* Instances of AgentRun for TLC.                                          *)
EXTENDS AgentRun, TLC
=============================================================================
