---------------------------- MODULE MCMcpBridge ----------------------------
(* Instances of McpBridge for TLC: one primary and one secondary that share*)
(* a tool.                                                                 *)
EXTENDS McpBridge, TLC

CONSTANTS wdg, s1, own, shared

ServesOne == (wdg :> {own, shared}) @@ (s1 :> {shared})
=============================================================================
