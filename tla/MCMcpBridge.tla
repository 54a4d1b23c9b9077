---------------------------- MODULE MCMcpBridge ----------------------------
(***************************************************************************)
(* McpBridge for TLC.                                                      *)
(***************************************************************************)
EXTENDS McpBridge
============================================================================
