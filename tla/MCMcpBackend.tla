---------------------------- MODULE MCMcpBackend ----------------------------
(***************************************************************************)
(* McpBackend for TLC: two relays, one of which may abandon a dial.        *)
(***************************************************************************)
EXTENDS McpBackend

CONSTANTS r1, r2
=============================================================================
