---------------------------- MODULE MCMcpRegistry ---------------------------
EXTENDS McpRegistry, TLC

CONSTANTS A, B, claude, gemini, github, search

Publishes(N) == [agents |-> IF N = {} THEN {} ELSE Clients, names |-> N]

\* No configuration, one for both agents, or one for Gemini alone.
MCPolicies ==
  {Publishes(N) : N \in SUBSET Names} \cup {[agents |-> {gemini}, names |-> Names]}
Unpublished == {Publishes({})}

WorkspaceSymmetry == Permutations(Workspaces)
=============================================================================
