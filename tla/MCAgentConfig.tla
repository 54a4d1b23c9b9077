--------------------------- MODULE MCAgentConfig ----------------------------
(* Bounded instances of AgentConfig for TLC. *)
EXTENDS AgentConfig, TLC

CONSTANTS p1, p2, w1, w2, claude, codex, gemini, own, admin

\* No policy, one that names every agent and a source, and one that names only the guarded agents.
MCPolicies == {NoPolicy, [enabled |-> Tools, source |-> admin],
               [enabled |-> Guarded, source |-> None]}

\* Three commands one after another, or two of which one may be killed, or two side by side in one
\* workspace: there a kill is no more than a command that takes no further step.
MCScenarios == {[commands |-> 3, kills |-> 0, overlapping |-> FALSE, within |-> Workspaces],
                [commands |-> 2, kills |-> 1, overlapping |-> FALSE, within |-> Workspaces],
                [commands |-> 2, kills |-> 0, overlapping |-> TRUE, within |-> {w1}]}

ProcessSymmetry == Permutations(Processes)

MCSerial == {[commands |-> 2, kills |-> 0, overlapping |-> FALSE, within |-> Workspaces]}

=============================================================================
