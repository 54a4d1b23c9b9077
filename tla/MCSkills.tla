------------------------------ MODULE MCSkills ------------------------------
(* Bounded instances of Skills for TLC. *)
EXTENDS Skills, TLC

CONSTANTS s, t, a, b, claude, agents, p, q

World(n, e, overlapping, mishaps) ==
  [commands |-> n, edits |-> e, overlapping |-> overlapping, mishaps |-> mishaps]

\* Commands one by one, of which names may be exchanged in between, or some may fail; or side
\* by side, three as they are or two that may fail.  Side by side a kill is also a command
\* that takes no further step.
MCScenarios ==
  {World(3, 2, FALSE, FALSE), World(3, 1, FALSE, TRUE),
   World(3, 0, TRUE, FALSE), World(2, 1, TRUE, TRUE)}

MCSymmetry ==
  Permutations(Skill) \cup Permutations(Bundles) \cup Permutations(Roots)
    \cup Permutations(Processes)
=============================================================================
