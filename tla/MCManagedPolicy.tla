--------------------------- MODULE MCManagedPolicy --------------------------
EXTENDS ManagedPolicy, TLC

CONSTANTS alice, bob, A, B, c, d

MCSymmetry == Permutations(Users) \cup Permutations(Workspaces)
                \cup Permutations(Configs)
=============================================================================
