--------------------------- MODULE MCModelSwitch ---------------------------
EXTENDS ModelSwitch

CONSTANTS w1, w2

User(n, i) == [prompts |-> n, interferes |-> i]

\* Either there is one wrapper, whose user types a second prompt and interferes,
\* or two route a prompt each.
MCUsers == {[w \in Wrappers |-> IF w = w1 THEN User(2, TRUE) ELSE User(0, FALSE)],
            [w \in Wrappers |-> User(1, FALSE)]}
=============================================================================
