---------------------------- MODULE MCDemoGuard ----------------------------
EXTENDS DemoGuard

LOCAL TLC == INSTANCE TLC

CONSTANTS w1, w2, w3, a1

\* Three writes in a window, two of one workspace; one external request.
MCGlobalLimit == [k \in Kinds |-> IF k = "write" THEN 3 ELSE 1]
MCShareLimit == [k \in Kinds |-> IF k = "write" THEN 2 ELSE 1]

MCSymmetry == TLC!Permutations(Workspaces)
=============================================================================
