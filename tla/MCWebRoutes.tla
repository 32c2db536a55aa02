----------------------------- MODULE MCWebRoutes -----------------------------
EXTENDS WebRoutes

CONSTANTS h1, h2

MCBound == [commands |-> 3, faults |-> 1, crashes |-> 1, restarts |-> 1, edits |-> 1, events |-> 3]

Symmetry == Permutations(Host)
=============================================================================
