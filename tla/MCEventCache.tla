--------------------------- MODULE MCEventCache ---------------------------
EXTENDS EventCache, TLC

CONSTANTS p1, p2, w, b, e1, e2

Symmetry ==
    Permutations({p1, p2}) \cup Permutations({w, b}) \cup Permutations({e1, e2})
=============================================================================
