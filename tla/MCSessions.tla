----------------------------- MODULE MCSessions -----------------------------
EXTENDS Sessions, TLC

CONSTANTS p1, p2, s1, s2, f1, f2, v1, v2

Symmetry ==
    Permutations({p1, p2}) \cup Permutations({s1, s2})
        \cup Permutations({f1, f2}) \cup Permutations({v1, v2})
=============================================================================
