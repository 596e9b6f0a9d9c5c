--------------------------- MODULE MCAccessTokens ---------------------------
EXTENDS AccessTokens, TLC

CONSTANTS p1, p2, c1, c2, v1, v2, x1

Symmetry == Permutations({p1, p2}) \cup Permutations({c1, c2})
    \cup Permutations({v1, v2})
=============================================================================
