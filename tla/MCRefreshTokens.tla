--------------------------- MODULE MCRefreshTokens ---------------------------
EXTENDS RefreshTokens, TLC

CONSTANTS r1, r2, r3, r4, r5

Req3 == {r1, r2, r3}
Req4 == {r1, r2, r3, r4}
Req5 == {r1, r2, r3, r4, r5}

\* Requests are interchangeable: safety runs only.
Symmetry4 == Permutations(Req4)
Symmetry5 == Permutations(Req5)
=============================================================================
