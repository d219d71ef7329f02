--------------------------- MODULE MCRateLimiter ---------------------------
EXTENDS RateLimiter, TLC

CONSTANTS r1, r2, r3, a1, a2, a3, t1

Requests == {r1, r2, r3}
Addresses == {a1, a2, a3}
Tenants == {t1}

\* Requests are interchangeable, and so are addresses.
Symmetry == Permutations(Requests) \cup Permutations(Addresses)
=============================================================================
