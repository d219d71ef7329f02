---------------------------- MODULE MCSigningKeys ----------------------------
EXTENDS SigningKeys, TLC

CONSTANTS r1, r2, r3, r4, t1, t2

Requests == {r1, r2, r3, r4}
Tenants == {t1, t2}

\* Requests and tenants are interchangeable.
Symmetry == Permutations(Requests) \cup Permutations(Tenants)
=============================================================================
