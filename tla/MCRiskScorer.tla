--------------------------- MODULE MCRiskScorer ----------------------------
EXTENDS RiskScorer

CONSTANTS c1, simulation, user, other, home, away, near, far, here, there, print

Evaluations == {c1}
Users == {user}
Addresses == {home, away}
Countries == {near, far}
Places == {here, there}
Prints == {print}

\* Six hours from one place to the other.
FlightHours == [p \in Places |-> [q \in Places |-> IF p = q THEN 0 ELSE 6]]

Times == 0..MaxTime

Login(u, a, ok, k, p) ==
    [user : {u}, ip : {a}, ok : {ok}, country : {k}, place : {p}, at : Times]
History(u, a, k, p) == [user : {u}, ip : {a}, country : {k}, place : {p}, at : Times]

LoginRows ==
    Login(user, home, TRUE, near, here) \cup Login(user, away, FALSE, None, None)
        \cup Login(other, away, FALSE, far, there)
HistoryRows == History(user, home, near, here) \cup History(other, away, far, there)
DeviceRows == {<<user, print>>}

\* What the engine is written for, with and without time zones, and what
\* infra/migrations creates.
Databases ==
    {[missing |-> {}, aware |-> FALSE], [missing |-> {}, aware |-> TRUE],
     [missing |-> Query \ {"seen"}, aware |-> TRUE]}
=============================================================================
