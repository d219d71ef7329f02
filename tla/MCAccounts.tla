----------------------------- MODULE MCAccounts -----------------------------
EXTENDS Accounts

CONSTANTS c1, c2, c3, g

Clients == {c1, c2, c3}
Passwords == [c \in Clients |-> IF c = c1 THEN "p" ELSE "q"]

\* Every two methods meet.
Methods ==
    [c \in Clients |-> CASE c = c1 -> {"register", "login"}
                       [] c = c2 -> {"register", "oauth"}
                       [] c = c3 -> {"login", "oauth"}]

\* One address in two spellings, and another.
Addresses == {"a", "A", "b"}
LowerCase == [a \in Addresses |-> IF a = "A" THEN "a" ELSE a]

\* The Google account may change from the one to the other and back.
Mailboxes == [s \in {g} |-> {"a", "b"}]
=============================================================================
