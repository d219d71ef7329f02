--------------------------- MODULE MCPolicyEngine ---------------------------
EXTENDS PolicyEngine, TLC

CONSTANTS c1, c2

Clients == {c1, c2}

\* The bounds are small, so that passwords and scores lie on both sides of them.
Defaults ==
    [f \in Field |-> CASE f = "minLength" -> 2 [] f = "threshold" -> 1 [] OTHER -> 0]

\* One update is strict about passwords, one about logins, one takes back a part of
\* the first, and one names no column.
Updates ==
    {"minLength" :> 3 @@ "upper" :> 1 @@ EmptyPatch,
     "mfa" :> 1 @@ "threshold" :> 2 @@ EmptyPatch,
     "upper" :> 0 @@ EmptyPatch,
     EmptyPatch}

\* Ascii of the minimum length, and two characters in three bytes.
PasswordsAsked ==
    {[bytes |-> 2, chars |-> 2, has |-> {"upper"}],
     [bytes |-> 3, chars |-> 2, has |-> {}]}

ScoresAsked == {0, 1}
=============================================================================
