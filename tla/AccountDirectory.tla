-------------------------- MODULE AccountDirectory --------------------------
(***************************************************************************)
(* What auth-service promises about the accounts of a tenant, whatever     *)
(* requests meet and fail half way (auth_service.go:76-192): an account is *)
(* opened once and stays; its password is set once and a Google account is *)
(* connected once, and neither is ever replaced; a caller is let in to an  *)
(* account only with the password of that account or from a Google account *)
(* that is connected to it.                                                *)
(***************************************************************************)
CONSTANTS
    Client,
    Name,       \* names of accounts
    Secret,     \* passwords
    Sub,        \* Google accounts
    Nothing

VARIABLES
    accounts,   \* the accounts that are open
    password,   \* password[u]: the password of account u
    owner,      \* owner[g]: the account that Google account g is connected to
    admitted    \* admitted[c]: the account c was let in to, and with what

vars == <<accounts, password, owner, admitted>>

Init ==
    /\ accounts = {}
    /\ password = [u \in Name |-> Nothing]
    /\ owner = [g \in Sub |-> Nothing]
    /\ admitted = [c \in Client |-> Nothing]

Open(u) ==
    /\ u \notin accounts
    /\ accounts' = accounts \cup {u}
    /\ UNCHANGED <<password, owner, admitted>>

SetPassword(u, p) ==
    /\ u \in accounts /\ password[u] = Nothing
    /\ password' = [password EXCEPT ![u] = p]
    /\ UNCHANGED <<accounts, owner, admitted>>

Connect(g, u) ==
    /\ u \in accounts /\ owner[g] = Nothing
    /\ owner' = [owner EXCEPT ![g] = u]
    /\ UNCHANGED <<accounts, password, admitted>>

\* What opens account u.
Keys(u) == {p \in Secret : password[u] = p} \cup {g \in Sub : owner[g] = u}

Admit(c, u, k) ==
    /\ u \in accounts /\ k \in Keys(u)
    /\ admitted[c] = Nothing
    /\ admitted' = [admitted EXCEPT ![c] = [account |-> u, key |-> k]]
    /\ UNCHANGED <<accounts, password, owner>>

Next ==
    \E u \in Name :
        \/ Open(u)
        \/ \E p \in Secret : SetPassword(u, p)
        \/ \E g \in Sub : Connect(g, u)
        \/ \E c \in Client, k \in Secret \cup Sub : Admit(c, u, k)

Spec == Init /\ [][Next]_vars
=============================================================================
