----------------------------- MODULE TokenFamily -----------------------------
(***************************************************************************)
(* What rotating refresh tokens promises about one login, after            *)
(* docs/architecture.md:156-171: a login opens a family with one current   *)
(* token; a refresh invalidates the current token and issues a new one;    *)
(* revocation, by the user or after a replay, ends the family for good.    *)
(* A refresh that fails half way leaves the family without a token.        *)
(*                                                                         *)
(* The document says nothing of a client that presents tokens of one login *)
(* in two requests at the same time.  Such a family is contended, and from *)
(* then on nothing is promised of it here but that its tokens are its own. *)
(***************************************************************************)
CONSTANTS
    Name,       \* tokens and families; a family is named by its first token
    NoToken

VARIABLES
    issued,     \* tokens that have ever been current
    status,     \* status[f]: absent, live, spent, revoked or contended
    current     \* current[f]: the only token of f that may be exchanged

vars == <<issued, status, current>>

Init ==
    /\ issued = {}
    /\ status = [f \in Name |-> "absent"]
    /\ current = [f \in Name |-> NoToken]

Open(f) ==
    /\ status[f] = "absent" /\ f \notin issued
    /\ issued' = issued \cup {f}
    /\ status' = [status EXCEPT ![f] = "live"]
    /\ current' = [current EXCEPT ![f] = f]

Spend(f) ==
    /\ status[f] = "live"
    /\ UNCHANGED issued
    /\ current' = [current EXCEPT ![f] = NoToken]
    /\ status' = [status EXCEPT ![f] = "spent"]

Renew(f) ==
    /\ status[f] = "spent"
    /\ \E t \in Name \ issued :
        /\ issued' = issued \cup {t}
        /\ status' = [status EXCEPT ![f] = "live"]
        /\ current' = [current EXCEPT ![f] = t]

Close(f) ==
    /\ status[f] \in {"live", "spent"}
    /\ UNCHANGED issued
    /\ current' = [current EXCEPT ![f] = NoToken]
    /\ status' = [status EXCEPT ![f] = "revoked"]

\* Two requests of the family overlap, one of them a refresh.
Contend(f) ==
    /\ status[f] \in {"live", "spent", "revoked"}
    /\ UNCHANGED issued
    /\ current' = [current EXCEPT ![f] = NoToken]
    /\ status' = [status EXCEPT ![f] = "contended"]

\* A token of a contended family, which may be one of several.
Branch(f) ==
    /\ status[f] = "contended"
    /\ \E t \in Name \ issued : issued' = issued \cup {t}
    /\ UNCHANGED <<status, current>>

Next ==
    \E f \in Name :
        Open(f) \/ Spend(f) \/ Renew(f) \/ Close(f) \/ Contend(f) \/ Branch(f)

Spec == Init /\ [][Next]_vars
=============================================================================
