--------------------------- MODULE PolicyRegister ---------------------------
(***************************************************************************)
(* What policy-engine promises its callers: a tenant always has one        *)
(* policy, at first the defaults (policy_service.go:26-37), and although   *)
(* a request is several statements it takes effect at one moment between   *)
(* the call and its answer.  A request that is answered with an error took *)
(* effect as a whole or not at all, and may be repeated.                   *)
(***************************************************************************)
CONSTANTS
    Client,
    Request,
    Default,        \* the policy of a tenant that nobody has changed
    Effect(_, _),   \* Effect(q, p): the policy that request q makes of p
    Reply(_, _),    \* Reply(q, p): what q is answered when it leaves p
    Nothing         \* no reply

VARIABLES
    value,      \* the tenant's policy
    asked,      \* asked[c]: the request of c
    status,     \* status[c]: whether it is pending, and how it ended
    told        \* told[c]: the reply to it

vars == <<value, asked, status, told>>

Init ==
    /\ value = Default
    /\ asked \in [Client -> Request]
    /\ status = [c \in Client |-> "idle"]
    /\ told = [c \in Client |-> Nothing]

Ask(c, q) ==
    /\ status[c] = "idle"
    /\ asked' = [asked EXCEPT ![c] = q]
    /\ status' = [status EXCEPT ![c] = "pending"]
    /\ UNCHANGED <<value, told>>

Answer(c) ==
    /\ status[c] = "pending"
    /\ value' = Effect(asked[c], value)
    /\ status' = [status EXCEPT ![c] = "ok"]
    /\ told' = [told EXCEPT ![c] = Reply(asked[c], value')]
    /\ UNCHANGED asked

Refuse(c) ==
    /\ status[c] = "pending"
    /\ value' \in {value, Effect(asked[c], value)}
    /\ status' = [status EXCEPT ![c] = "error"]
    /\ UNCHANGED <<asked, told>>

Repeat(c) ==
    /\ status[c] = "error"
    /\ status' = [status EXCEPT ![c] = "pending"]
    /\ UNCHANGED <<value, asked, told>>

Leave(c) ==
    /\ status[c] = "ok"
    /\ status' = [status EXCEPT ![c] = "idle"]
    /\ told' = [told EXCEPT ![c] = Nothing]
    /\ UNCHANGED <<value, asked>>

Next ==
    \E c \in Client :
        (\E q \in Request : Ask(c, q)) \/ Answer(c) \/ Refuse(c) \/ Repeat(c) \/ Leave(c)

Spec == Init /\ [][Next]_vars
=============================================================================
