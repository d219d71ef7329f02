--------------------------- MODULE MCLoginEvents ---------------------------
EXTENDS LoginEvents, TLC

CONSTANTS l1, l2, l3, a1, m1

Ops == {l1, l2, l3, a1, m1}
ToolOps == {a1, m1}
Tenants == {"t1", "t2"}

Does(kind, tenant, user, address) ==
    [kind |-> kind, tenant |-> tenant, user |-> user, address |-> address]

\* A success of a user, a failure of nobody and one of a user of another tenant; a
\* tool call and a reading of the metrics or the addresses at the first.
Calls ==
    l1 :> Does("login_success", "t1", "u1", "none") @@
    l2 :> Does("login_failure", "t1", "none", "x1") @@
    l3 :> Does("login_failure", "t2", "u2", "x2") @@
    a1 :> Does("agent_action", "t1", "none", "none") @@
    m1 :> Does("reading", "t1", "none", "none")
=============================================================================
