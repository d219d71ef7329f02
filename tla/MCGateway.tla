----------------------------- MODULE MCGateway -----------------------------
EXTENDS Gateway

CONSTANTS r1, r2

Requests == {r1, r2}

Ask(port, api, area, tenant, token) ==
    [port |-> port, api |-> api, options |-> FALSE, tenant |-> tenant, area |-> area,
     token |-> token]

\* Sign-up as in step 6 of the README and directly, a read and a write of the engines.
Served ==
    { Ask("gateway", TRUE, "auth", TRUE, "none"), Ask("auth", FALSE, "auth", TRUE, "none"),
      Ask("gateway", TRUE, "risk", TRUE, "full"), Ask("gateway", TRUE, "policies", TRUE, "full") }

\* The metrics as the MCP tool asks for them, and what else is refused.
Refused ==
    { Ask("auth", FALSE, "analytics", TRUE, "none"), Ask("auth", FALSE, "auth", FALSE, "none"),
      Ask("gateway", FALSE, "auth", TRUE, "none"), Ask("gateway", TRUE, "policies", FALSE, "full"),
      Ask("gateway", TRUE, "policies", TRUE, "none"), Ask("gateway", FALSE, "health", FALSE, "none"),
      [Ask("gateway", TRUE, "risk", FALSE, "none") EXCEPT !.options = TRUE] }

Samples == [r \in Requests |-> IF r = r1 THEN Served \cup Refused ELSE Served]

\* Every endpoint of api-design.md, asked for with a tenant and a token.
Documented ==
    [r \in Requests |-> {Ask("gateway", TRUE, area, TRUE, "full") :
        area \in {"auth", "users", "analytics", "risk", "simulate", "policies"}}]
=============================================================================
