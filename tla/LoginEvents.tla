---------------------------- MODULE LoginEvents ----------------------------
(***************************************************************************)
(* The table login_events and its users: auth-service's logLoginEvent,     *)
(* GetLoginMetrics and GetSuspiciousIPs (event_repo.go) and the tool calls *)
(* of the MCP server (index.ts, audit.ts), which leave their audit rows in *)
(* the same table.  A row is named by the operation that wrote it.         *)
(***************************************************************************)
EXTENDS Naturals, FiniteSets

CONSTANTS
    Op,         \* operations
    call,       \* call[o]: what operation o is
    Tenant,     \* tenants that have a row
    NoUser, NoAddress,
    Window,     \* the period that is asked for
    Limit,      \* how many addresses are asked for
    MaxTime,    \* bound on the clock
    MaxFaults   \* bound on failed statements and ends of the MCP server

Operation ==
    [kind : {"login_success", "login_failure", "agent_action", "reading"},
     tenant : STRING, user : STRING, address : STRING]

ASSUME EventConstants ==
    /\ IsFiniteSet(Op) /\ \A o \in Op : call[o] \in Operation
    /\ Window \in Nat \ {0} /\ Limit \in Nat \ {0}
    /\ MaxTime \in Nat /\ MaxFaults \in Nat

VARIABLES
    pc,         \* pc[o]: the next step of operation o
    rows,       \* operations that have a row in login_events
    at,         \* at[o]: created_at of the row of o
    clock,
    figures,    \* figures[o]: the numbers o has read
    before,     \* before[o]: the rows when o began to read
    since,      \* since[o]: the time at which o began to read
    faults

vars == <<pc, rows, at, clock, figures, before, since, faults>>
reading == <<figures, before, since>>

Figure == {"total", "success", "failure", "users", "reasons", "addresses"}

Init ==
    /\ pc = [o \in Op |-> "idle"]
    /\ rows = {}
    /\ at = [o \in Op |-> 0]
    /\ clock = 0
    /\ figures = [o \in Op |-> [f \in Figure |-> 0]]
    /\ before = [o \in Op |-> {}]
    /\ since = [o \in Op |-> 0]
    /\ faults = 0

Goto(o, l) == pc' = [pc EXCEPT ![o] = l]
Fault == faults < MaxFaults /\ faults' = faults + 1

-----------------------------------------------------------------------------
(* Writers. *)

IsLogin(o) == call[o].kind \in {"login_success", "login_failure"}
ToolCalls == {o \in Op : call[o].kind = "agent_action"}

\* Login and OAuthGoogle date the event before they insert it.  One whose content the
\* table refuses (Accounts) is as if it had not happened, for the readers.
LogEvent(o) ==
    /\ IsLogin(o) /\ pc[o] = "idle"
    /\ at' = [at EXCEPT ![o] = clock]
    /\ Goto(o, "insert")
    /\ UNCHANGED <<rows, clock, reading, faults>>

\* The table takes the row: its tenant is there and its metadata is JSON.
Storable(o) == call[o].tenant \in Tenant /\ pc[o] # "unfit"

\* The rows of the table after an INSERT for o; a statement that failed may have been
\* executed.
Inserted(o) ==
    LET new == {k \in {o} : Storable(k)} IN
    \/ rows' = rows \cup new /\ UNCHANGED faults
    \/ rows' \in {rows, rows \cup new} /\ Fault

\* The INSERT; its error is dropped.
CreateLoginEvent(o) ==
    /\ pc[o] = "insert"
    /\ Inserted(o)
    /\ Goto(o, "done")
    /\ UNCHANGED <<at, clock, reading>>

\* The MCP server verifies the key and the scope of the agent; an error of the query
\* is taken for an invalid key.
VerifyAgent(o) ==
    /\ o \in ToolCalls /\ pc[o] = "idle"
    /\ \/ Goto(o, "execute") /\ UNCHANGED faults
       \/ Goto(o, "refused") /\ UNCHANGED faults
       \/ Goto(o, "refused") /\ Fault
    /\ UNCHANGED <<rows, at, clock, reading>>

\* Mutant: only calls whose tool did not fail are recorded.
ExecuteAndForget(o) ==
    /\ pc[o] = "execute"
    /\ Goto(o, "audit") \/ Goto(o, "done")
    /\ UNCHANGED <<rows, at, clock, reading, faults>>

\* The tool returns or throws.  Either way the audit row is sent off, nobody waits for
\* it, and the call is answered.  The row may be one that the table refuses: it has the
\* tenant_id of the call, whatever that is, and input and output as they are, which
\* JSONB does not take if they have a \u0000.
Execute(o) ==
    /\ pc[o] = "execute"
    /\ Goto(o, "audit") \/ Goto(o, "unfit")
    /\ UNCHANGED <<rows, at, clock, reading, faults>>

\* logAgentAction: the database dates the row; an error is logged and dropped.
LogAgentAction(o) ==
    /\ pc[o] \in {"audit", "unfit"}
    /\ Inserted(o)
    /\ at' = [at EXCEPT ![o] = IF o \in rows' THEN clock ELSE @]
    /\ Goto(o, IF o \in rows' THEN "done" ELSE "lost")
    /\ UNCHANGED <<clock, reading>>

\* The MCP server ends: what it had not written is lost.
McpEnds ==
    /\ Fault
    /\ pc' = [o \in Op |-> IF pc[o] \in {"execute", "audit", "unfit"} THEN "lost" ELSE pc[o]]
    /\ UNCHANGED <<rows, at, clock, reading>>

-----------------------------------------------------------------------------
(* Readers. *)

\* The rows of a tenant that are younger than the period.
Recent(t) == {k \in rows : call[k].tenant = t /\ at[k] + Window > clock}

OfKind(S, kind) == {k \in S : call[k].kind = kind}
UsersOf(S) == {call[k].user : k \in S} \ {NoUser}

\* One SELECT: it fills in a figure or the request fails.
Select(o, here, next, figure, n) ==
    /\ pc[o] = here
    /\ \/ /\ figures' = [figures EXCEPT ![o][figure] = n]
          /\ Goto(o, next) /\ UNCHANGED faults
       \/ Goto(o, "failed") /\ Fault /\ UNCHANGED figures
    /\ UNCHANGED <<rows, at, clock, before, since>>

\* HandleGetLoginMetrics and HandleGetSuspiciousIPs.
BeginReading(o) ==
    /\ call[o].kind = "reading" /\ pc[o] = "idle"
    /\ before' = [before EXCEPT ![o] = rows]
    /\ since' = [since EXCEPT ![o] = clock]
    /\ Goto(o, "total") \/ Goto(o, "addresses")
    /\ UNCHANGED <<rows, at, clock, figures, faults>>

\* Mutant: only events that belong to a user are logins.
CountUserEvents(o) ==
    Select(o, "total", "success", "total",
           Cardinality({k \in Recent(call[o].tenant) : call[k].user # NoUser}))

CountTotal(o) ==
    Select(o, "total", "success", "total", Cardinality(Recent(call[o].tenant)))

CountSuccesses(o) ==
    Select(o, "success", "failure", "success",
           Cardinality(OfKind(Recent(call[o].tenant), "login_success")))

\* Mutant: the SELECT forgets the tenant.
CountFailuresOfAll(o) ==
    Select(o, "failure", "users", "failure",
           Cardinality(OfKind(UNION {Recent(t) : t \in Tenant}, "login_failure")))

CountFailures(o) ==
    Select(o, "failure", "users", "failure",
           Cardinality(OfKind(Recent(call[o].tenant), "login_failure")))

CountUsers(o) ==
    Select(o, "users", "reasons", "users", Cardinality(UsersOf(Recent(call[o].tenant))))

\* Every failure has one of three reasons, so the ten most frequent are all.
CountReasons(o) ==
    Select(o, "reasons", "read", "reasons",
           Cardinality(OfKind(Recent(call[o].tenant), "login_failure")))

\* GROUP BY ip_address ORDER BY cnt DESC LIMIT Limit.
ListAddresses(o) ==
    LET F == {k \in OfKind(Recent(call[o].tenant), "login_failure") : call[k].address # NoAddress}
        From(a) == {k \in F : call[k].address = a}
        All == {call[k].address : k \in F}
    IN  /\ pc[o] = "addresses"
        /\ \E S \in SUBSET All :
            /\ Cardinality(S) = IF Cardinality(All) < Limit THEN Cardinality(All) ELSE Limit
            /\ \A a \in S, b \in All \ S : Cardinality(From(a)) >= Cardinality(From(b))
            /\ Select(o, "addresses", "listed", "addresses", Cardinality(UNION {From(a) : a \in S}))

Tick == clock < MaxTime /\ clock' = clock + 1 /\ UNCHANGED <<pc, rows, at, reading, faults>>

Work(o) ==
    \/ LogEvent(o) \/ CreateLoginEvent(o)
    \/ VerifyAgent(o) \/ Execute(o) \/ LogAgentAction(o)
    \/ BeginReading(o) \/ CountTotal(o) \/ CountSuccesses(o) \/ CountFailures(o)
    \/ CountUsers(o) \/ CountReasons(o) \/ ListAddresses(o)

\* Nothing is left to do in the bounded instance.
Rest ==
    /\ \A o \in Op : pc[o] \in {"done", "read", "listed", "refused", "lost", "failed"}
    /\ UNCHANGED vars

Next == (\E o \in Op : Work(o)) \/ McpEnds \/ Tick \/ Rest

\* A tool call that is under way goes on; nothing else is promised to happen.
Fairness == \A o \in ToolCalls : WF_vars(Execute(o)) /\ WF_vars(LogAgentAction(o))

Spec == Init /\ [][Next]_vars /\ Fairness

-----------------------------------------------------------------------------
(* Properties. *)

\* Every variable has its type, and only an operation that has sent its row off has
\* one: no refused call of an agent is in the table (index.ts:71-104).
TypeOK ==
    /\ pc \in [Op -> {"idle", "insert", "execute", "audit", "unfit", "total", "success",
                      "failure", "users", "reasons", "addresses", "done", "read", "listed",
                      "refused", "lost", "failed"}]
    /\ rows \subseteq {o \in Op : pc[o] = "done" /\ (IsLogin(o) \/ o \in ToolCalls)}
    /\ at \in [Op -> 0..MaxTime]
    /\ clock \in 0..MaxTime
    /\ figures \in [Op -> [Figure -> Nat]]
    /\ before \in [Op -> SUBSET rows]
    /\ since \in [Op -> 0..MaxTime]
    /\ faults \in 0..MaxFaults

\* What a figure counts in a set of rows.
Measure(f, S) ==
    CASE f = "total" -> Cardinality(S)
      [] f = "success" -> Cardinality(OfKind(S, "login_success"))
      [] f = "users" -> Cardinality(UsersOf(S))
      [] OTHER -> Cardinality(OfKind(S, "login_failure"))

\* The rows of the tenant that were there and in the period all through the reading,
\* and those that were at some time of it.
Throughout(o) == {k \in before[o] : call[k].tenant = call[o].tenant /\ at[k] + Window > clock}
Ever(o) == {k \in rows : call[k].tenant = call[o].tenant /\ at[k] + Window > since[o]}

\* The figures are read one after the other without a snapshot, while rows arrive late
\* and leave the period; still each counts every event of its kind that was there all
\* the time and none that never was (event_repo.go:54-108).
FiguresBracketed ==
    \A o \in Op :
        /\ pc[o] = "read" => \A f \in Figure \ {"addresses"} :
               /\ Measure(f, Throughout(o)) <= figures[o][f]
               /\ figures[o][f] <= Measure(f, Ever(o))
        /\ pc[o] = "listed" => figures[o]["addresses"] <= Measure("addresses", Ever(o))

\* Successes and failures exceed the total, and the reasons the failures, by no more
\* than what was inserted since the reading began (event_repo.go:58-95).
SumsExceedByArrivals ==
    \A o \in Op : pc[o] = "read" =>
        LET arrived == Cardinality({k \in rows \ before[o] : call[k].tenant = call[o].tenant}) IN
        /\ figures[o]["success"] + figures[o]["failure"] <= figures[o]["total"] + arrived
        /\ figures[o]["reasons"] <= figures[o]["failure"] + arrived

\* The call is answered before its row is written and nobody looks after the row; still
\* every tool that was executed leaves it, unless the table refuses it for what it says,
\* or a statement fails or the server ends from then on (index.ts:94-134).
ActionsAreAudited ==
    \A o \in ToolCalls, n \in 0..MaxFaults :
        pc[o] = "execute" /\ faults = n ~> o \in rows \/ pc[o] = "unfit" \/ faults > n

\* "Logs all agent actions for compliance" (architecture.md:107): without failures, a
\* tool call that is over, its row sent off, has its row.
AllActionsLogged ==
    faults = 0 => \A o \in ToolCalls : pc[o] \in {"done", "lost"} => o \in rows
=============================================================================
