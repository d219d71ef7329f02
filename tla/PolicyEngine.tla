---------------------------- MODULE PolicyEngine ----------------------------
(***************************************************************************)
(* policy-engine: the row of tenant_policies of one tenant, made with its  *)
(* defaults by the first request that finds none, changed by partial       *)
(* updates, and asked whether a password will do and whether a login has   *)
(* to pass a second factor.  Every statement commits on its own, so        *)
(* requests interleave between the SELECT, the INSERT and the UPDATE of    *)
(* internal/service/policy_service.go.                                     *)
(*                                                                         *)
(* A row has the columns that decisions are taken on; flags are 0 and 1.   *)
(* The other columns behave like these and decide nothing.                 *)
(***************************************************************************)
EXTENDS Naturals

CONSTANTS
    Client,         \* callers; each has one request at a time
    DefaultPolicy,  \* the row CREATE TABLE's defaults make
    Keep,           \* in a patch: the request does not name the column
    NoRow,          \* the tenant has no row; a request has read none
    Patches,        \* the partial updates clients send
    Passwords,      \* the passwords clients have validated
    Scores,         \* the risk scores clients ask about
    MaxFaults       \* bound on failed statements

Rules == {"minLength", "upper", "number", "special"}
Field == Rules \cup {"mfa", "threshold"}
Policy == [Field -> Nat]
Patch == [Field -> Nat \cup {Keep}]
EmptyPatch == [f \in Field |-> Keep]

\* A password as the rules see it; has: the classes of characters that are in it.
Password == [bytes : Nat, chars : Nat, has : SUBSET Rules]

ASSUME PolicyConstants ==
    /\ DefaultPolicy \in Policy /\ NoRow \notin Policy
    /\ Keep \notin Nat
    /\ Patches \subseteq Patch
    /\ Passwords \subseteq {w \in Password : w.chars <= w.bytes}
    /\ Scores \subseteq Nat
    /\ MaxFaults \in Nat

Request ==
    [kind : {"get"}] \cup [kind : {"update"}, patch : Patches]
        \cup [kind : {"validate"}, password : Passwords]
        \cup [kind : {"mfa"}, score : Scores]

VARIABLES
    known,      \* the tenant has a row in tenants; no service makes or removes one
    policy,     \* the tenant's row
    pc,         \* pc[c]: the next statement of c's request
    req,        \* req[c]: what c asks for
    view,       \* view[c]: the row c's request read or was returned
    demands,    \* demands[c]: the failed rules or second factor c was told of
    answer,     \* answer[c]: how c's last request ended
    faults      \* failed statements so far

vars == <<known, policy, pc, req, view, demands, answer, faults>>

Init ==
    /\ known \in BOOLEAN
    /\ policy = NoRow
    /\ pc = [c \in Client |-> "idle"]
    /\ req = [c \in Client |-> [kind |-> "get"]]
    /\ view = [c \in Client |-> NoRow]
    /\ demands = [c \in Client |-> {}]
    /\ answer = [c \in Client |-> "none"]
    /\ faults = 0

-----------------------------------------------------------------------------
(* What is decided on a row. *)

\* Mutant: a password of exactly the minimum length is too short.
BreaksAtMinimum(w, row, rule) ==
    IF rule = "minLength" THEN w.bytes <= row[rule] ELSE row[rule] = 1 /\ rule \notin w.has

\* The length is that of the UTF-8 encoding.
Breaks(w, row, rule) ==
    IF rule = "minLength" THEN w.bytes < row[rule] ELSE row[rule] = 1 /\ rule \notin w.has

\* ValidatePassword returns all failed rules.
FailedRules(w, row) == {rule \in Rules : Breaks(w, row, rule)}

\* EvaluateMFARequirement.
MfaRequired(score, row) == row["mfa"] = 1 \/ score >= row["threshold"]

Decision(q, row) ==
    CASE q.kind = "validate" -> FailedRules(q.password, row)
      [] q.kind = "mfa" -> IF MfaRequired(q.score, row) THEN {"mfa"} ELSE {}
      [] OTHER -> {}

-----------------------------------------------------------------------------
(* Control flow of a handler. *)

Goto(c, l) == pc' = [pc EXCEPT ![c] = l] /\ UNCHANGED <<demands, answer>>

See(c, row) == view' = [view EXCEPT ![c] = row]

\* The request is answered on a row.
Serve(c, row) ==
    /\ pc' = [pc EXCEPT ![c] = "answered"]
    /\ answer' = [answer EXCEPT ![c] = "ok"]
    /\ demands' = [demands EXCEPT ![c] = Decision(req[c], row)]
    /\ See(c, row)

\* An update goes on to its UPDATE; the other requests have the row they need.
GoOn(c, row) == IF req[c].kind = "update" THEN See(c, row) /\ Goto(c, "update") ELSE Serve(c, row)

\* The handler answers 500.
Refuse(c) ==
    /\ pc' = [pc EXCEPT ![c] = "answered"]
    /\ answer' = [answer EXCEPT ![c] = "error"]
    /\ UNCHANGED <<view, demands>>

\* A statement fails.
Fail(c) == faults < MaxFaults /\ faults' = faults + 1 /\ Refuse(c)

-----------------------------------------------------------------------------
Begin(c, q) ==
    /\ pc[c] = "idle"
    /\ req' = [req EXCEPT ![c] = q]
    /\ Goto(c, "read")
    /\ UNCHANGED <<policy, view, faults>>

\* Mutant: a tenant without a row is an error like any other.
ReadOrFail(c) ==
    /\ pc[c] = "read"
    /\ \/ policy # NoRow /\ GoOn(c, policy) /\ UNCHANGED faults
       \/ policy = NoRow /\ Refuse(c) /\ UNCHANGED faults
       \/ Fail(c)
    /\ UNCHANGED <<policy, req>>

\* GetPolicyByTenantID: every method begins with it.
Read(c) ==
    /\ pc[c] = "read"
    /\ \/ policy # NoRow /\ GoOn(c, policy) /\ UNCHANGED faults
       \/ policy = NoRow /\ Goto(c, "create") /\ UNCHANGED <<view, faults>>
       \/ Fail(c)
    /\ UNCHANGED <<policy, req>>

\* Mutant: who loses the race to create the row goes on with the defaults.
CreateOrAssume(c) ==
    /\ pc[c] = "create"
    /\ policy' = IF policy = NoRow THEN DefaultPolicy ELSE policy
    /\ GoOn(c, DefaultPolicy)
    /\ UNCHANGED <<req, faults>>

\* Mutant: the INSERT replaces a row that is already there (an upsert).
CreateOrReset(c) ==
    /\ pc[c] = "create"
    /\ policy' = DefaultPolicy
    /\ GoOn(c, DefaultPolicy)
    /\ UNCHANGED <<req, faults>>

\* CreatePolicy: a plain INSERT.  UNIQUE(tenant_id) refuses a second row, the foreign
\* key one of a tenant that is not there.
Create(c) ==
    /\ pc[c] = "create"
    /\ \/ /\ known /\ policy = NoRow
          /\ policy' = DefaultPolicy
          /\ GoOn(c, DefaultPolicy)
          /\ UNCHANGED faults
       \/ (~known \/ policy # NoRow) /\ Refuse(c) /\ UNCHANGED <<policy, faults>>
       \/ /\ policy' \in {policy, IF known /\ policy = NoRow THEN DefaultPolicy ELSE policy}
          /\ Fail(c)
    /\ UNCHANGED req

Merge(row, p) == [f \in Field |-> IF p[f] = Keep THEN row[f] ELSE p[f]]

\* Mutant: the row read before is written back with the changes.
WriteBack(c) == Merge(view[c], req[c].patch)

\* The row after UpdatePolicy: one UPDATE that sets the named columns only; an
\* empty request is a SELECT.
Updated(c) == IF req[c].patch = EmptyPatch THEN policy ELSE Merge(policy, req[c].patch)

Update(c) ==
    /\ pc[c] = "update"
    /\ \/ policy' = Updated(c) /\ Serve(c, policy') /\ UNCHANGED faults
       \/ policy' \in {policy, Updated(c)} /\ Fail(c)
    /\ UNCHANGED req

\* A client repeats a request that failed, and makes another after a success.
Retry(c) ==
    /\ pc[c] = "answered" /\ answer[c] = "error"
    /\ pc' = [pc EXCEPT ![c] = "read"]
    /\ answer' = [answer EXCEPT ![c] = "none"]
    /\ UNCHANGED <<policy, req, view, demands, faults>>

Leave(c) ==
    /\ pc[c] = "answered" /\ answer[c] = "ok"
    /\ pc' = [pc EXCEPT ![c] = "idle"]
    /\ answer' = [answer EXCEPT ![c] = "none"]
    /\ view' = [view EXCEPT ![c] = NoRow]
    /\ demands' = [demands EXCEPT ![c] = {}]
    /\ UNCHANGED <<policy, req, faults>>

Step(c) == Read(c) \/ Create(c) \/ Update(c)

Next ==
    /\ \E c \in Client : (\E q \in Request : Begin(c, q)) \/ Step(c) \/ Retry(c) \/ Leave(c)
    /\ UNCHANGED known

Spec == Init /\ [][Next]_vars

\* Every handler has its own goroutine and every statement returns; a client
\* whose request failed does try again.
FairSpec ==
    Spec /\ \A c \in Client :
        WF_vars(Step(c) /\ UNCHANGED known) /\ WF_vars(Retry(c) /\ UNCHANGED known)

-----------------------------------------------------------------------------
(* Properties. *)

\* Every variable has its type, and an UPDATE runs only when there is a row: the
\* SELECT or the INSERT before it found or made one and nothing deletes it
\* (policy_service.go:42-51).
TypeOK ==
    /\ known \in BOOLEAN
    /\ policy \in Policy \cup {NoRow}
    /\ pc \in [Client -> {"idle", "read", "create", "update", "answered"}]
    /\ req \in [Client -> Request]
    /\ view \in [Client -> Policy \cup {NoRow}]
    /\ demands \in [Client -> SUBSET (Rules \cup {"mfa"})]
    /\ answer \in [Client -> {"none", "ok", "error"}]
    /\ faults \in 0..MaxFaults
    /\ \A c \in Client : pc[c] = "update" => req[c].kind = "update" /\ policy # NoRow
    /\ policy # NoRow => known

\* No update is lost: a column of the row changes only to a value that a running
\* update names for that column.  Neither a concurrent update of other columns nor
\* a late creation with defaults undoes it (policy_repo.go:80-161).
NoLostUpdate ==
    [][policy # NoRow =>
        /\ policy' # NoRow
        /\ \A f \in Field : policy'[f] # policy[f] =>
              \E c \in Client : pc[c] = "update" /\ req[c].patch[f] = policy'[f]]_vars

\* A decision is taken on the row in force when the request's last statement runs,
\* never on defaults that another client's row has replaced nor on a row that was
\* read before an update (policy_service.go:26-37, :56, :115).
DecidedOnTheRow ==
    [][\A c \in Client : answer[c] = "none" /\ answer'[c] = "ok" =>
        view'[c] = policy' /\ demands'[c] = Decision(req[c], policy')]_vars

\* A password with as many characters as the policy asks for is never refused for
\* its length, although its bytes are counted (policy_service.go:64).
LongEnoughPasses ==
    \A c \in Client : answer[c] = "ok" /\ "minLength" \in demands[c] =>
        req[c].password.chars < view[c]["minLength"]

\* Seen by its callers the service is PolicyRegister: a missing row is the defaults,
\* creating it changes nothing, and a request takes effect at its last statement
\* (policy_service.go:26-136, policy_repo.go:80-161).
Now == IF policy = NoRow THEN DefaultPolicy ELSE policy

Status(c) ==
    IF pc[c] = "idle" THEN "idle" ELSE IF pc[c] = "answered" THEN answer[c] ELSE "pending"

Told(c) == IF answer[c] = "ok" THEN [row |-> view[c], demands |-> demands[c]] ELSE NoRow

Effect(q, row) == IF q.kind = "update" THEN Merge(row, q.patch) ELSE row

Reply(q, row) == [row |-> row, demands |-> Decision(q, row)]

Register ==
    INSTANCE PolicyRegister WITH
        Default <- DefaultPolicy, Nothing <- NoRow,
        value <- Now, asked <- req,
        status <- [c \in Client |-> Status(c)], told <- [c \in Client |-> Told(c)]

ImplementsPolicyRegister == Register!Spec

\* Losing the race to create the row costs one answer: a client that repeats its
\* request for a tenant that exists is served in the end (policy_service.go:26-37).
EventuallyServed ==
    \A c \in Client : known /\ pc[c] = "read" ~> pc[c] = "answered" /\ answer[c] = "ok"
=============================================================================
