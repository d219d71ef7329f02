--------------------------- MODULE RefreshTokens ---------------------------
(***************************************************************************)
(* Refresh-token rotation of auth-service: issueAuthResponse, RefreshToken *)
(* and RevokeToken of internal/service/auth_service.go over the tables     *)
(* refresh_tokens and sessions.                                            *)
(*                                                                         *)
(* Every HTTP request is one handler goroutine.  It runs one SQL statement *)
(* at a time, each in its own implicit transaction, so one action here is  *)
(* one statement with the local code up to the next one.  Nothing locks a  *)
(* row between the SELECT and the UPDATE of a rotation.                    *)
(*                                                                         *)
(* A request makes at most one refresh token, one session and one family,  *)
(* all with random identifiers: each is named here by the request that     *)
(* made it.                                                                *)
(***************************************************************************)
EXTENDS Naturals

CONSTANTS
    Req,        \* HTTP requests; a request is also the name of what it makes
    NoToken,    \* a string that hashes to no row; also "no token"
    TTL,        \* lifetime of sessions and refresh tokens (7 days)
    MaxTime,    \* bound on the clock
    MaxFaults   \* bound on failed statements, lost responses and crashes

ASSUME ConstantsAssumption ==
    /\ NoToken \notin Req
    /\ TTL \in Nat /\ MaxTime \in Nat
    /\ MaxFaults \in Nat

VARIABLES
    rows,       \* tokens that have a row in refresh_tokens
    used,       \* rows with used = true
    revoked,    \* rows with revoked = true
    sessions,   \* rows of sessions (their revoked column is never written)
    token,      \* token[r]: the columns of the token r built; fixed from then on
    known,      \* raw tokens that some client has received
    op,         \* op[r]: the service method request r runs
    arg,        \* arg[r]: the refresh token request r presents
    pc,         \* pc[r]: the next statement of request r
    outcome,    \* outcome[r]: what the service method returned
    now,        \* the clock
    faults,     \* failures so far
    before      \* before[r]: the requests with a token that were over when r came
                \* with its own; a record of their order, which no guard reads

vars == <<rows, used, revoked, sessions, token, known, op, arg, pc, outcome, now,
          faults, before>>

Ops == {"none", "issue", "refresh", "revoke"}
Labels == {"idle", "prepare", "session", "read", "replay", "expiry", "mark",
           "load", "insert", "revoke", "reply", "done"}
Outcomes == {"none", "tokens", "invalid", "replay", "revoked", "error"}

Token == [family: Req \cup {NoToken}, session: Req \cup {NoToken}, expires: Nat]

Init ==
    /\ rows = {} /\ used = {} /\ revoked = {} /\ sessions = {} /\ known = {}
    /\ token = [r \in Req |-> [family |-> NoToken, session |-> NoToken, expires |-> 0]]
    /\ op = [r \in Req |-> "none"]
    /\ arg = [r \in Req |-> NoToken]
    /\ pc = [r \in Req |-> "idle"]
    /\ outcome = [r \in Req |-> "none"]
    /\ now = 0 /\ faults = 0
    /\ before = [r \in Req |-> {}]

-----------------------------------------------------------------------------
(* Control flow of a handler. *)

InFlight == {r \in Req : pc[r] \notin {"idle", "done"}}

Goto(r, l) == pc' = [pc EXCEPT ![r] = l] /\ UNCHANGED <<outcome, faults>>

Return(r, o) ==
    /\ pc' = [pc EXCEPT ![r] = "done"]
    /\ outcome' = [outcome EXCEPT ![r] = o]

Finish(r, o) == Return(r, o) /\ UNCHANGED faults

\* The statement fails, and the method returns o.
Fault == faults < MaxFaults /\ faults' = faults + 1
Abort(r, o) == Fault /\ Return(r, o)

Expired(t) == now > token[t].expires

\* Mutant: only the first of the two flags is tested.
ReplayedIfUsed(t) == t \in used

\* The test for a replay, on the row as it is now.
Replayed(t) == t \in used \cup revoked

\* Mutant: the UPDATE is by id.
FamilyById(t) == {t}

\* The rows a RevokeRefreshTokenFamily of t's family updates.
FamilyOf(t) == {s \in rows : token[s].family = token[t].family}

\* Mutant: a rotation opens a family of its own.
SuccessorInOwnFamily(r) ==
    [token[arg[r]] EXCEPT !.family = r, !.expires = now + TTL]

\* The token a rotation builds: the family and the session of the token that was
\* read, a full lifetime from now.
Successor(r) == [token[arg[r]] EXCEPT !.expires = now + TTL]

-----------------------------------------------------------------------------
(* A request arrives. *)

\* Register, Login or OAuthGoogle reached issueAuthResponse.
BeginIssue(r) ==
    /\ pc[r] = "idle"
    /\ op' = [op EXCEPT ![r] = "issue"]
    /\ Goto(r, "prepare")
    /\ UNCHANGED <<rows, used, revoked, sessions, token, known, arg, now, before>>

\* POST /auth/refresh or /auth/revoke with a token a client holds,
\* or with a string that was never issued.
BeginPresent(r, method, t) ==
    /\ pc[r] = "idle"
    /\ t \in known \cup {NoToken}
    /\ op' = [op EXCEPT ![r] = method]
    /\ arg' = [arg EXCEPT ![r] = t]
    /\ before' = [before EXCEPT ![r] = {q \in Req : pc[q] = "done" /\ arg[q] # NoToken}]
    /\ Goto(r, "read")
    /\ UNCHANGED <<rows, used, revoked, sessions, token, known, now>>

\* Either route with an empty token.
RejectEmpty(r) ==
    /\ pc[r] = "idle"
    /\ Finish(r, "invalid")
    /\ UNCHANGED <<rows, used, revoked, sessions, token, known, op, arg, now, before>>

-----------------------------------------------------------------------------
(* issueAuthResponse. *)

\* Tenant, access token and random refresh token, none of which touches the two
\* tables; then the session and its first token are built with one expiry.
Prepare(r) ==
    /\ pc[r] = "prepare"
    /\ \/ /\ token' = [token EXCEPT ![r] =
                          [family |-> r, session |-> r, expires |-> now + TTL]]
          /\ Goto(r, "session")
       \/ Abort(r, "error") /\ UNCHANGED token
    /\ UNCHANGED <<rows, used, revoked, sessions, known, op, arg, now, before>>

\* A write that reports an error may have been committed all the same.
CreateSession(r) ==
    /\ pc[r] = "session"
    /\ \/ sessions' = sessions \cup {r} /\ Goto(r, "insert")
       \/ sessions' \in {sessions, sessions \cup {r}} /\ Abort(r, "error")
    /\ UNCHANGED <<rows, used, revoked, token, known, op, arg, now, before>>

-----------------------------------------------------------------------------
(* RefreshToken and RevokeToken. *)

\* RefreshToken answers ErrInvalidToken, RevokeToken nil.
NotFound(r) == IF op[r] = "refresh" THEN "invalid" ELSE "revoked"

\* GetRefreshTokenByHash.  Both methods take an error for "no such token".
\* The two flags are tested on the copy that was read.
ReadToken(r) ==
    /\ pc[r] = "read"
    /\ \/ arg[r] \notin rows /\ Finish(r, NotFound(r))
       \/ Abort(r, NotFound(r))
       \/ /\ arg[r] \in rows /\ op[r] = "revoke"
          /\ Goto(r, "revoke")
       \/ /\ arg[r] \in rows /\ op[r] = "refresh"
          /\ Replayed(arg[r])
          /\ Goto(r, "replay")
       \/ /\ arg[r] \in rows /\ op[r] = "refresh"
          /\ ~Replayed(arg[r])
          /\ Goto(r, "expiry")
    /\ UNCHANGED <<rows, used, revoked, sessions, token, known, op, arg, now, before>>

\* Mutant: the expiry is not looked at.
SkipExpiry(r) ==
    /\ pc[r] = "expiry"
    /\ Goto(r, "mark")
    /\ UNCHANGED <<rows, used, revoked, sessions, token, known, op, arg, now, before>>

\* The expiry of the row that was read, against the clock as it is now.
CheckExpiry(r) ==
    /\ pc[r] = "expiry"
    /\ IF Expired(arg[r]) THEN Finish(r, "invalid") ELSE Goto(r, "mark")
    /\ UNCHANGED <<rows, used, revoked, sessions, token, known, op, arg, now, before>>

\* Mutant: the replay path returns its error without the UPDATE.
RefuseReplay(r) ==
    /\ pc[r] = "replay"
    /\ Finish(r, "replay")
    /\ UNCHANGED <<rows, used, revoked, sessions, token, known, op, arg, now, before>>

\* RevokeRefreshTokenFamily on the replay path: its error is dropped.
RevokeOnReplay(r) ==
    /\ pc[r] = "replay"
    /\ \/ revoked' = revoked \cup FamilyOf(arg[r]) /\ Finish(r, "replay")
       \/ UNCHANGED revoked /\ Abort(r, "replay")
    /\ UNCHANGED <<rows, used, sessions, token, known, op, arg, now, before>>

\* RevokeRefreshTokenFamily of RevokeToken.
RevokeFamily(r) ==
    /\ pc[r] = "revoke"
    /\ \/ revoked' = revoked \cup FamilyOf(arg[r]) /\ Finish(r, "revoked")
       \/ /\ revoked' \in {revoked, revoked \cup FamilyOf(arg[r])}
          /\ Abort(r, "error")
    /\ UNCHANGED <<rows, used, sessions, token, known, op, arg, now, before>>

\* Mutant: the error of the UPDATE is dropped.
MarkUsedUnchecked(r) ==
    /\ pc[r] = "mark"
    /\ used' \in {used, used \cup {arg[r]}}
    /\ Goto(r, "load")
    /\ UNCHANGED <<rows, revoked, sessions, token, known, op, arg, now, before>>

\* MarkRefreshTokenUsed: an UPDATE by id, whatever the flags are by now.
MarkUsed(r) ==
    /\ pc[r] = "mark"
    /\ \/ used' = used \cup {arg[r]} /\ Goto(r, "load")
       \/ used' \in {used, used \cup {arg[r]}} /\ Abort(r, "error")
    /\ UNCHANGED <<rows, revoked, sessions, token, known, op, arg, now, before>>

\* User, tenant, access token and random token; then the successor is built.
LoadAndSign(r) ==
    /\ pc[r] = "load"
    /\ \/ token' = [token EXCEPT ![r] = Successor(r)] /\ Goto(r, "insert")
       \/ Abort(r, "error") /\ UNCHANGED token
    /\ UNCHANGED <<rows, used, revoked, sessions, known, op, arg, now, before>>

\* CreateRefreshToken, the last statement of both methods that issue tokens.
CreateRefreshToken(r) ==
    /\ pc[r] = "insert"
    /\ \/ rows' = rows \cup {r} /\ Goto(r, "reply")
       \/ rows' \in {rows, rows \cup {r}} /\ Abort(r, "error")
    /\ UNCHANGED <<used, revoked, sessions, token, known, op, arg, now, before>>

\* The 200 response carries the only copy of the raw token.  It may be lost.
Reply(r) ==
    /\ pc[r] = "reply"
    /\ \/ known' = known \cup {r} /\ Finish(r, "tokens")
       \/ UNCHANGED known /\ Abort(r, "tokens")
    /\ UNCHANGED <<rows, used, revoked, sessions, token, op, arg, now, before>>

-----------------------------------------------------------------------------
\* The process dies: every running handler is gone, what it wrote stays.
Crash ==
    /\ InFlight # {} /\ Fault
    /\ pc' = [r \in Req |-> IF r \in InFlight THEN "done" ELSE pc[r]]
    /\ UNCHANGED <<rows, used, revoked, sessions, token, known, op, arg, outcome, now,
                   before>>

Tick ==
    /\ now < MaxTime
    /\ now' = now + 1
    /\ UNCHANGED <<rows, used, revoked, sessions, token, known, op, arg, pc, outcome,
                   faults, before>>

\* Every request was answered: the bounded instance has nothing left to do.
Rest == (\A r \in Req : pc[r] = "done") /\ UNCHANGED vars

Arrive(r) ==
    \/ BeginIssue(r)
    \/ \E method \in {"refresh", "revoke"}, t \in known \cup {NoToken} :
            BeginPresent(r, method, t)
    \/ RejectEmpty(r)

Step(r) ==
    \/ Prepare(r) \/ CreateSession(r)
    \/ ReadToken(r) \/ CheckExpiry(r) \/ RevokeOnReplay(r) \/ RevokeFamily(r)
    \/ MarkUsed(r) \/ LoadAndSign(r) \/ CreateRefreshToken(r) \/ Reply(r)

Next ==
    \/ \E r \in Req : Arrive(r) \/ Step(r)
    \/ Crash
    \/ Tick
    \/ Rest

Spec == Init /\ [][Next]_vars

-----------------------------------------------------------------------------
(* Properties. *)

\* Every variable has its type; the two flags are columns of existing rows
\* (refresh_tokens, 000001_init.up.sql:114-125).
TypeOK ==
    /\ rows \subseteq Req /\ used \subseteq rows /\ revoked \subseteq rows
    /\ sessions \subseteq Req /\ known \subseteq Req
    /\ token \in [Req -> Token]
    /\ op \in [Req -> Ops]
    /\ arg \in [Req -> Req \cup {NoToken}]
    /\ pc \in [Req -> Labels]
    /\ outcome \in [Req -> Outcomes]
    /\ now \in Nat /\ faults \in Nat
    /\ before \in [Req -> SUBSET Req]

\* A rotation "invalidates the old token, then issues the new one": whatever
\* statement fails in between and wherever the process dies, no successor is in
\* the table while the token it replaces can still be spent
\* (auth_service.go:215 before :249).
SpentBeforeSuccessor ==
    \A t \in rows : op[t] = "refresh" => arg[t] \in used

\* Every token stays in the family and the session its login opened, and that
\* session is in the table, as its foreign key demands: one family is one login,
\* which is what makes revoking a family end that login and no other.
SuccessorKeepsLineage ==
    \A t \in rows :
        /\ token[t].session \in sessions
        /\ token[t].session = token[t].family
        /\ op[t] = "issue" => token[t].family = t
        /\ op[t] = "refresh" => token[t].family = token[arg[t]].family

\* A client never holds a token the table does not know: the response leaves
\* only after the INSERT succeeded (auth_service.go:249-253, :328-332).
KnownIsPersisted == known \subseteq rows

\* Requests that have taken t, found unspent, and may rotate it or have done so.
Spenders(t) ==
    {r \in Req : /\ op[r] = "refresh" /\ arg[r] = t
                 /\ pc[r] \in {"expiry", "mark", "load", "insert"} \/ r \in rows}

\* Once a token is used or revoked no further request becomes a spender of it:
\* every double spend was already past its SELECT when the flag was set
\* (auth_service.go:201-215).
SpentAdmitsNoOne ==
    [][\A t \in used \cup revoked : Spenders(t)' \subseteq Spenders(t)]_vars

\* A family is dead when no token of it can be spent and no handler that read
\* one before can still insert a successor.
Rotating(f) ==
    \E r \in Req :
        /\ op[r] = "refresh" /\ arg[r] \in rows /\ token[arg[r]].family = f
        /\ \/ pc[r] \in {"mark", "load", "insert"}
           \/ pc[r] = "expiry" /\ ~Expired(arg[r])

DeadFamily(f) ==
    /\ f \in rows
    /\ \A t \in rows : token[t].family = f => Replayed(t) \/ Expired(t)
    /\ ~Rotating(f)

\* A dead login stays dead: no order of refreshes, revocations, retries, lost
\* responses, failures and restarts gives a family a token again.
DeadFamilyStaysDead ==
    [][\A f \in Req : DeadFamily(f) => DeadFamily(f)']_vars

\* One of the two requests was over when the other began.  Requests that present a
\* token overlap when they are not apart.
Apart(q, r) == q \in before[r] \/ r \in before[q]

\* Rotation exchanges a token for one token: a second successor takes two refreshes
\* of that token that overlapped (both read it before either marked it,
\* auth_service.go:201-215).  A refresh that is repeated after a lost response, a
\* failure or a crash never makes one.
AtMostOneSuccessor ==
    \A s, t \in rows :
        /\ op[s] = "refresh" /\ op[t] = "refresh" /\ arg[s] = arg[t] /\ s # t
        => ~Apart(s, t)

FamilyRows(f) == {t \in rows : token[t].family = f}
Presenters(f) == {r \in Req : arg[r] \in FamilyRows(f)}

\* Requests that revoke families: the user's, and those refused as a replay.
Revokers == {v \in Req : op[v] = "revoke" \/ outcome[v] = "replay"}

\* A rotation of family f that stored its successor overlapped v.
Straddled(f, v) == \E u \in FamilyRows(f) : op[u] = "refresh" /\ ~Apart(u, v)

\* Revocation takes a whole family.  A row of a revoked family that is not revoked
\* goes back to a rotation that was under way while the family was revoked; no
\* request that begins afterwards adds one (auth_service.go:206-209, :249, :271).
FamilyAllOrNothing ==
    \A f \in Req : FamilyRows(f) \cap revoked # {} =>
        \/ FamilyRows(f) \subseteq revoked
        \/ \E v \in Revokers \cap Presenters(f) : Straddled(f, v)

\* "If a used token is replayed, the entire family is revoked"
\* (docs/architecture.md:171): so it is said, without a word about requests under way.
ReplayAnswerMeansRevoked ==
    faults = 0 =>
        \A r \in Req : outcome[r] = "replay" => FamilyOf(arg[r]) \subseteq revoked

\* What the code keeps of it: unless the UPDATE failed, the family of a token refused
\* as a replay is revoked from then on and for good, or one of its rotations
\* overlapped that request (auth_service.go:206-209).
OnlyOverlapEscapesReplay ==
    faults = 0 =>
        \A f \in Req : \A v \in Presenters(f) : outcome[v] = "replay" =>
            FamilyRows(f) \subseteq revoked \/ Straddled(f, v)

\* Two rotations of one token of the family overlapped.
Forked(f) ==
    \E u, w \in rows :
        /\ token[u].family = f /\ op[u] = "refresh" /\ op[w] = "refresh"
        /\ arg[u] = arg[w] /\ u # w /\ ~Apart(u, w)

\* With no request running, a login that nobody revoked can be continued by its
\* client if nothing failed, and by one token only if no two refreshes of one token
\* overlapped: rotation loses a login only in a failure and forks it only in a race
\* (auth_service.go:201-258).
OneLiveToken ==
    InFlight = {} =>
        \A f \in rows \ revoked : op[f] = "issue" =>
            LET unspent == {s \in rows : token[s].family = f /\ s \notin used}
            IN  /\ faults = 0 => unspent \cap known # {}
                /\ ~Forked(f) => \A s, t \in unspent : s = t

-----------------------------------------------------------------------------
(* The tables implement TokenFamily. *)

FamilyUnused(f) == FamilyRows(f) \ used

\* A refresh of the family overlapped another request that presented a token of it.
Contended(f) ==
    LET presenters == Presenters(f)
    IN  \E q, r \in presenters : q # r /\ op[q] = "refresh" /\ ~Apart(q, r)

FamilyStatus(f) ==
    IF FamilyRows(f) = {} THEN "absent"
    ELSE IF Contended(f) THEN "contended"
    ELSE IF FamilyRows(f) \cap revoked # {} THEN "revoked"
    ELSE IF FamilyUnused(f) = {} THEN "spent"
    ELSE "live"

FamilyCurrent(f) ==
    IF FamilyUnused(f) # {} /\ FamilyStatus(f) = "live"
    THEN CHOOSE t \in FamilyUnused(f) : TRUE ELSE NoToken

Family == INSTANCE TokenFamily WITH
    Name <- Req,
    issued <- rows,
    status <- [f \in Req |-> FamilyStatus(f)],
    current <- [f \in Req |-> FamilyCurrent(f)]

\* The two tables keep the promise of TokenFamily to every login whose own requests
\* do not overlap, whatever the requests of other logins do meanwhile: one current
\* token, replaced in two steps, and gone for good once revoked.
ImplementsTokenFamily == Family!Spec
=============================================================================
