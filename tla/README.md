# Authvora in TLA+

Authvora is an identity service: accounts, rotating refresh tokens, per-tenant
signing keys, tenant policies, a rate-limiting gateway, a risk engine and a tool
server for agents. This directory holds TLA+ models of its stateful parts, the
TLC runs that check them on small instances and TLAPS proofs that hold for instances
of every size. Paths below are relative to the repository.

## 1. Inventory

`A` stands for `services/auth-service/internal`.

| Component | State it keeps | Operations | Modelled by |
|---|---|---|---|
| Refresh-token rotation (`A/service/auth_service.go:194-272, :286-338`) | tables `refresh_tokens`, `sessions` | issue, refresh, revoke | `RefreshTokens`, `TokenFamily` |
| Accounts (`A/service/auth_service.go:76-192, :340-357`) | tables `users`, `user_credentials`, `oauth_connections`, `login_events` | register, log in, sign in with Google | `Accounts` |
| Signing keys (`A/jwt/manager.go`) | table `signing_keys` | ensure a key, sign, serve the key set | `SigningKeys` |
| Tenant policies (`services/policy-engine`) | table `tenant_policies` | get, partial update, validate a password, evaluate MFA | `PolicyEngine` |
| Rate limiter (`services/api-gateway/internal/middleware/ratelimit.go`) | counters in Redis | check an address, check a tenant | `RateLimiter` |
| Gateway routing and middleware (`services/api-gateway`) | whether it has the limiter; requests in flight | count, route, check tenant and token, proxy, start, drain | `Gateway` |
| Risk scoring (`services/risk-engine/app/engine/risk_scorer.py`, `geo.py`) | none; reads `login_events`, `ip_history`, `devices` | evaluate | `RiskScorer` |
| Attack simulation (`services/risk-engine/app/engine/attack_simulator.py`) | none | simulate | `RiskScorer` |
| Login metrics, suspicious addresses (`A/repository/event_repo.go:49-136`) | reads `login_events` | aggregate | `LoginEvents` |
| MCP server (`services/mcp-server/src`) | appends to `login_events` | verify an agent, call a tool, record it | `LoginEvents` (the call and its audit row), `Gateway` (what a tool asks) |
| User reads (`A/handler/user_handler.go`) | reads `users` | get | `Gateway` (the route and its middleware) |
| Start-up, routers, shutdown | requests in flight | start, drain, stop | `Gateway`, partly |
| Schema and deployment | | | the schema's constraints are guards of the models |

**How they interact.** Every HTTP request is one handler (a goroutine in Go, a
task in Python and Node). Handlers share nothing but PostgreSQL and, in the
gateway, Redis. No handler opens a transaction: each statement commits on its own
and another handler may run between any two. The gateway forwards to the services;
`auth-service` and `policy-engine` call no other service; `risk-engine` reads the
events that `auth-service` writes; the MCP server calls the services directly over
HTTP. Register, Login and OAuthGoogle end in `issueAuthResponse`, which signs an
access token (`SigningKeys`) and opens a session with its first refresh token
(`RefreshTokens`); a refresh signs too. `login_events` has three writers (logins,
Google sign-ins, tool calls) and two readers (the metrics and the risk engine).

**What is hard.** Read-then-write in two statements (a token is checked and then
marked, a key, user or policy row is looked for and then inserted); errors that
are dropped (`_ =`, `err != nil || x == nil`); a failure, a lost response or the
end of the process between two statements; the retry that follows; increments
that reach Redis after their minute is over; counters that expire; figures read one
by one from a table that changes; work that nobody waits for; processes that drain
or die with requests in them; a limiter that is there or not for the life of a
process. There are no tests in the repository. `PROJECT.json` lists each hazard at
its line with the properties that would notice it.

**What makes each component correct.**

- *Rotation*: the old token is invalid before the new one exists; the chain keeps its
  family; a revoked or exhausted login stays so; a login has one token to go on with and
  is revoked as a whole, as long as its own requests do not overlap, and what an overlap
  can do to it is bounded; clients hold only tokens the table knows.
- *Accounts*: one account per address; a sign-up that was answered can log in; a
  Google account leads to one user for good; no key is ever replaced and nobody is let
  in without one; no account without a way in; every login attempt leaves the right
  event, once, if the row can be stored.
- *Signing keys*: every token can be verified with the key set served at any later
  time; a tenant has one key, and more only for requests that overlapped or failed.
- *Policies*: no update is undone by another or by the creation of the row; every
  decision rests on the row in force, so that a request seems to happen at one moment; a
  long enough password is not refused; everybody who repeats a failed request is
  served.
- *Rate limiter*: no more than the limit per counter and minute; nobody refused early;
  one address cannot use up its tenant's minute; no more counters stay behind than
  exchanges failed.
- *Gateway*: what a service carried out the client is told, whatever restarts; a
  write is carried out once; a service gets uncounted requests only in a lapse of
  Redis; every request ends; documented endpoints are found.
- *Login events*: each figure counts what was there all through the reading and
  nothing that never was; parts exceed the whole only by what arrived meanwhile; a
  tool that was called leaves its audit row, if the table takes it.
- *Risk scoring*: a block rests on rows that exist; who is unknown, or usual, is a low
  risk; the signal of an address is true of the call although it takes two queries.

## 2. Modules

```
TokenFamily             abstract: one login's tokens
  ^ implemented by RefreshTokens
AccountDirectory        abstract: accounts, their keys and who was let in
  ^ implemented by Accounts
PolicyRegister          abstract: one policy that requests read or change at one moment
  ^ implemented by PolicyEngine

RefreshTokens  Accounts  PolicyEngine  SigningKeys  RateLimiter  LoginEvents  Gateway
RiskScorer              one action per statement, query or exchange
  ^ EXTENDS
<module>Proofs          theorems, for all eight of them
MC<module>              model values, small sets and symmetry for TLC
```

In every module but `Gateway` one action is one SQL statement (or one exchange with
Redis) together with the code up to the next one. `pc[r]` names the statement a
request is at. A statement may fail: a read fails without effect; a write that
reports an error may have been committed (the connection broke before the answer) or
not. `MaxFaults` bounds failures, lost responses and crashes. Identifiers are random
in the code, so what a request creates is named by the request. Definitions that
a comment calls *Mutant* are plausible bugs; nothing in a specification uses them,
each is there to show that a property would notice.

**RefreshTokens.** `rows`, `used`, `revoked`, `sessions` are the tables, `token[r]`
the columns of the token `r` built, `known` the raw tokens clients hold. Issue:
`Prepare` (tenant, access token, random token), `CreateSession`,
`CreateRefreshToken`, `Reply`. Refresh: `ReadToken` (and the test of the flags),
`CheckExpiry` (the clock is read after the row), `RevokeOnReplay` or `MarkUsed`,
`LoadAndSign`, `CreateRefreshToken`, `Reply`. Revoke: `ReadToken`, `RevokeFamily`.
`Crash` ends all running handlers, `Tick` moves the clock. Requests overlap freely.
`before[r]` records which requests with a token were over when `r` came with its own; no
guard reads it. Two requests are `Apart` if one was over before the other began, and the
properties say of each exception which requests were not.

**TokenFamily** is what `docs/architecture.md:156-171` promises of one login: open,
spend the current token, renew, close for good. A family is `spent` between the
two halves of a rotation, and for good when the second half fails. The document
says nothing of a client that presents tokens of one login in two requests at once;
such a family is `contended`, and from then on only its tokens are its own. In the
mapping a family is contended once a refresh of it overlapped another request that
presents one of its tokens; requests of other logins may overlap them as they like.

**Accounts.** One tenant. A user's row is named by its address, which is unique and
never changes. `Lookup`, `CreateUser`, `CreateCredential`; `FindUser`,
`CheckPassword`, `LogFailure` / `LogSuccess`; `Exchange`, `FindConnection`,
`LoadUser`, `FindByEmail`, `Link`; then `Issue`, the whole of `issueAuthResponse`
in one step. `Lower` is `strings.ToLower`. `Forwarded` are the clients whose
requests carry an X-Forwarded-For list, which the gateway always makes of it
(`proxy.go:36-42` and the standard library's reverse proxy each add an entry):
`extractIP` hands the list to INET columns. `Unquotable` are the addresses that `%q`
quotes for Go but not for JSON (`auth_service.go:342`). `events[c]` is the sequence
of events that the requests of `c` have left; `Logged` is what an INSERT adds to it,
which is nothing when the database `Refused` the row. A crash in the middle of a
handler is the same as a failing statement whose client sees an error.

**AccountDirectory** is what the three tables of `Accounts` promise together: an
account is opened once; its password is set once and a Google account is connected
once, and neither is replaced; a caller is let in only with a key of the account. The
mapping is the identity on the tables; `Admission(c)` is the account and the key that
the tokens `c` was answered with stand for.

**SigningKeys.** `keys` are the rows, `createdAt` the time a pair was generated, which
orders `GetActiveSigningKey`. `Ensure` (any error counts as "no key"),
`GenerateKey`, `CreateSigningKey`, `Sign`, `ServeJWKS`. Nothing in the code ever
deactivates a key, so there is no such action. `before` orders requests as in
`RefreshTokens`. Keys are intact: PEM that does not parse is outside the model.

**PolicyEngine.** The row of one tenant with the six columns on which something is
decided (minimum length, upper case, number, special character, MFA, risk threshold).
`Read`, `Create` (plain INSERT against `UNIQUE(tenant_id)` and against the foreign key
to `tenants`: `known` says whether the tenant exists), `Update` (one UPDATE of the
named columns; the row as it is then, not the one that was read). A request is a
`get` (which stands for the three routes that begin with `GetPolicy` and return a part
of the row), an `update`, a `validate` (`FailedRules` of a password, which is its
bytes, its characters and the classes found in it) or an `mfa` (`MfaRequired` of a
risk score).

**PolicyRegister** is the engine as its callers see it: a policy that is there from the
start, requests that take effect at one moment between call and answer, errors that
mean wholly or not at all. In the mapping a missing row is the defaults (`Now`), every
statement but the last of a request is a stutter, and so is the INSERT.

**RateLimiter.** `Arrive` takes the minute, `CheckLimit` is one pipeline of INCR and
EXPIRE and the comparison, `ExchangeFails` the failed exchange: Redis ran both
commands, the first or none, and the client library sends the pipeline again or
gives up and the request passes. `Tick` lets Redis drop what has expired. An
address is whatever names the counter.

**Gateway.** The processes (`proc`: up, draining, down), Redis, whether the gateway
process has the limiter (`limiting`, decided at its start), and each request's place:
`front[r]` in the gateway or as a waiting client, `back[r]` in the service. `Connect`,
`Limit`, `Route` (404, tenant 400, token 401, in the order of the middleware),
`Forward`, `Lost` (the proxy's error handler, or Go's transport that repeats a read);
`Dispatch` (the service's router and middleware), `Handle`, `Respond`,
`RespondTooLate`, `Abandon`; `Signal`, `Stop`, `DrainTimeout`, `Crash`, `Start`;
`RedisFails`, `RedisReturns`. A handler is one step here, its statements are the other
modules' subject, and what it answers itself (200, or a 401, 404 or 500 of its own) is
one answer, `handled`, apart from the refusals of routers and middleware. All processes
are up at the start; for the risk engine that is its handlers as written, since with
`app/api/risk.py` as committed it could not start. The limiter's counting is `RateLimiter`; here it may refuse or not.
`cut` remembers the requests a process dropped, `lapse` that Redis has failed since
the gateway process started.

**LoginEvents.** `rows` of `login_events` with their times `at`. Writers: a login dates
its event and inserts it later (`LogEvent`, `CreateLoginEvent`); a tool call is
`VerifyAgent`, `Execute` and, after the answer, `LogAgentAction`; `McpEnds` loses what is
pending. `Execute` may leave an audit row that the table refuses (`unfit`): the tenant_id
of the call, whatever that is, or input and output with a `\u0000`. Readers: `BeginReading`, then the five SELECTs of the metrics or
`ListAddresses`, each over the rows that are young enough when it runs. The foreign key
refuses a row whose tenant does not exist.

**RiskScorer.** `events`, `ipHistory`, `devices` are the tables the engine reads,
`Insert` whatever writes them (`Logins`, `Histories` and `Registrations` are the rows
that may be inserted, each with its time). `evaluate` is `CountFailures`, `CheckSeen`,
`UsualCountry`, `CurrentCountry`, `TypicalHour`, `CheckDevice`, `LastLogin`,
`CurrentLocation`, each with the query of `login_events` that follows when
`ip_history` has nothing; the last one ends in the answer. A result that ORDER BY and
LIMIT 1 leave open is a choice. The score is counted in hundredths. `Simulate`,
`Attempt` and `Report` are the attack simulator, which calls `evaluate` in a loop.
`schema` is the database: the queries name columns (`success`, `country`,
`latitude`, `device_fingerprint`) that `infra/migrations` does not create, so
besides that database, where every evaluation falls back to the default signals,
there are two in which the columns exist, with and without time zones: with them
`datetime.utcnow()` cannot be subtracted from and the call ends in an error. As
committed, `app/api/risk.py` is not valid Python (parameters without a default
follow some with one); what is modelled is the handlers it contains.

## 3. Runs

| Run | Expect | What it shows |
|---|---|---|
| `RefreshTokens` | pass | With free overlap and two failures: old token spent before the successor exists, lineage kept, no late spender, dead logins stay dead; one successor per token, whole families revoked and one live token per login save for the overlaps and failures each property names; `TokenFamily` implemented |
| `RefreshTokensStraggler` | violation | A successor inserted after its family was revoked survives (`auth_service.go:249`) |
| `Accounts` | pass | Sign-ups, logins and Google sign-ins interleaved, one failure, repeated requests: `AccountDirectory` implemented, ways in, events, sign-ins that heal |
| `AccountsForwarded` | violation | Behind the gateway no login leaves an event (`auth_handler.go:167`) |
| `SigningKeys` | pass | Tokens stay verifiable; one key per tenant, and one more per failure, but for overlapping requests |
| `PolicyEngine` | pass | No lost update, decisions on the row in force, `PolicyRegister` implemented, no password refused for being long enough; repeated requests are served |
| `RateLimiter` | pass | Caps per minute, no early refusal, tenants protected from one address, no more counters left behind than exchanges failed |
| `Gateway` | pass | Through restarts, crashes, exhausted time limits and outages of Redis: what was carried out is told, once; no uncounted request outside a lapse; every request ends |
| `GatewayRoutes` | violation | A documented endpoint of auth-service is answered 404 (`main.go:74` of the gateway) |
| `LoginEvents` | pass | Figures bracketed, parts against the whole, audit rows written in the end unless the table refuses them or something fails |
| `LoginEventsAudit` | violation | A tool call that was answered has no audit row although nothing failed (`index.ts:126`, `audit.ts:30`) |
| `RiskScorer` | pass | The unknown are a low risk, a block rests on rows, the address signal is true of the call, a usual login is a low risk |

The violated properties quote what the documentation or a comment says;
`PROJECT.json` ("findings") has the quotation and the line; section 5 has the
disagreements that have no run. Passing runs say how far some races go: two
overlapping refreshes of one token both issue a successor (`AtMostOneSuccessor` names
the overlap, `auth_service.go:206-215`; like the straggler, one `UPDATE ... WHERE used =
false AND revoked = false`, with a look at the number of rows, and one transaction away
from a promise without exceptions); two first logins of a tenant may create two active
keys (`manager.go:141`; harmless, as `TokensVerifiable` shows); the loser of the race to
create a policy row is answered with an error (`policy_service.go:29`), which costs one
answer, as `EventuallyServed` shows.

**Bounds.** *Rotation*: four requests are a login and three requests on its tokens:
two overlapping refreshes and a replay or revocation during or after them, or two
rotations in a row and a replay of the first token, or two logins with a request each.
Lifetime 1 and a clock up to 2 let a token expire before, during and after a refresh,
and its successor too. Two failures let a lost response meet a crash. *Accounts*:
three clients are enough for a race of two that a third one makes worse; each pair of
methods meets; one address has two spellings, the other cannot be quoted, and the
Google account may move between two; one client's requests carry an address list. In
`AccountsForwarded` the address list is the only reason for a refused row. *Signing
keys*: four requests of two tenants, all divisions between them, two failures.
*Policies*: two clients; four patches, so that a strict one meets one that takes a
part of it back, one of other columns, one of nothing, and the creation; two
passwords, ASCII of the minimum length and two characters in three bytes; scores below
and at the threshold. *Rate limiter*: a minute is 2 ticks, a counter lives 3, requests
arrive in the last and first ticks of two minutes and may be one tick late, so an
increment can arrive in the last tick before its counter would expire, and the clock
goes on until the counters of the first minute should have gone; the limits are 1 for
an address and 2 for the tenant so that three requests, of one address or of several,
exceed either. *Gateway*: two requests, one of eleven kinds (served, refused by each
middleware and router, preflight, health), the other of the four that are served; one
crash, exhausted time limit or outage and one orderly stop, of any process at any
moment, are enough for a request to be dropped, repeated and met by a restart.
`GatewayRoutes` asks every documented endpoint and needs no failure. *Login events*: a
success and a failure of one tenant, a failure of another, a tool call and a reading;
the period is one tick and the clock moves once, so that rows arrive and leave between
any two of the five SELECTs. `LoginEventsAudit` needs the tool call and no failure.
*Risk scoring*: an address is suspicious after 1 failure instead of 10; three rows are
enough for a block (two failures from another country and a login at home); the clock
moves once, from 20 h to 2 h, so that a login is in off-hours and far from its usual
hour; places are 6 hours of flight apart, which is just too far. One call at a time:
callers only read and cannot meet.

**Deadlock** is checked in every run. Where the bounded instance is done, `Rest`
stutters, and only there: every request answered, or time over. (`PolicyEngine` has no
end.)

**Fairness.** `PolicyEngine` and `Accounts` check liveness under weak fairness of a
client's next step and of its retry. Each handler is a goroutine of its own, no
lock is held between statements and every statement returns or fails, which
justifies the first; the second is an assumption on clients: one that was told of
an error tries again. The number of failures is bounded, so "in the end" means
once the database answers. `Gateway` assumes that a running process goes on with what
it serves, that a draining process whose requests are over ends, and that a process
that is down is started again (`restart: always` in `docker-compose.prod.yml`); it
assumes nothing of clients, of Redis or of timeouts. It does assume that handlers end:
the proxies have no time limit (`proxy.go:31-42`), so a handler that never ended would be
waited for as long, which `EveryRequestEnds` does not catch; what it excludes is a request
that is tried for ever. `LoginEvents` assumes that a tool
returns or throws and that the query that was sent off is executed or fails.

**Symmetry** permutes requests (and tenants, addresses) in safety runs only; the
runs with liveness have none.

## 4. Proofs

The proof modules hold for every set of requests or clients, every clock, limit and
number of failures.

| Module | Theorem | Statement |
|---|---|---|
| `RefreshTokensProofs` | `TypeCorrect` | `Spec => []TypeOK` |
| | `SpentFirst` | `Spec => []SpentBeforeSuccessor` |
| | `LineageKept` | `Spec => []SuccessorKeepsLineage` |
| | `ClientsHoldRows` | `Spec => []KnownIsPersisted` |
| | `NoLateSpender` | `Spec => SpentAdmitsNoOne` |
| | `DeadForGood` | `Spec => DeadFamilyStaysDead` |
| | `OneSuccessor` | `Spec => []AtMostOneSuccessor` |
| | `WholeFamily` | `Spec => []FamilyAllOrNothing` |
| | `ReplayRevokes` | `Spec => []OnlyOverlapEscapesReplay` |
| | `LiveToken` | `Spec => []OneLiveToken` |
| | `FamiliesAreTokenFamilies` | `Spec => ImplementsTokenFamily` |
| `PolicyEngineProofs` | `TypeCorrect` | `Spec => []TypeOK` |
| | `NotRefusedForLength` | `Spec => []LongEnoughPasses` |
| | `UpdatesStay` | `Spec => NoLostUpdate` |
| | `CurrentDecisions` | `Spec => DecidedOnTheRow` |
| | `OneMoment` | `Spec => ImplementsPolicyRegister` |
| `SigningKeysProofs` | `TypeCorrect` | `Spec => []TypeOK` |
| | `AlwaysVerifiable` | `Spec => []TokensVerifiable` |
| | `FetchedKeySetVerifies` | `Spec => FreshKeySetVerifies` |
| | `KeysPerFailure` | `Spec => []KeysAreAccountedFor` |
| `AccountsProofs` | `TypeCorrect` | `Spec => []TypeOK` |
| | `OneAccount` | `Spec => []OneAccountPerAddress` |
| | `SignUpIsGood` | `Spec => []RegisteredCanLogIn` |
| | `OneUserOfGoogle` | `Spec => []GoogleAccountIsOneUser` |
| | `OneEventPerLogin` | `Spec => []LoginsAreLogged` |
| | `NobodyShutOut` | `Spec => []EveryAccountHasAKey` |
| | `AccountsAreADirectory` | `Spec => ImplementsDirectory` |
| `RateLimiterProofs` | `TypeCorrect` | `Spec => []TypeOK` |
| | `Cap` | `Spec => []WindowCap` |
| | `NotEarly` | `Spec => []NoEarlyRejection` |
| | `TenantProtected` | `Spec => []AddressCannotExhaustTenant` |
| | `Vanish` | `Spec => []CountersVanish` |
| `GatewayProofs` | `TypeCorrect` | `Spec => []TypeOK` |
| | `RestartsLoseNoAnswer` | `Spec => []DrainedIsTold` |
| | `NoWriteTwice` | `Spec => []WritesRunOnce` |
| | `LimiterIsThere` | `Spec => []UncountedOnlyInLapse` |
| | `EnginesReached` | `Spec => []EnginesAreReached` |
| `LoginEventsProofs` | `TypeCorrect` | `Spec => []TypeOK` |
| | `BetweenAlwaysAndEver` | `Spec => []FiguresBracketed` |
| | `PartsAndWhole` | `Spec => []SumsExceedByArrivals` |
| `RiskScorerProofs` | `TypeCorrect` | `Spec => []TypeOK` |
| | `UnknownIsLow` | `Spec => []NoRecordIsLow` |
| | `BlockJustified` | `Spec => []BlockNeedsRecord` |
| | `IpSignalTrue` | `Spec => []IpSignalJustified` |
| | `FamiliarIsAllowed` | `Spec => []FamiliarIsLow` |

*Assumptions*: the one named assumption of each module on its constants
(`ConstantsAssumption`, `PolicyConstants`, `SigningConstants`, `AccountsConstants`,
`LimiterConstants`, `GatewayConstants`, `EventConstants`, `RiskConstants`), which TLC
evaluates in every run. None restricts how requests overlap or what fails. Those of `RateLimiter` and `LoginEvents` ask for finitely many requests, because
their properties count them; `LimiterConstants` also has `Window + MaxDelay <= Ttl`
(60 seconds and the delay of a request against the 90 of a counter), on which `Cap` rests.

*Arguments.* Almost none of the properties is inductive. Each proof states an
invariant `IInv`, one named conjunct per idea, shows that it holds initially and is
kept by every action, and derives the properties from it.

- *Rotation.* `SpentBeforeSuccessor` speaks of rows, and what makes it true happens
  before the row is there. `IInv` adds what is known of a handler between two
  statements: a request past `MarkUsed` has spent its argument (`SpentBeforeDraft`),
  the token it has built carries the lineage of the token it read (`DraftLineage`),
  what a statement works on exists (`Staged`), and a request has no row before its
  `INSERT` (`RowsLast`). The two action properties follow from `IInv` and one step.
  For the other properties `Ordered` keeps the record of who came after whom:
  whoever is in `before[r]` is over, and whether two requests overlapped is settled once
  both have begun. `LateFindsUsed`: a request that came after a successor of its token
  was stored is not rotating that token, for the flag was set before the successor's
  INSERT; that is `AtMostOneSuccessor`. `RevokedContained`: every revocation is
  `Contained`, which means that the rows it missed, and the rotations that may still
  insert one (`Pending`), overlapped it; that is `FamilyAllOrNothing` and
  `OnlyOverlapEscapesReplay`. `OneTip`: a family that was not forked has one row without
  a successor, hence one that may be unspent, and `Alive` follows it through the handler
  that is rotating it; that is `OneLiveToken`. For the refinement, `ReadStillHolds`:
  while a family is not contended, what a rotation of it has read is still so when it
  writes. Then the INSERT of an issue opens, `MarkUsed` spends, the INSERT of a rotation
  renews or, in a contended family, branches, the revocations close, the arrival of a
  request may contend, and every other step leaves the family unchanged (`RefInv`).
- *Accounts.* `AtOwnStatement` and `Addressed` say which statements a method has and
  that it works with an address there; `HasUser` that a statement about a user has one;
  `LowerCased` that rows are in lower case, which with the unique constraint is
  `OneAccountPerAddress`; `OneMaker` that two requests never believe to have created the
  same user; `PasswordStored` and `Connected` carry a stored password and a connection
  from the statement that wrote it to the answer. `Counted` bounds the
  number of events of a login at each of its statements by the failures so far,
  `EventsSoFar` says which they are without failures, `Silent` that who called nothing has
  left none; and `KeyOrMaker` with `Mailed` says of each account
  without a key who is about to give it one. For the refinement of `AccountDirectory`,
  `KeyedIn` says that a sign-up or login past its password has that password stored, and
  `OneMaker` that a password is only ever set where there is none; each statement that
  writes a table is then one step of the directory, the answer with tokens is `Admit`,
  and everything else is not seen.
- *Signing keys.* `Dated`: the clock is past every key, so the newest key of a tenant
  exists as soon as there is one, and rows are never removed. `Misled` are the requests
  that have a key, or are about to, although one was stored when they came; only a failed
  look-up makes one (`Counted`), and of keys made one after the other all but the first
  belong to such requests.
- *Policies.* `AnsweredOnView`: what a client was told is the decision on the row it
  was served with; the action properties follow from the disjuncts of a step. For the refinement of
  `PolicyRegister`, a statement that answers is `Answer` (an empty update, which is a
  SELECT, has the effect of its merge: `UpdatedIsEffect`), one that fails is `Refuse`, and
  the others leave the register as it is.
- *Rate limiter.* `Kept`: a counter of a minute that still has late increments to
  come has not expired. Without that, counting would start again; with it the count is
  at least the number of requests let pass (`Capped`), refusals are justified by what is
  counted (`Justified`, `Accounted`, `StoppedByOthers`) and a
  counter whose time to live ends later than it should (`Stuck`) goes back to an exchange
  that failed (`Passing`).
- *Gateway.* `InGateway` and `InStep` relate the two places of a request, `Reported`
  says that what was carried out is on its way to the client or was cut, `SentOnce` that
  a service holds a request only once, `DownIsEmpty` that a process that is down holds
  none, `MissingIsLapse` and `Counting` why a request was not counted, `Accepted` that
  nothing refuses a complete request to an engine.
- *Login events.* `Bracketed` brackets each figure from the SELECT that read it on: the
  rows that were there throughout only become fewer, those that were ever there only
  more. `Outgrown` does the same for the differences between figures, with the rows
  that arrived since.
- *Risk scoring.* The tables only grow, so what a query found stays true of them
  (`Grows`, `StillFound`, `StillFits`). `Sound` says of each call that every signal it has
  computed rests on rows (`Justified`: `IpTrue`, `GeoTrue`, `DeviceTrue`, `TravelTrue`) and
  that what it holds between two queries was found (`Fits`); an answer inherits this. The
  properties follow with the weights and the bounds of the levels: 73 at most, so a block
  needs all five signals at their worst, and a usual or unknown login stays below 31.
  `Simulated` says that a simulation's calls are for a user nobody has.

*Stated and proved without a run*: `KnownIsPersisted`, `FreshKeySetVerifies`,
`EnginesAreReached`, and the type invariants of all modules.

*Only model-checked*: liveness (`EventuallyServed`, `GoogleSignInHeals`,
`ActionsAreAudited`, `EveryRequestEnds`), which with fairness and `ENABLED` is out of the
prover's reach; every other property that a passing run checks is proved. So are induction over data, hence what a
recursive definition computes for every input, and modules with RECURSIVE operators;
no module here needs either.

## 5. Not modelled

- The cryptography, password hashing, JSON and logging; the values the gateway puts in
  the context, which nothing reads; the schemas and transports of the MCP server; the
  wiring of constructors and environment variables; a database that is missing when a
  service starts, which then ends and is started again.
- Tenants other than the one at hand, save in `SigningKeys`, `RateLimiter` and
  `LoginEvents`: every other statement is by `tenant_id`.
- The distance on a sphere, which enters `RiskScorer` as a table of flight times.
- The `revoked` and `expires_at` columns of `sessions`, which nothing reads.
- Isolation levels above one statement, since no handler uses a transaction.
- The status column of an audit row, which says "success" also when the tool returned
  an error of the service it called; only whether the row exists is in `LoginEvents`.

**Disagreements without a run of their own.** What the repository's documents say
and the code does not do, besides the four violation runs:

- *The limit per minute.* `ratelimit.go:21` and `architecture.md:181` say 100 requests
  per minute, `architecture.md:72` a token bucket. The code counts calendar minutes
  (`ratelimit.go:43`): up to twice the limit passes in a minute's time around the turn of
  one. `WindowCap` bounds each calendar minute and says nothing of two.
- *The second factor.* `architecture.md:90` and `api-design.md:301-303` (score 42,
  `mfa_required`) ask for MFA from 31; `risk_scorer.py:397-405` allows up to 50. An
  unknown user from a suspicious address scores up to 41 and is let in. `NoRecordIsLow`
  is about logins without any record; no property says that 31 to 50 is right.
- *The attack simulation.* `api-design.md:401-415` shows 950 of 1000 attempts blocked
  and a detection rate of 0.95. Simulated users have ids that are no UUIDs
  (`attack_simulator.py:121`), so every evaluation falls back to the default signals
  (29, allow): nothing is blocked or flagged, whatever the tables hold. The simulator is
  in `RiskScorer` as a caller; no property is made of its blindness.
- *Quoted addresses.* `architecture.md:205-207` says of a login attempt "Insert into
  login_events table". Besides the address list of `AccountsForwarded`, an address with
  a character that `%q` (`auth_service.go:342`) quotes for Go and not for JSON loses its
  event. `LoginsAreLogged` excludes both; `LoginAttemptsInserted` fails in the same way
  under `AccountsForwarded.cfg` with `Forwarded = {}` and `Unquotable = {"b"}`.
- *Total logins.* The metrics call `total_logins` what is every row of the period
  (`event_repo.go:53-59`), the audit rows of tool calls included; in
  `api-design.md:335-337` successes and failures add up to the total.
  `SumsExceedByArrivals` has only the direction that holds.
- *Midnight.* The hours of `risk_scorer.py:286` are not compared around midnight.
- *Two MCP tools.* `get_login_metrics` and `list_suspicious_ips` ask auth-service without
  the Authorization header its middleware wants and are always answered 401 (the direct
  `analytics` request of the `Gateway` run).
- *The risk engine's start.* `app/api/risk.py` as committed does not parse, so the
  process does not start; `RiskScorer`, and the half of `EnginesAreReached` that is about
  it, are about its handlers as written.

## 6. Plan

Done, in this order: `RefreshTokens` and `TokenFamily` (the core) with their proofs,
`PolicyEngine`, `SigningKeys`, `RateLimiter`, `Accounts`, `RiskScorer`, `LoginEvents`,
`Gateway`, the proofs of all of these, and the abstract specifications
`PolicyRegister` and `AccountDirectory` with the proofs that they are implemented.

Left: a composition of `Accounts` with `RefreshTokens` through `issueAuthResponse`, so
that a login's event and its session are seen in one behaviour.
