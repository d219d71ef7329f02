------------------------------ MODULE Gateway ------------------------------
(***************************************************************************)
(* Requests on their way through api-gateway (cmd/server/main.go, proxy,   *)
(* middleware) to the services behind it, or directly to a service, as the *)
(* README and the MCP tools do: which middleware and which router answers  *)
(* them, how processes start, drain on SIGTERM and die, and what the       *)
(* client is told.  A service's handler is one step here; its statements   *)
(* are the subject of the other modules.                                   *)
(***************************************************************************)
EXTENDS Naturals

CONSTANTS
    Req,        \* requests; a repeated request is another one
    Inputs,     \* Inputs[r]: what request r may be
    MaxFaults,  \* bound on crashes, exhausted time limits and outages of Redis
    MaxStops    \* bound on orderly stops

Backend == {"auth", "risk", "policy"}
Process == Backend \cup {"gateway"}

\* A request: where it is sent, whether its path starts with /api/v1, what comes
\* next in the path, its headers.  A token that cannot be parsed counts as none; one
\* that lacks the claim sub or tid is bare.
Request == [port : Process, api : BOOLEAN, options : BOOLEAN, tenant : BOOLEAN,
            area : {"auth", "users", "analytics", "risk", "simulate", "policies", "health"},
            token : {"none", "bare", "full"}]

ASSUME GatewayConstants ==
    /\ Inputs \in [Req -> SUBSET Request]
    /\ MaxFaults \in Nat
    /\ MaxStops \in Nat

VARIABLES
    proc,       \* proc[p]: "up", "draining" or "down"
    redis,      \* Redis answers
    limiting,   \* the gateway process has the rate limiter
    lapse,      \* Redis failed to answer since the gateway process started
    req,        \* req[r]: what r asks
    front,      \* front[r]: where r is in the gateway, or waiting for a service
    back,       \* back[r]: where r is in the service it was sent to
    counted,    \* requests the rate limiter counted
    reply,      \* reply[r]: what the service answers
    answer,     \* answer[r]: what the client got
    runs,       \* runs[r]: how often a handler of a service carried r out
    cut,        \* requests a process dropped when it died or answered too late
    faults, stops

procVars == <<proc, redis, limiting, lapse, stops>>
vars == <<procVars, req, front, back, counted, reply, answer, runs, cut, faults>>

\* Every process is up.  The risk engine is its handlers as they are written: with
\* app/api/risk.py as committed, which does not parse, it could not start.
Init ==
    /\ proc = [p \in Process |-> "up"]
    /\ redis \in BOOLEAN
    /\ limiting = redis
    /\ lapse = ~redis
    /\ req \in {q \in [Req -> UNION {Inputs[r] : r \in Req}] : \A r \in Req : q[r] \in Inputs[r]}
    /\ front = [r \in Req |-> "idle"]
    /\ back = [r \in Req |-> "none"]
    /\ counted = {}
    /\ reply = [r \in Req |-> "none"]
    /\ answer = [r \in Req |-> "none"]
    /\ runs = [r \in Req |-> 0]
    /\ cut = {}
    /\ faults = 0
    /\ stops = 0

-----------------------------------------------------------------------------
(* Routes. *)

\* The gateway's proxies: the service of each area.
Upstream(q) ==
    CASE q.area \in {"auth", "users", "analytics"} -> "auth"
      [] q.area \in {"risk", "simulate"} -> "risk"
      [] q.area = "policies" -> "policy"
      [] OTHER -> "gateway"

\* The process whose handler is to carry q out; a proxy leaves the path as it is.
Home(q) == IF q.port = "gateway" THEN Upstream(q) ELSE q.port

\* The gateway's router: /health and the groups under /api/v1.
Routed(q) == q.api <=> q.area # "health"

\* TenantMiddleware, and JWTAuthMiddleware on the routes that have it.
LacksTenant(q) == ~q.tenant
LacksToken(q) == q.area # "auth" /\ q.token = "none"

\* The routers of auth-service and the risk engine.
AuthRoutes == [api : {FALSE}, area : {"auth", "users", "analytics"}]
RiskRoutes == [api : {TRUE}, area : {"risk", "simulate"}] \cup [api : {FALSE}, area : {"health"}]

\* The router of the policy engine.
PolicyRoutes == [api : {TRUE}, area : {"policies"}] \cup [api : {FALSE}, area : {"health"}]

Serves(p, q) ==
    [api |-> q.api, area |-> q.area] \in
        CASE p = "auth" -> AuthRoutes [] p = "risk" -> RiskRoutes [] OTHER -> PolicyRoutes

\* Requests with side effects, which are POST or PUT; the others are GET.
Writes(q) == q.area \in {"auth", "simulate", "policies"}

-----------------------------------------------------------------------------
Move(r, f) == front' = [front EXCEPT ![r] = f] /\ UNCHANGED answer
Answer(r, a) ==
    /\ front' = [front EXCEPT ![r] = "over"]
    /\ answer' = [answer EXCEPT ![r] = a]
Fault == faults < MaxFaults /\ faults' = faults + 1

\* A connection is accepted by a process that has not been told to stop.  The
\* gateway answers preflight requests before anything else.
Connect(r) ==
    LET q == req[r] IN
    /\ front[r] = "idle" /\ proc[q.port] = "up"
    /\ \/ q.port # "gateway" /\ Move(r, "wait") /\ back' = [back EXCEPT ![r] = "arrived"]
       \/ q.port = "gateway" /\ q.options /\ Answer(r, "noContent") /\ UNCHANGED back
       \/ /\ q.port = "gateway" /\ ~q.options
          /\ Move(r, IF limiting THEN "limit" ELSE "route")
          /\ UNCHANGED back
    /\ UNCHANGED <<procVars, req, counted, reply, runs, cut, faults>>

\* NewRateLimiter: refused over a limit, let pass uncounted if Redis fails.
Limit(r) ==
    /\ front[r] = "limit"
    /\ \/ redis /\ counted' = counted \cup {r} /\ (Move(r, "route") \/ Answer(r, "limited"))
       \/ ~redis /\ Move(r, "route") /\ UNCHANGED counted
    /\ UNCHANGED <<procVars, req, back, reply, runs, cut, faults>>

\* The router and the middleware of its groups: tenant first, then token.
Route(r) ==
    LET q == req[r] IN
    /\ front[r] = "route"
    /\ \/ ~Routed(q) /\ Answer(r, "notFound")
       \/ Routed(q) /\ q.area = "health" /\ Answer(r, "handled")
       \/ /\ Routed(q) /\ q.area # "health"
          /\ \/ LacksTenant(q) /\ Answer(r, "badRequest")
             \/ ~LacksTenant(q) /\ LacksToken(q) /\ Answer(r, "unauthorized")
             \/ ~LacksTenant(q) /\ ~LacksToken(q) /\ Move(r, "proxy")
    /\ UNCHANGED <<procVars, req, back, counted, reply, runs, cut, faults>>

\* Mutant: the handler of proxy errors tries again.
TryAgain(r) == Move(r, "proxy")

\* The proxy's ErrorHandler.
ErrorHandler(r) == Answer(r, "badGateway")

\* The proxy sends the request, if the service takes connections.
Forward(r) ==
    /\ front[r] = "proxy"
    /\ \/ /\ proc[Home(req[r])] = "up"
          /\ Move(r, "wait") /\ back' = [back EXCEPT ![r] = "arrived"]
       \/ proc[Home(req[r])] # "up" /\ ErrorHandler(r) /\ UNCHANGED back
    /\ UNCHANGED <<procVars, req, counted, reply, runs, cut, faults>>

\* net/http sends a request without side effects again if a kept connection ends
\* before the first byte of the response.
Resend(r) == ~Writes(req[r]) /\ Move(r, "proxy")

\* The connection to the service ended without a response.
Lost(r) ==
    /\ front[r] = "wait" /\ back[r] = "none"
    /\ \/ req[r].port = "gateway" /\ (ErrorHandler(r) \/ Resend(r))
       \/ req[r].port # "gateway" /\ Answer(r, "closed")
    /\ UNCHANGED <<procVars, req, back, counted, reply, runs, cut, faults>>

-----------------------------------------------------------------------------
(* A service. *)

\* auth-service's TenantMiddleware, before it looks for a route, and AuthMiddleware
\* on two of its routes; the engines have neither.
WithoutTenant(q) == Home(q) = "auth" /\ ~q.tenant
WithoutClaims(q) == q.area \in {"users", "analytics"} /\ q.token # "full"

\* A service's router and middleware.
Dispatch(r) ==
    LET q == req[r]
        Refuse(a) == back' = [back EXCEPT ![r] = "reply"] /\ reply' = [reply EXCEPT ![r] = a]
    IN
    /\ back[r] = "arrived"
    /\ \/ WithoutTenant(q) /\ Refuse("badRequest")
       \/ ~WithoutTenant(q) /\ ~Serves(Home(q), q) /\ Refuse("notFound")
       \/ /\ ~WithoutTenant(q) /\ Serves(Home(q), q)
          /\ \/ WithoutClaims(q) /\ Refuse("unauthorized")
             \/ ~WithoutClaims(q) /\ back' = [back EXCEPT ![r] = "handler"] /\ UNCHANGED reply
    /\ UNCHANGED <<procVars, req, front, counted, answer, runs, cut, faults>>

\* The handler of the route, whichever it is.  What it answers itself, 200 as well as
\* a 401, 404 or 500 of its own, is "handled"; the refusals above are not a handler's.
Handle(r) ==
    /\ back[r] = "handler"
    /\ runs' = [runs EXCEPT ![r] = @ + 1]
    /\ back' = [back EXCEPT ![r] = "reply"]
    /\ reply' = [reply EXCEPT ![r] = "handled"]
    /\ UNCHANGED <<procVars, req, front, counted, answer, cut, faults>>

\* The response reaches whoever still waits for it.
Respond(r) ==
    /\ back[r] = "reply"
    /\ back' = [back EXCEPT ![r] = "none"]
    /\ IF front[r] = "wait" THEN Answer(r, reply[r]) ELSE UNCHANGED <<front, answer>>
    /\ UNCHANGED <<procVars, req, counted, reply, runs, cut, faults>>

\* WriteTimeout has passed when the handler is done: the connection is closed.
RespondTooLate(r) ==
    /\ back[r] = "reply" /\ Fault
    /\ back' = [back EXCEPT ![r] = "none"]
    /\ cut' = cut \cup {r}
    /\ UNCHANGED <<procVars, req, front, counted, reply, answer, runs>>

\* The caller is gone: the request's context is cancelled and its statements fail.
Abandon(r) ==
    /\ front[r] = "over" /\ back[r] \in {"arrived", "handler"}
    /\ back' = [back EXCEPT ![r] = "none"]
    /\ UNCHANGED <<procVars, req, front, counted, reply, answer, runs, cut, faults>>

-----------------------------------------------------------------------------
(* Processes. *)

\* The requests a process is serving.
Active(p) ==
    IF p = "gateway"
    THEN {r \in Req : req[r].port = p /\ front[r] \notin {"idle", "over"}}
    ELSE {r \in Req : Home(req[r]) = p /\ back[r] # "none"}

\* The process ends and its connections with it.
End(p) ==
    /\ proc' = [proc EXCEPT ![p] = "down"]
    /\ cut' = cut \cup Active(p)
    /\ IF p = "gateway"
       THEN /\ front' = [r \in Req |-> IF r \in Active(p) THEN "over" ELSE front[r]]
            /\ answer' = [r \in Req |-> IF r \in Active(p) THEN "closed" ELSE answer[r]]
            /\ UNCHANGED back
       ELSE /\ back' = [r \in Req |-> IF r \in Active(p) THEN "none" ELSE back[r]]
            /\ UNCHANGED <<front, answer>>
    /\ UNCHANGED <<redis, limiting, lapse, req, counted, reply, runs>>

\* SIGTERM: Shutdown closes the listeners and the idle connections.
Signal(p) ==
    /\ proc[p] = "up" /\ stops < MaxStops
    /\ proc' = [proc EXCEPT ![p] = "draining"]
    /\ stops' = stops + 1
    /\ UNCHANGED <<redis, limiting, lapse, req, front, back, counted, reply, answer, runs, cut,
                   faults>>

\* Mutant: main returns as soon as the listener is closed.
StopAtOnce(p) ==
    /\ proc[p] = "draining"
    /\ proc' = [proc EXCEPT ![p] = "down"]
    /\ IF p = "gateway"
       THEN /\ front' = [r \in Req |-> IF r \in Active(p) THEN "over" ELSE front[r]]
            /\ UNCHANGED back
       ELSE /\ back' = [r \in Req |-> IF r \in Active(p) THEN "none" ELSE back[r]]
            /\ UNCHANGED front
    /\ UNCHANGED <<redis, limiting, lapse, stops, req, counted, reply, answer, runs, cut, faults>>

\* Shutdown returns when the last request has been answered, and main with it.
Stop(p) ==
    /\ proc[p] = "draining" /\ Active(p) = {}
    /\ proc' = [proc EXCEPT ![p] = "down"]
    /\ UNCHANGED <<redis, limiting, lapse, stops, req, front, back, counted, reply, answer, runs,
                   cut, faults>>

\* The time Shutdown is given is over.
DrainTimeout(p) == proc[p] = "draining" /\ Active(p) # {} /\ Fault /\ End(p) /\ UNCHANGED stops

Crash(p) == proc[p] = "up" /\ Fault /\ End(p) /\ UNCHANGED stops

\* Mutant: the limiter stays as the process before had it.
StartAsBefore(p) ==
    /\ proc[p] = "down"
    /\ proc' = [proc EXCEPT ![p] = "up"]
    /\ lapse' = IF p = "gateway" THEN ~redis ELSE lapse
    /\ UNCHANGED <<redis, limiting, stops, req, front, back, counted, reply, answer, runs, cut,
                   faults>>

\* A process is started again.  The gateway has the rate limiter for as long as it
\* runs if Redis answers a ping now; the risk engine does not start without Redis.
Start(p) ==
    /\ proc[p] = "down" /\ (p = "risk" => redis)
    /\ proc' = [proc EXCEPT ![p] = "up"]
    /\ limiting' = IF p = "gateway" THEN redis ELSE limiting
    /\ lapse' = IF p = "gateway" THEN ~redis ELSE lapse
    /\ UNCHANGED <<redis, stops, req, front, back, counted, reply, answer, runs, cut, faults>>

RedisFails ==
    /\ redis /\ Fault
    /\ redis' = FALSE
    /\ lapse' = TRUE
    /\ UNCHANGED <<proc, limiting, stops, req, front, back, counted, reply, answer, runs, cut>>

RedisReturns ==
    /\ ~redis
    /\ redis' = TRUE
    /\ UNCHANGED <<proc, limiting, lapse, stops, req, front, back, counted, reply, answer, runs,
                   cut, faults>>

-----------------------------------------------------------------------------
\* What a process does with a request.
Serve(r) ==
    \/ Limit(r) \/ Route(r) \/ Forward(r) \/ Lost(r)
    \/ Dispatch(r) \/ Handle(r) \/ Respond(r)

\* Every request has been made and is over.
Rest == (\A r \in Req : front[r] = "over" /\ back[r] = "none") /\ UNCHANGED vars

Next ==
    \/ \E r \in Req : Connect(r) \/ Serve(r) \/ RespondTooLate(r) \/ Abandon(r)
    \/ \E p \in Process : Signal(p) \/ Stop(p) \/ DrainTimeout(p) \/ Crash(p) \/ Start(p)
    \/ RedisFails \/ RedisReturns
    \/ Rest

\* Processes that run go on with what they serve: handlers end, as their statements
\* do.  (The proxies have no time limit: they wait for a handler that never ends for
\* as long as it takes.)  A process that is draining and one that is down move on
\* (restart: always).  Nothing is assumed of clients, of Redis or of timeouts.
Fairness ==
    /\ \A r \in Req : WF_vars(Serve(r))
    /\ \A p \in Process : WF_vars(Stop(p)) /\ WF_vars(Start(p))

Spec == Init /\ [][Next]_vars /\ Fairness

-----------------------------------------------------------------------------
(* Properties. *)

\* Every variable has its type, only requests to the gateway are counted, and a
\* service works only for somebody who waits or has gone (proxy.go:33-47).
TypeOK ==
    /\ proc \in [Process -> {"up", "draining", "down"}]
    /\ redis \in BOOLEAN /\ limiting \in BOOLEAN /\ lapse \in BOOLEAN
    /\ req \in [Req -> Request]
    /\ front \in [Req -> {"idle", "limit", "route", "proxy", "wait", "over"}]
    /\ back \in [Req -> {"none", "arrived", "handler", "reply"}]
    /\ \A r \in Req : back[r] # "none" => front[r] \in {"wait", "over"}
    /\ counted \in SUBSET {r \in Req : req[r].port = "gateway" /\ front[r] # "idle"}
    /\ reply \in [Req -> {"none", "handled", "notFound", "badRequest", "unauthorized"}]
    /\ answer \in [Req -> {"none", "handled", "noContent", "notFound", "badRequest",
                           "unauthorized", "limited", "badGateway", "closed"}]
    /\ runs \in [Req -> Nat]
    /\ cut \in SUBSET Req
    /\ faults \in 0..MaxFaults /\ stops \in 0..MaxStops

\* What a service carried out its client is told, through any orderly restart of the
\* gateway and the service: the answer is lost only if a process died with the request
\* or the answer came too late (main.go:124-132 of the gateway, 110-121 of auth-service).
DrainedIsTold ==
    \A r \in Req \ cut : front[r] = "over" /\ runs[r] > 0 => answer[r] = "handled"

\* A proxied write is carried out at most once, however connections and processes
\* end; a read twice only if a process dropped it (proxy.go:44-47).
WritesRunOnce ==
    \A r \in Req : runs[r] > 1 => ~Writes(req[r]) /\ r \in cut

\* A service gets a request that was not counted only if Redis failed to answer at
\* some time since the gateway process started; counting is not lost for longer than
\* the process that found Redis missing (main.go:36-54).
UncountedOnlyInLapse ==
    \A r \in Req : back[r] # "none" /\ req[r].port = "gateway" /\ r \notin cut
        => r \in counted \/ lapse

\* A request with everything its endpoint asks for.
Complete(q) == q.tenant /\ q.token = "full" /\ ~q.options

\* The gateway's routes to the risk and the policy engine lead to their handlers
\* (main.go:83-109): nothing on the way answers in their place that a complete
\* request is wrong.  For the risk engine this is about its routes as written.
EnginesAreReached ==
    \A r \in Req :
        /\ Complete(req[r]) /\ Routed(req[r]) /\ req[r].port = "gateway"
        /\ Upstream(req[r]) \in {"risk", "policy"}
        => answer[r] \notin {"notFound", "badRequest", "unauthorized"}

\* "All endpoints are served through the API Gateway" (api-design.md:5).
EndpointsAreServed ==
    \A r \in Req :
        Complete(req[r]) /\ Routed(req[r]) /\ req[r].port = "gateway"
        => answer[r] # "notFound"

\* Every request that is taken is answered or its connection ends, even if Redis
\* never returns and a service with it (proxy.go:44-47), provided that handlers end.
EveryRequestEnds == \A r \in Req : front[r] # "idle" ~> front[r] = "over"
=============================================================================
