--------------------------- MODULE GatewayProofs ---------------------------
(***************************************************************************)
(* Proofs about Gateway for every number of requests, whatever they ask,   *)
(* and any number of stops, crashes, exhausted time limits and outages.    *)
(***************************************************************************)
EXTENDS Gateway, TLAPS

-----------------------------------------------------------------------------
(* The inductive invariant: TypeOK and what holds of a request in flight. *)

\* Only requests to the gateway are at its middleware or its proxies.
InGateway ==
    \A r \in Req : front[r] \in {"limit", "route", "proxy"} => req[r].port = "gateway"

\* Unless a process dropped the request, the caller waits exactly as long as the
\* service works.
InStep ==
    \A r \in Req \ cut : front[r] = "wait" <=> back[r] # "none"

\* What a service carried out is on its way to the client, or there.
Reported ==
    \A r \in Req \ cut : runs[r] > 0 =>
        \/ front[r] = "wait" /\ back[r] = "reply" /\ reply[r] = "handled"
        \/ front[r] = "over" /\ answer[r] = "handled"

\* A write that was carried out is not on its way to a handler again.
SentOnce ==
    \A r \in Req : Writes(req[r]) /\ runs[r] > 0 =>
        back[r] \in {"reply", "none"} /\ front[r] \in {"wait", "over"}

\* A gateway that is down serves nobody.
DownIsEmpty == proc["gateway"] = "down" => Active("gateway") = {}

\* A gateway without the limiter, and an outage of Redis, belong to a lapse.
MissingIsLapse == (~redis \/ ~limiting) => lapse

\* Outside a lapse, what has passed the limiter was counted.
Counting ==
    \A r \in Req \ cut :
        req[r].port = "gateway" /\ front[r] \in {"route", "proxy", "wait"} =>
            r \in counted \/ lapse

\* A complete request to one of the engines.
ToEngine(q) ==
    Complete(q) /\ Routed(q) /\ q.port = "gateway" /\ Upstream(q) \in {"risk", "policy"}

Refusals == {"notFound", "badRequest", "unauthorized"}

Accepted ==
    \A r \in Req : ToEngine(req[r]) => reply[r] \notin Refusals /\ answer[r] \notin Refusals

IInv ==
    /\ TypeOK /\ InGateway /\ InStep /\ Reported /\ SentOnce /\ WritesRunOnce
    /\ DownIsEmpty /\ MissingIsLapse /\ Counting /\ Accepted

-----------------------------------------------------------------------------
\* It holds at the start, when no request is on its way.
LEMMA InitIInv == Init => IInv
  <1> SUFFICES ASSUME Init PROVE IInv
    OBVIOUS
  <1>1. req \in [Req -> Request]
    BY GatewayConstants DEF Init
  <1>2. TypeOK
    BY <1>1, GatewayConstants DEF Init, TypeOK
  <1>3. /\ InGateway /\ InStep /\ Reported /\ SentOnce /\ WritesRunOnce
        /\ MissingIsLapse /\ Counting /\ Accepted
    <2>1. InGateway /\ InStep /\ Reported /\ SentOnce /\ Counting
      BY DEF Init, InGateway, InStep, Reported, SentOnce, Counting
    <2>2. WritesRunOnce
      <3>1. \A r \in Req : runs[r] = 0
        BY DEF Init
      <3> QED
        BY <3>1 DEF WritesRunOnce
    <2>3. MissingIsLapse
      BY Zenon DEF Init, MissingIsLapse
    <2>4. Accepted
      BY DEF Init, Accepted, Refusals
    <2> QED
      BY <2>1, <2>2, <2>3, <2>4
  <1>4. DownIsEmpty
    BY DEF Init, DownIsEmpty, Active
  <1> QED
    BY <1>2, <1>3, <1>4 DEF IInv

\* Every step keeps the invariant.
LEMMA StepIInv == IInv /\ [Next]_vars => IInv'
  <1> SUFFICES ASSUME IInv, [Next]_vars PROVE IInv'
    OBVIOUS
  <1> USE DEF procVars, IInv, TypeOK, InGateway, InStep, Reported, SentOnce, WritesRunOnce,
          DownIsEmpty, Active, MissingIsLapse, Counting, Accepted, Refusals
  <1>1. ASSUME NEW r \in Req, Connect(r) PROVE IInv'
    BY <1>1 DEF Connect, Move, Answer
  <1>2. ASSUME NEW r \in Req, Limit(r) PROVE IInv'
    BY <1>2 DEF Limit, Move, Answer
  <1>3. ASSUME NEW r \in Req, Route(r) PROVE IInv'
    BY <1>3 DEF Route, Move, Answer, ToEngine, Complete, Routed, Upstream,
       LacksTenant, LacksToken
  <1>4. ASSUME NEW r \in Req, Forward(r) PROVE IInv'
    BY <1>4 DEF Forward, Move, Answer, ErrorHandler
  <1>5. ASSUME NEW r \in Req, Lost(r) PROVE IInv'
    BY <1>5 DEF Lost, Move, Answer, ErrorHandler, Resend
  <1>6. ASSUME NEW r \in Req, Dispatch(r) PROVE IInv'
    <2>1. ASSUME ToEngine(req[r])
          PROVE  ~WithoutTenant(req[r]) /\ ~WithoutClaims(req[r]) /\ Serves(Home(req[r]), req[r])
      BY <2>1 DEF ToEngine, Complete, Routed, Upstream, Home, WithoutTenant, WithoutClaims,
         Serves, RiskRoutes, PolicyRoutes
    <2> QED
      BY <1>6, <2>1 DEF Dispatch
  <1>7. ASSUME NEW r \in Req, Handle(r) PROVE IInv'
    BY <1>7 DEF Handle
  <1>8. ASSUME NEW r \in Req, Respond(r) PROVE IInv'
    BY <1>8 DEF Respond, Answer
  <1>9. ASSUME NEW r \in Req, RespondTooLate(r) PROVE IInv'
    BY <1>9, GatewayConstants DEF RespondTooLate, Fault
  <1>10. ASSUME NEW r \in Req, Abandon(r) PROVE IInv'
    BY <1>10 DEF Abandon
  <1>11. ASSUME NEW p \in Process, Signal(p) PROVE IInv'
    BY <1>11, GatewayConstants DEF Signal
  <1>12. ASSUME NEW p \in Process, Stop(p) PROVE IInv'
    BY <1>12 DEF Stop
  <1>13. ASSUME NEW p \in Process, DrainTimeout(p) PROVE IInv'
    BY <1>13, GatewayConstants DEF DrainTimeout, Fault, End
  <1>14. ASSUME NEW p \in Process, Crash(p) PROVE IInv'
    BY <1>14, GatewayConstants DEF Crash, Fault, End
  <1>15. ASSUME NEW p \in Process, Start(p) PROVE IInv'
    <2>1. CASE p = "gateway"
      <3>1. \A r \in Req : req[r].port = "gateway" => front[r] \in {"idle", "over"}
        BY <1>15, <2>1 DEF Start
      <3> QED
        BY <1>15, <2>1, <3>1 DEF Start
    <2>2. CASE p # "gateway"
      BY <1>15, <2>2 DEF Start
    <2> QED
      BY <2>1, <2>2
  <1>16. ASSUME RedisFails PROVE IInv'
    <2>1. MissingIsLapse' /\ lapse' = TRUE
      BY <1>16, Zenon DEF RedisFails
    <2>2. faults < MaxFaults /\ faults' = faults + 1 /\ redis' = FALSE
      BY <1>16, Zenon DEF RedisFails, Fault
    <2>3. faults' \in 0..MaxFaults
      BY <2>2, GatewayConstants
    <2>4. UNCHANGED <<proc, limiting, stops, req, front, back, counted, reply, answer, runs, cut>>
      BY <1>16, Zenon DEF RedisFails
    <2> QED
      BY <2>1, <2>2, <2>3, <2>4
  <1>17. ASSUME RedisReturns PROVE IInv'
    BY <1>17 DEF RedisReturns
  <1>18. ASSUME UNCHANGED vars PROVE IInv'
    BY <1>18 DEF vars
  <1> QED
    BY <1>1, <1>2, <1>3, <1>4, <1>5, <1>6, <1>7, <1>8, <1>9, <1>10, <1>11, <1>12, <1>13, <1>14, <1>15, <1>16, <1>17, <1>18
       DEF Next, Serve, Rest

-----------------------------------------------------------------------------
\* The invariant holds in every state of every behaviour.
THEOREM Invariant == Spec => []IInv
  <1>1. Spec => Init /\ [][Next]_vars
    BY DEF Spec
  <1> QED
    BY <1>1, InitIInv, StepIInv, PTL

\* Every variable has its type, and a service works only for somebody who waits or
\* has gone (proxy.go:33-47).
THEOREM TypeCorrect == Spec => []TypeOK
  <1>1. IInv => TypeOK
    BY DEF IInv
  <1> QED
    BY <1>1, Invariant, PTL

\* Through any number of orderly restarts, in whatever order, a client is told what a
\* service carried out for it (main.go:124-132).
THEOREM RestartsLoseNoAnswer == Spec => []DrainedIsTold
  <1>1. IInv => DrainedIsTold
    BY DEF IInv, TypeOK, Reported, DrainedIsTold
  <1> QED
    BY <1>1, Invariant, PTL

\* A proxied write is carried out at most once (proxy.go:44-47).
THEOREM NoWriteTwice == Spec => []WritesRunOnce
  <1>1. IInv => WritesRunOnce
    BY DEF IInv
  <1> QED
    BY <1>1, Invariant, PTL

\* Only a lapse of Redis lets a request reach a service uncounted (main.go:36-54).
THEOREM LimiterIsThere == Spec => []UncountedOnlyInLapse
  <1>1. IInv => UncountedOnlyInLapse
    BY DEF IInv, TypeOK, InStep, Counting, UncountedOnlyInLapse
  <1> QED
    BY <1>1, Invariant, PTL

\* A complete request to an engine is not refused on the way (main.go:83-109); for the
\* risk engine, whose risk.py as committed does not parse, by its routes as written.
THEOREM EnginesReached == Spec => []EnginesAreReached
  <1>1. IInv => EnginesAreReached
    BY DEF IInv, Accepted, ToEngine, Refusals, EnginesAreReached
  <1> QED
    BY <1>1, Invariant, PTL
=============================================================================
