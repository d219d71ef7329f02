---------------------------- MODULE RateLimiter ----------------------------
(***************************************************************************)
(* The rate limiter of api-gateway (internal/middleware/ratelimit.go): a   *)
(* request takes the number of the running minute once, counts itself in   *)
(* Redis under its address and then under its tenant, and is let through   *)
(* when neither count is over its limit, or when Redis gives no answer.    *)
(*                                                                         *)
(* The gateways share nothing but the counters.  A counter has the minute  *)
(* in its name and is dropped by Redis some time after its last INCR.      *)
(*                                                                         *)
(* An address is what the counter is named by: the first entry of          *)
(* X-Forwarded-For, or ip:port of the connection where there is none.      *)
(***************************************************************************)
EXTENDS Naturals, FiniteSets

CONSTANTS
    Req,          \* requests
    Addr, Tenant, \* what the counters are named by
    NoTenant,     \* the request has no X-Tenant-ID header
    IpLimit, TenantLimit,
    Window,       \* clock ticks in a minute
    Ttl,          \* ticks a counter lives after its last INCR (90 seconds)
    MaxDelay,     \* ticks between taking the minute and the last INCR
    LastArrival,  \* bound on the arrivals
    MaxTime,      \* bound on the clock
    MaxFaults     \* bound on failed exchanges with Redis

\* The two kinds of keys have different prefixes.  A request that takes longer
\* than the 30 seconds by which a counter outlives its minute could find it gone.
ASSUME LimiterConstants ==
    /\ IsFiniteSet(Req)
    /\ Addr \cap Tenant = {} /\ NoTenant \notin Addr \cup Tenant
    /\ {IpLimit, TenantLimit, Window, Ttl, MaxDelay, LastArrival, MaxTime,
        MaxFaults} \subseteq Nat
    /\ Window > 0
    /\ Window + MaxDelay <= Ttl

VARIABLES
    now,        \* the clock
    pc,         \* pc[r]: the check r is at, or how it ended
    addr,       \* addr[r], tenant[r]: the counters r is counted under
    tenant,
    at,         \* at[r]: when r took the minute
    counted,    \* counted[r]: the checks r passed on an answer of Redis
    count,      \* count[k]: the value of counter k; 0 if there is no such key
    expires,    \* expires[k]: when Redis drops k
    faults      \* failed exchanges so far

vars == <<now, pc, addr, tenant, at, counted, count, expires, faults>>

Minutes == 0 .. MaxTime \div Window
Key == (Addr \cup Tenant) \X Minutes
Never == MaxTime + Ttl + 1

Init ==
    /\ now = 0
    /\ pc = [r \in Req |-> "idle"]
    /\ addr \in [Req -> Addr]
    /\ tenant \in [Req -> Tenant \cup {NoTenant}]
    /\ at = [r \in Req |-> 0]
    /\ counted = [r \in Req |-> {}]
    /\ count = [k \in Key |-> 0]
    /\ expires = [k \in Key |-> 0]
    /\ faults = 0

-----------------------------------------------------------------------------
Minute(r) == at[r] \div Window
Checking(r) == pc[r] \in {"ip", "tenant"}

KeyOf(r) == <<IF pc[r] = "ip" THEN addr[r] ELSE tenant[r], Minute(r)>>
Limit(k) == IF k[1] \in Addr THEN IpLimit ELSE TenantLimit

\* Where r goes when a check lets it pass.
Onward(r) == IF pc[r] = "ip" /\ tenant[r] # NoTenant THEN "tenant" ELSE "admitted"

\* Mutant: a request over its address's limit goes on to the tenant's counter.
NoReturn(r) == Onward(r)

\* Where r goes when a check stops it.
Stopped(r) == IF pc[r] = "ip" THEN "ip_rejected" ELSE "tenant_rejected"

\* Mutants: the counter lives one minute; the comparison is strict.
ExpireWithWindow == now + Window
Below(k) == count[k] + 1 < Limit(k)

ExpireTime == now + Ttl
Within(k) == count[k] + 1 <= Limit(k)

\* The first command of the pipeline alone: a new counter never expires.
IncrOnly(k) ==
    /\ count' = [count EXCEPT ![k] = @ + 1]
    /\ expires' = [expires EXCEPT ![k] = IF count[k] = 0 THEN Never ELSE @]

\* The pipeline: INCR, then EXPIRE.
IncrExpire(k) ==
    /\ count' = [count EXCEPT ![k] = @ + 1]
    /\ expires' = [expires EXCEPT ![k] = ExpireTime]

Goto(r, l) == pc' = [pc EXCEPT ![r] = l]

-----------------------------------------------------------------------------
Arrive(r) ==
    /\ pc[r] = "idle" /\ now <= LastArrival
    /\ at' = [at EXCEPT ![r] = now]
    /\ Goto(r, "ip")
    /\ UNCHANGED <<now, addr, tenant, counted, count, expires, faults>>

\* checkLimit, first for the address, then for the tenant if there is one.
CheckLimit(r) ==
    /\ Checking(r)
    /\ IncrExpire(KeyOf(r))
    /\ IF Within(KeyOf(r))
         THEN /\ Goto(r, Onward(r))
              /\ counted' = [counted EXCEPT ![r] = @ \cup {pc[r]}]
         ELSE Goto(r, Stopped(r)) /\ UNCHANGED counted
    /\ UNCHANGED <<now, addr, tenant, at, faults>>

\* The exchange fails: Redis has run both commands, the first, or none.  The
\* client library sends the pipeline again, or reports the error and the request
\* passes.
ExchangeFails(r) ==
    /\ Checking(r) /\ faults < MaxFaults
    /\ faults' = faults + 1
    /\ \/ IncrExpire(KeyOf(r))
       \/ IncrOnly(KeyOf(r))
       \/ UNCHANGED <<count, expires>>
    /\ \/ Goto(r, Onward(r))
       \/ UNCHANGED pc
    /\ UNCHANGED <<now, addr, tenant, at, counted>>

\* Time passes, as far as the requests under way let it, and Redis drops the
\* counters that have expired.
Tick ==
    /\ now < MaxTime
    /\ \A r \in Req : Checking(r) => now < at[r] + MaxDelay
    /\ now' = now + 1
    /\ count' = [k \in Key |-> IF expires[k] <= now' THEN 0 ELSE count[k]]
    /\ UNCHANGED <<pc, addr, tenant, at, counted, expires, faults>>

Rest == now = MaxTime /\ (\A r \in Req : ~Checking(r)) /\ UNCHANGED vars

Next ==
    \/ \E r \in Req : Arrive(r) \/ CheckLimit(r) \/ ExchangeFails(r)
    \/ Tick
    \/ Rest

Spec == Init /\ [][Next]_vars

-----------------------------------------------------------------------------
(* Properties. *)

\* Every variable has its type; a counter that exists has a time to go.
TypeOK ==
    /\ now \in 0..MaxTime
    /\ pc \in [Req -> {"idle", "ip", "tenant", "admitted", "ip_rejected",
                       "tenant_rejected"}]
    /\ addr \in [Req -> Addr]
    /\ tenant \in [Req -> Tenant \cup {NoTenant}]
    /\ at \in [Req -> 0..MaxTime]
    /\ counted \in [Req -> SUBSET {"ip", "tenant"}]
    /\ count \in [Key -> Nat]
    /\ expires \in [Key -> 0..Never]
    /\ faults \in 0..MaxFaults
    /\ \A k \in Key : count[k] > 0 => expires[k] > now

\* No more requests than the limit pass a counter on an answer of Redis, however
\* late their INCRs arrive after the minute in the counter's name is over: the
\* 90 seconds of rateLimitWindowSecs keep it until the last of them
\* (ratelimit.go:17, :43-61).
WindowCap ==
    \A m \in Minutes :
        /\ \A a \in Addr :
              Cardinality({r \in Req : /\ addr[r] = a /\ Minute(r) = m
                                       /\ "ip" \in counted[r]}) <= IpLimit
        /\ \A t \in Tenant :
              Cardinality({r \in Req : /\ tenant[r] = t /\ Minute(r) = m
                                       /\ "tenant" \in counted[r]}) <= TenantLimit

\* Nobody is refused early: a request is stopped only when as many others of its
\* address, or tenant, were counted in the same minute as the limit allows, where
\* a failed exchange may have counted one of them twice (ratelimit.go:72-82).
NoEarlyRejection ==
    \A r \in Req :
        /\ pc[r] = "ip_rejected" =>
              IpLimit <= faults + Cardinality(
                {s \in Req \ {r} : /\ addr[s] = addr[r] /\ Minute(s) = Minute(r)
                                   /\ pc[s] \notin {"idle", "ip"}})
        /\ pc[r] = "tenant_rejected" =>
              TenantLimit <= faults + Cardinality(
                {s \in Req \ {r} : /\ tenant[s] = tenant[r] /\ Minute(s) = Minute(r)
                                   /\ pc[s] \in {"admitted", "tenant_rejected"}})

\* One address cannot use up a tenant's minute: what it takes of it is bounded by
\* its own limit, because its counter is asked first and stops it there
\* (ratelimit.go:45-51 before :54-63).
AddressCannotExhaustTenant ==
    \A a \in Addr, t \in Tenant, m \in Minutes :
        Cardinality({r \in Req : /\ addr[r] = a /\ tenant[r] = t /\ Minute(r) = m
                                 /\ pc[r] \in {"tenant", "admitted", "tenant_rejected"}})
            <= IpLimit + faults

\* Counters that are there although their last request and their time are past.
Overdue ==
    {k \in Key : count[k] > 0 /\ now >= Window * (k[2] + 1) + MaxDelay + Ttl - 1}

\* Redis does not fill up with counters of past minutes: one outlives its minute by
\* the delay of its last request and its time to live.  An INCR whose EXPIRE was lost
\* leaves one counter for good, if no later request of the minute sets its time; so
\* there are never more of those than exchanges failed (ratelimit.go:72-82).
CountersVanish == Cardinality(Overdue) <= faults
=============================================================================
