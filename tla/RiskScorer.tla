---------------------------- MODULE RiskScorer -----------------------------
(***************************************************************************)
(* The risk engine (services/risk-engine/app): RiskScorer.evaluate asks    *)
(* the database for five signals about a login, one query after another,   *)
(* and turns their weighted sum into an action.  AttackSimulator calls it  *)
(* with made-up users and counts what it would have stopped.               *)
(*                                                                         *)
(* One action is one query with the code up to the next one.  The engine   *)
(* only reads: the rows come from other programs and may appear between    *)
(* any two queries.  One tenant: every query is by tenant_id.              *)
(*                                                                         *)
(* The queries name columns that infra/migrations does not create, so      *)
(* schema says what the database at hand is like (see Schemas).            *)
(***************************************************************************)
EXTENDS Integers, FiniteSets, Sequences

CONSTANTS
    Evaluation,      \* calls of GET /risk/evaluate
    Simulator,       \* the call of POST /simulate/attack
    User, Address, Country, Place,
    SimUser,         \* a made-up user; its name is no UUID
    Fingerprint,     \* fingerprints of devices
    None,            \* NULL, or nothing given
    Logins, Histories, Registrations, \* rows of login_events, ip_history and devices
                     \* that other programs may insert
    Schemas,         \* [missing: queries whose columns do not exist,
                     \*  aware: created_at carries its time zone]
    Flight,          \* Flight[p][q]: hours from p to q at 900 km/h
    SuspiciousAfter, \* failed logins that make an address suspicious (10)
    StartHour, Step, \* hour of the day at time 0, hours in a tick
    MaxTime, MaxRows, MaxAttempts, MaxFaults, \* bounds
    MaxCalls         \* bound on the calls: they only read, and do not meet

Caller == Evaluation \cup {Simulator}

Query == {"suspicious", "seen", "usual", "usualEvents", "current",
          "currentEvents", "typical", "device", "last", "location",
          "locationEvents"}

ASSUME RiskConstants ==
    /\ Simulator \notin Evaluation /\ SimUser \notin User
    /\ None \notin User \cup Address \cup Country \cup Place \cup Fingerprint
    /\ Schemas \subseteq [missing : SUBSET Query, aware : BOOLEAN]
    /\ \A e \in Logins \cup Histories :
          e.country \in Country \cup {None} /\ e.place \in Place \cup {None} /\ e.at \in Nat
    /\ Registrations \subseteq User \X Fingerprint
    /\ Flight \in [Place -> [Place -> Nat]]
    /\ \A p \in Place : Flight[p][p] = 0
    /\ StartHour \in 0..23 /\ Step \in Nat \ {0}
    /\ {SuspiciousAfter, MaxTime, MaxRows, MaxAttempts, MaxFaults, MaxCalls}
         \subseteq Nat

VARIABLES
    schema, events, ipHistory, devices,  \* the database
    now,       \* the clock
    pc,        \* pc[c]: the query c is at
    request,   \* request[c]: what is asked
    signals,   \* signals[c]: the signals computed so far
    held,      \* held[c]: what an earlier query, or the clock, gave
    answer,    \* answer[c]: None, "error", or the signals answered with
    began,     \* began[c]: the tables when c was asked (history)
    sim,       \* the simulation and its counters
    faults     \* failed queries so far

tables == <<events, ipHistory, devices>>
vars == <<schema, tables, now, pc, request, signals, held, answer, began, sim, faults>>

-----------------------------------------------------------------------------
(* Signals, score and action. *)

NoSignals == [ip |-> 0, geo |-> 0, time |-> 0, device |-> 0, travel |-> 0]

\* Mutant: a failed evaluation is scored as an attack.
Alarm == [ip |-> 80, geo |-> 70, time |-> 50, device |-> 60, travel |-> 20]

Default == [ip |-> 40, geo |-> 30, time |-> 20, device |-> 30, travel |-> 20]

\* The weights are in hundredths; int() cuts the fraction off.
Score(s) ==
    (25 * s.ip + 25 * s.geo + 15 * s.time + 15 * s.device + 20 * s.travel) \div 100

\* Mutant: block already above 50.
Eager(n) == IF n <= 30 THEN <<"low", "allow">>
            ELSE IF n <= 50 THEN <<"medium", "allow">>
            ELSE <<"critical", "block">>

LevelAndAction(n) ==
    CASE n <= 30 -> <<"low", "allow">>
      [] n \in 31..50 -> <<"medium", "allow">>
      [] n \in 51..70 -> <<"high", "mfa_required">>
      [] OTHER -> <<"critical", "block">>

Level(s) == LevelAndAction(Score(s))[1]
Action(s) == LevelAndAction(Score(s))[2]

Hour(t) == (StartHour + Step * t) % 24
OffHours(h) == h < 6 \/ h >= 22

\* typical is the user's most frequent hour, None without a successful login.
\* The second half of the code's condition adds nothing to the first (and hours are
\* not taken around midnight: 23 is far from 1).
TimeRisk(h, typical) ==
    LET diff == IF h > typical THEN h - typical ELSE typical - h
    IN  IF typical = None \/ diff > 6 THEN 50 ELSE 5

GeoRisk(usual, current) ==
    CASE usual = None -> 20
      [] usual # None /\ current = None -> 30
      [] usual # None /\ current \notin {None, usual} -> 70
      [] OTHER -> 5

\* Mutant: the test for a time that has not moved on is gone.
TravelRisksNow(from, since, to) ==
    IF Step * (now - since) <= Flight[from][to] THEN {95} ELSE {0}

\* Two moments of one tick may be apart by anything, or by nothing.
TravelRisks(from, since, to) ==
    IF now = since
      THEN IF Flight[from][to] > 0 THEN {0, 95} ELSE {0}
      ELSE IF Step * (now - since) <= Flight[from][to] THEN {95} ELSE {0}

-----------------------------------------------------------------------------
(* What the queries return: the set of answers ORDER BY and LIMIT 1 admit. *)

Rows(t, P(_)) == {i \in DOMAIN t : P(t[i])}

\* Mutant: the address's successful logins count too.
AllLogins(a) == Cardinality(Rows(events, LAMBDA e : e.ip = a))

Failures(a) == Cardinality(Rows(events, LAMBDA e : e.ip = a /\ ~e.ok))

Seen(u, a) == Rows(events, LAMBDA e : e.user = u /\ e.ip = a) # {}

KnownDevice(u, f) == <<u, f>> \in devices

Latest(t, ids) == {i \in ids : \A j \in ids : t[j].at <= t[i].at}

\* SELECT country ... GROUP BY country ORDER BY COUNT(*) DESC LIMIT 1
UsualCountries(t, u) ==
    LET n(c) == Cardinality(Rows(t, LAMBDA e : e.user = u /\ e.country = c))
        known == {c \in Country : n(c) > 0}
    IN  IF known = {} THEN {None}
        ELSE {c \in known : \A d \in known : n(d) <= n(c)}

\* SELECT country ... ORDER BY created_at DESC LIMIT 1
CurrentCountries(t, a) ==
    LET ids == Rows(t, LAMBDA e : e.ip = a /\ e.country # None)
    IN  IF ids = {} THEN {None} ELSE {t[i].country : i \in Latest(t, ids)}

\* SELECT EXTRACT(HOUR ...) ... GROUP BY ... ORDER BY COUNT(*) DESC LIMIT 1
TypicalHours(u) ==
    LET n(h) == Cardinality(Rows(events,
                    LAMBDA e : e.user = u /\ e.ok /\ Hour(e.at) = h))
        known == {h \in 0..23 : n(h) > 0}
    IN  IF known = {} THEN {None}
        ELSE {h \in known : \A g \in known : n(g) <= n(h)}

\* SELECT latitude, longitude, created_at ... ORDER BY created_at DESC LIMIT 1
LastLogins(u) ==
    LET ids == Rows(events, LAMBDA e : e.user = u /\ e.place # None)
    IN  IF ids = {} THEN {None}
        ELSE {[place |-> events[i].place, at |-> events[i].at] :
                  i \in Latest(events, ids)}

Locations(t, a) ==
    LET ids == Rows(t, LAMBDA e : e.ip = a /\ e.place # None)
    IN  IF ids = {} THEN {None} ELSE {t[i].place : i \in Latest(t, ids)}

-----------------------------------------------------------------------------
Nothing == [kind |-> "none", signals |-> NoSignals]

Init ==
    /\ schema \in Schemas
    /\ events = <<>> /\ ipHistory = <<>> /\ devices = {}
    /\ now = 0
    /\ pc = [c \in Caller |-> "idle"]
    /\ request = [c \in Caller |-> None]
    /\ signals = [c \in Caller |-> NoSignals]
    /\ held = [c \in Caller |-> None]
    /\ answer = [c \in Caller |-> Nothing]
    /\ began = [c \in Caller |-> None]
    /\ sim = [attack |-> None, left |-> 0, blocked |-> 0, flagged |-> 0]
    /\ faults = 0

\* c goes on to query q with the signals s so far, remembering h.
Go(c, q, s, h) ==
    /\ pc' = [pc EXCEPT ![c] = q]
    /\ signals' = [signals EXCEPT ![c] = s]
    /\ held' = [held EXCEPT ![c] = h]
    /\ UNCHANGED <<schema, tables, now, request, answer, began, sim, faults>>

\* The end of evaluate: an answer of the given kind, or "error".  The simulator
\* counts what it would have stopped and takes the next attempt.
End(c, kind, s) ==
    /\ pc' = [pc EXCEPT ![c] = IF c = Simulator THEN "attempt" ELSE "done"]
    /\ signals' = [signals EXCEPT ![c] = NoSignals]
    /\ held' = [held EXCEPT ![c] = None]
    /\ answer' = [answer EXCEPT ![c] = [kind |-> kind, signals |-> s]]
    /\ IF c = Simulator /\ kind # "error"
         THEN sim' = [sim EXCEPT
                !.blocked = @ + (IF Action(s) = "block" THEN 1 ELSE 0),
                !.flagged = @ + (IF Level(s) \in {"high", "critical"} THEN 1 ELSE 0)]
         ELSE UNCHANGED sim
    /\ UNCHANGED <<schema, tables, now, request, began>>

Answered(c, s) == End(c, "computed", s) /\ UNCHANGED faults

\* The device signal needs no query when no fingerprint was sent.
ToDevice(c, s) ==
    IF request[c].device = None
      THEN Go(c, "last", [s EXCEPT !.device = 30], None)
      ELSE Go(c, "device", s, None)

\* The clock is read before the query for the user's typical hour, which is asked
\* in off-hours only.
ToTime(c, s) ==
    IF OffHours(Hour(now)) THEN Go(c, "typical", s, Hour(now))
                           ELSE ToDevice(c, [s EXCEPT !.time = 5])

ToGeo(c, ip) == Go(c, "usual", [signals[c] EXCEPT !.ip = ip], None)

AfterGeo(c, current) ==
    ToTime(c, [signals[c] EXCEPT !.geo = GeoRisk(held[c], current)])

\* datetime.utcnow() has no time zone: it cannot be subtracted from a created_at
\* that has one, and TypeError is not caught.
AfterLocation(c, to) ==
    IF held[c] = None \/ to = None THEN Answered(c, signals[c])
    ELSE IF schema.aware THEN End(c, "error", NoSignals) /\ UNCHANGED faults
    ELSE \E r \in TravelRisks(held[c].place, held[c].at, to) :
            Answered(c, [signals[c] EXCEPT !.travel = r])

-----------------------------------------------------------------------------
BindsUser == {"seen", "usual", "usualEvents", "typical", "device", "last"}

\* The database accepts the query c is at: its columns exist, and the user id it
\* binds is a UUID.
Accepted(c) ==
    /\ pc[c] \notin schema.missing
    /\ pc[c] \in BindsUser => request[c].user # SimUser

Runs(c, q) == pc[c] = q /\ Accepted(c)

CountFailures(c) ==
    /\ Runs(c, "suspicious")
    /\ IF Failures(request[c].address) > SuspiciousAfter
         THEN ToGeo(c, 80)
         ELSE Go(c, "seen", signals[c], None)

CheckSeen(c) ==
    /\ Runs(c, "seen")
    /\ ToGeo(c, IF Seen(request[c].user, request[c].address) THEN 10 ELSE 40)

\* ip_history first, then login_events, for the user's country and the address's.
UsualCountry(c) ==
    \/ /\ Runs(c, "usual")
       /\ \E k \in UsualCountries(ipHistory, request[c].user) :
             Go(c, IF k = None THEN "usualEvents" ELSE "current", signals[c], k)
    \/ /\ Runs(c, "usualEvents")
       /\ \E k \in UsualCountries(events, request[c].user) :
             Go(c, "current", signals[c], k)

CurrentCountry(c) ==
    \/ /\ Runs(c, "current")
       /\ \E k \in CurrentCountries(ipHistory, request[c].address) :
             IF k = None THEN Go(c, "currentEvents", signals[c], held[c])
                         ELSE AfterGeo(c, k)
    \/ /\ Runs(c, "currentEvents")
       /\ \E k \in CurrentCountries(events, request[c].address) : AfterGeo(c, k)

TypicalHour(c) ==
    /\ Runs(c, "typical")
    /\ \E h \in TypicalHours(request[c].user) :
          ToDevice(c, [signals[c] EXCEPT !.time = TimeRisk(held[c], h)])

CheckDevice(c) ==
    /\ Runs(c, "device")
    /\ LET known == KnownDevice(request[c].user, request[c].device)
       IN  Go(c, "last", [signals[c] EXCEPT !.device = IF known THEN 5 ELSE 60], None)

LastLogin(c) ==
    /\ Runs(c, "last")
    /\ \E l \in LastLogins(request[c].user) : Go(c, "location", signals[c], l)

CurrentLocation(c) ==
    \/ /\ Runs(c, "location")
       /\ \E p \in Locations(ipHistory, request[c].address) :
             IF p = None THEN Go(c, "locationEvents", signals[c], held[c])
                         ELSE AfterLocation(c, p)
    \/ /\ Runs(c, "locationEvents")
       /\ \E p \in Locations(events, request[c].address) : AfterLocation(c, p)

\* An error of the database, as a query it does not accept always is, is answered
\* with default signals; any other error (no connection, a timeout) is not caught.
QueryFails(c) ==
    /\ pc[c] \in Query
    /\ \/ ~Accepted(c) /\ End(c, "default", Default) /\ UNCHANGED faults
       \/ /\ faults < MaxFaults
          /\ faults' = faults + 1
          /\ End(c, "default", Default) \/ End(c, "error", NoSignals)

-----------------------------------------------------------------------------
Begin(c, u, a, d) ==
    /\ pc' = [pc EXCEPT ![c] = "suspicious"]
    /\ request' = [request EXCEPT ![c] = [user |-> u, address |-> a, device |-> d]]
    /\ began' = [began EXCEPT ![c] = [events |-> Len(events), devices |-> devices]]
    /\ UNCHANGED <<schema, tables, now, signals, held, answer, faults>>

MayCall(c) ==
    pc[c] = "idle" /\ Cardinality({d \in Caller : pc[d] # "idle"}) < MaxCalls

Ask(c) ==
    /\ c \in Evaluation /\ MayCall(c)
    /\ \E u \in User, a \in Address, d \in Fingerprint \cup {None} : Begin(c, u, a, d)
    /\ UNCHANGED sim

\* The attacks: credential_stuffing comes from several addresses, brute_force and
\* bot_signup from one, token_replay from several with one fingerprint.
Stuffing == [addresses : {Address}, device : {None}]
OneSource == [addresses : {{a} : a \in Address}, device : {None}]
Replay == [addresses : {Address}, device : Fingerprint]
Attacks == Stuffing \cup OneSource \cup Replay

Simulate ==
    /\ MayCall(Simulator)
    /\ pc' = [pc EXCEPT ![Simulator] = "attempt"]
    /\ \E k \in Attacks, n \in 0..MaxAttempts :
          sim' = [sim EXCEPT !.attack = k, !.left = n]
    /\ UNCHANGED <<schema, tables, now, request, signals, held, answer, began, faults>>

MoreAttempts == sim.left > 0

Attempt ==
    /\ pc[Simulator] = "attempt" /\ MoreAttempts
    /\ \E a \in sim.attack.addresses : Begin(Simulator, SimUser, a, sim.attack.device)
    /\ sim' = [sim EXCEPT !.left = @ - 1]

Report ==
    /\ pc[Simulator] = "attempt" /\ ~MoreAttempts
    /\ pc' = [pc EXCEPT ![Simulator] = "done"]
    /\ UNCHANGED <<schema, tables, now, request, signals, held, answer, began, sim, faults>>

\* Other programs write: a login, an address's history, a device.
Insert ==
    /\ Len(events) + Len(ipHistory) + Cardinality(devices) < MaxRows
    /\ \/ /\ \E e \in Logins : e.at = now /\ events' = Append(events, e)
          /\ UNCHANGED <<ipHistory, devices>>
       \/ /\ \E e \in Histories : e.at = now /\ ipHistory' = Append(ipHistory, e)
          /\ UNCHANGED <<events, devices>>
       \/ /\ \E d \in Registrations \ devices : devices' = devices \cup {d}
          /\ UNCHANGED <<events, ipHistory>>
    /\ UNCHANGED <<schema, now, pc, request, signals, held, answer, began, sim, faults>>

Tick ==
    /\ now < MaxTime
    /\ now' = now + 1
    /\ UNCHANGED <<schema, tables, pc, request, signals, held, answer, began, sim, faults>>

Rest ==
    /\ \A c \in Caller : pc[c] \in {"idle", "done"} /\ ~MayCall(c)
    /\ UNCHANGED vars

Evaluate(c) ==
    \/ CountFailures(c) \/ CheckSeen(c) \/ UsualCountry(c) \/ CurrentCountry(c)
    \/ TypicalHour(c) \/ CheckDevice(c) \/ LastLogin(c) \/ CurrentLocation(c)
    \/ QueryFails(c)

Next ==
    \/ \E c \in Caller : Ask(c) \/ Evaluate(c)
    \/ Simulate \/ Attempt \/ Report
    \/ Insert \/ Tick \/ Rest

Spec == Init /\ [][Next]_vars

-----------------------------------------------------------------------------
(* Properties. *)

Signals == [ip : {0, 10, 40, 80}, geo : {0, 5, 20, 30, 70}, time : {0, 5, 20, 50},
            device : {0, 5, 30, 60}, travel : {0, 20, 95}]

Request == [user : User \cup {SimUser}, address : Address, device : Fingerprint \cup {None}]

\* Every variable has its type; a caller without a request runs no query.
TypeOK ==
    /\ schema \in Schemas
    /\ events \in Seq(Logins) /\ ipHistory \in Seq(Histories)
    /\ \A t \in {events, ipHistory} : \A i \in DOMAIN t : t[i].at <= now
    /\ devices \subseteq Registrations
    /\ now \in 0..MaxTime
    /\ pc \in [Caller -> Query \cup {"idle", "attempt", "done"}]
    /\ \A c \in Caller : pc[c] \in Query => request[c] \in Request
    /\ signals \in [Caller -> Signals]
    /\ answer \in [Caller -> [kind : {"none", "computed", "default", "error"},
                              signals : Signals]]
    /\ sim.left \in 0..MaxAttempts
    /\ faults \in 0..MaxFaults

Scored(c) == answer[c].kind \in {"computed", "default"}

\* The call c has been answered, and asked nothing since.
Over(c) == pc[c] \notin Query

HasRows(u) == \E t \in {events, ipHistory} : \E i \in DOMAIN t : t[i].user = u

FailuresBefore(n, a) == Cardinality({i \in 1..n : events[i].ip = a /\ ~events[i].ok})

\* Nothing in the tables speaks for the caller's user or against its address, and it
\* sent no fingerprint.
Unknown(c) ==
    /\ ~HasRows(request[c].user) /\ request[c].device = None
    /\ FailuresBefore(Len(events), request[c].address) <= SuspiciousAfter

\* Who is not known is not suspected: a login without any record is a low risk at any
\* hour and whatever is recorded between the queries; and so is a call one of whose
\* queries failed, whatever the others had found by then
\* (risk_scorer.py:96-101, :397-400).
NoRecordIsLow ==
    \A c \in Caller :
        /\ Over(c) /\ Scored(c)
        /\ answer[c].kind = "default" \/ Unknown(c)
        => Level(answer[c].signals) = "low"

\* Nobody is blocked on one bad sign: a block takes an address with too many failed
\* logins, in another country than the user's, out of reach of the user's last
\* login, and a device the user did not have when the call began; and it takes
\* times without a zone (risk_scorer.py:103-110, :405).
BlockNeedsRecord ==
    \A c \in Caller : Over(c) /\ Scored(c) /\ Action(answer[c].signals) = "block" =>
        LET u == request[c].user
            a == request[c].address
        IN  /\ ~schema.aware
            /\ FailuresBefore(Len(events), a) > SuspiciousAfter
            /\ \E t, s \in {events, ipHistory} : \E i \in DOMAIN t, j \in DOMAIN s :
                  /\ t[i].user = u /\ s[j].ip = a
                  /\ None \notin {t[i].country, s[j].country}
                  /\ t[i].country # s[j].country
            /\ \E s \in {events, ipHistory} : \E i \in DOMAIN events, j \in DOMAIN s :
                  /\ events[i].user = u /\ s[j].ip = a
                  /\ None \notin {events[i].place, s[j].place}
                  /\ Flight[events[i].place][s[j].place] > 0
            /\ request[c].device # None
            /\ <<u, request[c].device>> \notin began[c].devices

\* The signal of an address is true of the call, however many logins are recorded
\* between its two queries: 80 of an address with too many failures, 40 of one that
\* had too few and that the user had not used when the call began, 10 of one that
\* had too few and that the user has used by now.  Failures are never forgotten
\* (risk_scorer.py:140-173).
IpSignalJustified ==
    \A c \in Caller : Over(c) /\ answer[c].kind = "computed" =>
        LET u == request[c].user
            a == request[c].address
            few == FailuresBefore(began[c].events, a) <= SuspiciousAfter
            used(n) == \E i \in 1..n : events[i].user = u /\ events[i].ip = a
        IN  CASE answer[c].signals.ip = 80 ->
                    FailuresBefore(Len(events), a) > SuspiciousAfter
              [] answer[c].signals.ip = 40 -> few /\ ~used(began[c].events)
              [] answer[c].signals.ip = 10 -> few /\ used(Len(events))
              [] OTHER -> FALSE

\* Everything recorded of u and of a is of one country and of one place.
AtHome(u, a) ==
    \A t, s \in {events, ipHistory} : \A i \in DOMAIN t, j \in DOMAIN s :
        (t[i].user = u \/ t[i].ip = a) /\ (s[j].user = u \/ s[j].ip = a) =>
            /\ None \in {t[i].country, s[j].country} \/ t[i].country = s[j].country
            /\ None \in {t[i].place, s[j].place} \/ t[i].place = s[j].place

\* A login as usual is a low risk at any hour and whatever is recorded meanwhile: an
\* address the user had used, a device the user had, one country, one place, no
\* suspicion (risk_scorer.py:399-400).
FamiliarIsLow ==
    \A c \in Caller : Over(c) /\ Scored(c) =>
        LET u == request[c].user
            a == request[c].address
        IN  /\ \E i \in 1..began[c].events : events[i].user = u /\ events[i].ip = a
            /\ <<u, request[c].device>> \in began[c].devices
            /\ AtHome(u, a)
            /\ FailuresBefore(Len(events), a) <= SuspiciousAfter
            => Level(answer[c].signals) = "low"
=============================================================================
