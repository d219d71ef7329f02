-------------------------- MODULE RiskScorerProofs --------------------------
(***************************************************************************)
(* Theorems about RiskScorer, for every set of callers, whatever rows      *)
(* other programs insert between the queries of an evaluation, and every   *)
(* bound.  The tables only grow; so what a query found stays true of them, *)
(* and each signal rests on what its queries found.                        *)
(***************************************************************************)
EXTENDS RiskScorer, TLAPS, FiniteSetTheorems, SequenceTheorems

-----------------------------------------------------------------------------
(* What a signal says of the tables. *)

\* A row of u names a country, and a row of a another one.
TwoCountries(u, a) ==
    \E t, s \in {events, ipHistory} : \E i \in DOMAIN t, j \in DOMAIN s :
        /\ t[i].user = u /\ s[j].ip = a
        /\ None \notin {t[i].country, s[j].country}
        /\ t[i].country # s[j].country

\* A login of u and a row of a name places that are apart.
TwoPlaces(u, a) ==
    \E s \in {events, ipHistory} : \E i \in DOMAIN events, j \in DOMAIN s :
        /\ events[i].user = u /\ s[j].ip = a
        /\ None \notin {events[i].place, s[j].place}
        /\ Flight[events[i].place][s[j].place] > 0

\* u logged in from a among the first n events.
Used(n, u, a) == \E i \in 1..n : events[i].user = u /\ events[i].ip = a

\* The call c was made when the tables had no more rows than now.
Started(c) ==
    /\ request[c] \in Request
    /\ began[c].events \in 0..Len(events)
    /\ began[c].devices \subseteq devices

\* The address of the call had few failures when it began.
FewFailures(c) == FailuresBefore(began[c].events, request[c].address) <= SuspiciousAfter

IpTrue(c, x) ==
    LET u == request[c].user
        a == request[c].address
    IN  \/ x = 80 /\ FailuresBefore(Len(events), a) > SuspiciousAfter
        \/ x = 40 /\ FewFailures(c) /\ ~Used(began[c].events, u, a)
        \/ x = 10 /\ FewFailures(c) /\ Used(Len(events), u, a)

GeoTrue(c, x) ==
    /\ x \in {5, 20, 30, 70}
    /\ x # 20 => HasRows(request[c].user)
    /\ x = 70 => TwoCountries(request[c].user, request[c].address)

DeviceTrue(c, x) ==
    \/ x = 5
    \/ x = 30 /\ request[c].device = None
    \/ /\ x = 60 /\ request[c].device # None
       /\ <<request[c].user, request[c].device>> \notin began[c].devices

TravelTrue(c, x) ==
    \/ x = 0
    \/ x = 95 /\ ~schema.aware /\ TwoPlaces(request[c].user, request[c].address)

-----------------------------------------------------------------------------
(* The inductive invariant. *)

PastIp == Query \ {"suspicious", "seen"}
PastGeo == {"typical", "device", "last", "location", "locationEvents"}
PastDevice == {"last", "location", "locationEvents"}

\* What is true of a call at query q with the signals s, remembering h.
Fits(c, q, s, h) ==
    /\ q \in Query /\ s \in Signals /\ s.travel = 0
    /\ Started(c)
    /\ q = "seen" => FewFailures(c)
    /\ q \in PastIp => IpTrue(c, s.ip)
    /\ q \in {"current", "currentEvents"} => h = None \/
          \E t \in {events, ipHistory} : \E i \in DOMAIN t :
              t[i].user = request[c].user /\ t[i].country = h
    /\ q \in PastGeo => GeoTrue(c, s.geo)
    /\ q = "device" => request[c].device # None
    /\ q \in PastDevice => DeviceTrue(c, s.device)
    /\ q \in {"location", "locationEvents"} => h = None \/
          \E i \in DOMAIN events :
              /\ events[i].user = request[c].user
              /\ events[i].place # None
              /\ h.place = events[i].place /\ h.at = events[i].at

\* What is true of a call that was answered with the signals s.
Justified(c, s) ==
    /\ s \in Signals
    /\ Started(c)
    /\ IpTrue(c, s.ip) /\ GeoTrue(c, s.geo) /\ DeviceTrue(c, s.device) /\ TravelTrue(c, s.travel)

\* A call that asks has found what its signals say, and so had one whose answer was
\* computed; the other answers are fixed.
Sound(c) ==
    /\ pc[c] \in Query => Fits(c, pc[c], signals[c], held[c])
    /\ pc[c] \notin Query => signals[c] = NoSignals
    /\ pc[c] \notin Query /\ answer[c].kind = "computed" => Justified(c, answer[c].signals)
    /\ answer[c].kind = "default" => answer[c].signals = Default

\* The user of a simulation never gets past the first query that binds it, and nobody
\* else is that user.
Simulated ==
    /\ pc[Simulator] \in Query =>
          request[Simulator].user = SimUser /\ pc[Simulator] \in {"suspicious", "seen", "usual"}
    /\ answer[Simulator].kind # "computed"

\* The state that no signal rests on.
Shape ==
    /\ request \in [Caller -> Request \cup {None}]
    /\ held = [c \in Caller |-> held[c]]
    /\ began \in [Caller -> [events : Nat, devices : SUBSET Registrations] \cup {None}]
    /\ sim \in [attack : Attacks \cup {None}, left : 0..MaxAttempts,
               blocked : Nat, flagged : Nat]
    /\ pc[Simulator] \notin {"idle", "done"} => sim.attack \in Attacks
    /\ \A c \in Evaluation : pc[c] # "attempt" /\ (pc[c] = "idle" => answer[c].kind = "none")

IInv == TypeOK /\ Shape /\ Simulated /\ \A c \in Caller : Sound(c)

-----------------------------------------------------------------------------
(* Scores. *)

\* A score is the weighted sum of the signals, cut off.
LEMMA ScoreBounds ==
    ASSUME NEW s \in Signals
    PROVE  LET w == 25 * s.ip + 25 * s.geo + 15 * s.time + 15 * s.device + 20 * s.travel
           IN  Score(s) \in Nat /\ 100 * Score(s) <= w /\ w < 100 * Score(s) + 100
  BY DEF Signals, Score

\* The four levels and their bounds (risk_scorer.py:397-405).
LEMMA Levels ==
    ASSUME NEW n \in Nat
    PROVE  /\ n <= 30 => LevelAndAction(n) = <<"low", "allow">>
           /\ n > 30 /\ n <= 50 => LevelAndAction(n) = <<"medium", "allow">>
           /\ n > 50 /\ n <= 70 => LevelAndAction(n) = <<"high", "mfa_required">>
           /\ n > 70 => LevelAndAction(n) = <<"critical", "block">>
  <1>1. /\ n \in 31..50 <=> n > 30 /\ n <= 50
        /\ n \in 51..70 <=> n > 50 /\ n <= 70
    OBVIOUS
  <1>2. /\ ~(n <= 30 /\ n > 30) /\ ~(n <= 50 /\ n > 50) /\ ~(n <= 70 /\ n > 70)
        /\ (n <= 30 => n <= 50) /\ (n <= 50 => n <= 70)
    OBVIOUS
  <1>3. CASE n <= 30
    BY <1>1, <1>2, <1>3, Zenon DEF LevelAndAction
  <1>4. CASE n > 30 /\ n <= 50
    BY <1>1, <1>2, <1>4, Zenon DEF LevelAndAction
  <1>5. CASE n > 50 /\ n <= 70
    BY <1>1, <1>2, <1>5, Zenon DEF LevelAndAction
  <1>6. CASE n > 70
    BY <1>1, <1>2, <1>6, Zenon DEF LevelAndAction
  <1> QED
    BY <1>3, <1>4, <1>5, <1>6

\* What the levels and actions say of the score.
LEMMA Bounds ==
    ASSUME NEW s \in Signals
    PROVE  /\ Score(s) <= 30 => Level(s) = "low"
           /\ Score(s) <= 50 => Action(s) = "allow" /\ Level(s) \notin {"high", "critical"}
           /\ Action(s) = "block" => Score(s) > 70
  BY Levels, ScoreBounds DEF Level, Action

\* Neither other bad signs without a history and a journey, nor the hour of a login as
\* usual, weigh enough (risk_scorer.py:103-110).
LEMMA UnremarkableScore ==
    ASSUME NEW s \in Signals
    PROVE  /\ s.ip \in {10, 40} /\ s.geo = 20 /\ s.device \in {5, 30} /\ s.travel = 0 =>
                Score(s) <= 30
           /\ s.ip = 10 /\ s.geo \in {5, 20, 30} /\ s.device = 5 /\ s.travel = 0 => Score(s) <= 30
  <1> DEFINE Weighs(i, g, t, d, v, n) == 100 * n <= 25 * i + 25 * g + 15 * t + 15 * d + 20 * v
  <1>1. ASSUME NEW i \in 0..80, NEW g \in 0..70, NEW t \in 0..50, NEW d \in 0..60, NEW v \in 0..95,
               NEW n \in Nat, Weighs(i, g, t, d, v, n)
        PROVE  /\ i <= 40 /\ t <= 50 /\ g = 20 /\ d <= 30 /\ v = 0 => n <= 30
               /\ i = 10 /\ g <= 30 /\ d = 5 /\ v = 0 => n <= 30
    BY <1>1
  <1>2. /\ s.ip \in 0..80 /\ s.geo \in 0..70 /\ s.time \in 0..50 /\ s.device \in 0..60
        /\ s.travel \in 0..95
    BY DEF Signals
  <1>3. Score(s) \in Nat /\ Weighs(s.ip, s.geo, s.time, s.device, s.travel, Score(s))
    BY ScoreBounds
  <1> HIDE DEF Weighs
  <1>4. /\ s.geo \in {5, 20, 30} => s.geo <= 30
        /\ s.ip \in {10, 40} => s.ip <= 40
        /\ s.device \in {5, 30} => s.device <= 30
        /\ s.time <= 50
    BY <1>2
  <1>5. /\ s.ip <= 40 /\ s.time <= 50 /\ s.geo = 20 /\ s.device <= 30 /\ s.travel = 0 =>
              Score(s) <= 30
        /\ s.ip = 10 /\ s.geo <= 30 /\ s.device = 5 /\ s.travel = 0 => Score(s) <= 30
    BY <1>1, <1>2, <1>3, Zenon
  <1> QED
    BY <1>4, <1>5

\* The defaults are a low risk (risk_scorer.py:96-101).
LEMMA DefaultIsLow == Default \in Signals /\ Score(Default) <= 30
  <1>1. Default \in Signals
    BY DEF Default, Signals
  <1>2. 100 * Score(Default) <= 2900 /\ Score(Default) \in Nat
    BY <1>1, ScoreBounds DEF Default
  <1> QED
    BY <1>1, <1>2

-----------------------------------------------------------------------------
(* What the queries return. *)

\* Failures among more events are more.
LEMMA MoreFailures ==
    ASSUME NEW m \in Nat, NEW n \in Nat, m <= n, NEW a
    PROVE  /\ FailuresBefore(m, a) \in Nat /\ FailuresBefore(n, a) \in Nat
           /\ FailuresBefore(m, a) <= FailuresBefore(n, a)
  <1> DEFINE F(k) == {i \in 1..k : events[i].ip = a /\ ~events[i].ok}
  <1>1. IsFiniteSet(F(n)) /\ F(m) \subseteq F(n)
    <2>1. IsFiniteSet(1..n) /\ F(n) \subseteq 1..n
      BY FS_Interval
    <2> QED
      BY <2>1, FS_Subset
  <1>2. /\ Cardinality(F(m)) \in Nat /\ Cardinality(F(n)) \in Nat
        /\ Cardinality(F(m)) <= Cardinality(F(n))
    BY <1>1, FS_Subset, FS_CardinalityType
  <1> QED
    BY <1>2 DEF FailuresBefore

\* The count of failed logins is that of all events (risk_scorer.py:146-155).
LEMMA AllFailures ==
    ASSUME NEW a, events \in Seq(Logins)
    PROVE  Failures(a) = FailuresBefore(Len(events), a)
  <1>1. DOMAIN events = 1..Len(events)
    OBVIOUS
  <1> QED
    BY <1>1 DEF Failures, Rows, FailuresBefore

\* A user who was seen logged in from the address (risk_scorer.py:160-170).
LEMMA SeenIsUsed ==
    ASSUME NEW u, NEW a, events \in Seq(Logins)
    PROVE  Seen(u, a) <=> Used(Len(events), u, a)
  <1>1. DOMAIN events = 1..Len(events)
    OBVIOUS
  <1> QED
    BY <1>1 DEF Seen, Rows, Used

\* A usual country is that of a row of the user (risk_scorer.py:188-217).
LEMMA UsualIsOfRow ==
    ASSUME NEW t, NEW u, NEW k \in UsualCountries(t, u), k # None
    PROVE  \E i \in DOMAIN t : t[i].user = u /\ t[i].country = k
  <1> DEFINE R == {i \in DOMAIN t : t[i].user = u /\ t[i].country = k}
  <1>1. Cardinality(R) > 0
    BY DEF UsualCountries, Rows
  <1>2. R # {}
    BY <1>1, FS_EmptySet
  <1> QED
    BY <1>2

\* So are the country and the place of an address (risk_scorer.py:219-241, :351-375).
LEMMA CurrentIsOfRow ==
    ASSUME NEW t, NEW a, NEW k, k # None
    PROVE  /\ k \in CurrentCountries(t, a) => \E i \in DOMAIN t : t[i].ip = a /\ t[i].country = k
           /\ k \in Locations(t, a) => \E i \in DOMAIN t : t[i].ip = a /\ t[i].place = k
  BY DEF CurrentCountries, Locations, Rows, Latest

\* The last login is an event of the user (risk_scorer.py:338-349).
LEMMA LastIsOfEvent ==
    ASSUME NEW u, NEW l \in LastLogins(u), l # None
    PROVE  \E i \in DOMAIN events :
               /\ events[i].user = u /\ events[i].place # None
               /\ l.place = events[i].place /\ l.at = events[i].at
  BY DEF LastLogins, Rows, Latest

\* A place out of reach is another place (geo.py:46-98).
LEMMA OutOfReach ==
    ASSUME NEW p \in Place, NEW q \in Place, NEW t \in Nat, now \in Nat, t <= now,
           NEW r \in TravelRisks(p, t, q)
    PROVE  r \in {0, 95} /\ (r = 95 => Flight[p][q] > 0)
  <1>1. Flight[p][q] \in Nat /\ Step \in Nat \ {0}
    BY RiskConstants
  <1>2. CASE now = t
    BY <1>1, <1>2 DEF TravelRisks
  <1>3. CASE now # t
    <2>1. now - t \in Nat \ {0}
      BY <1>3
    <2>2. \A m, n \in Nat \ {0} : m * n > 0
      OBVIOUS
    <2>3. r \in IF Step * (now - t) <= Flight[p][q] THEN {95} ELSE {0}
      BY <1>3 DEF TravelRisks
    <2> QED
      BY <1>1, <2>1, <2>2, <2>3
  <1> QED
    BY <1>2, <1>3

-----------------------------------------------------------------------------
(* The tables grow, and what was found in them stays true. *)

Grown ==
    /\ schema' = schema
    /\ \A i \in DOMAIN events : i \in DOMAIN events' /\ events'[i] = events[i]
    /\ \A i \in DOMAIN ipHistory : i \in DOMAIN ipHistory' /\ ipHistory'[i] = ipHistory[i]
    /\ Len(events) <= Len(events')
    /\ devices \subseteq devices'

\* Rows are appended, never changed or removed.
LEMMA Grows ==
    ASSUME TypeOK, [Next]_vars
    PROVE  Grown
  <1>1. CASE Insert
    <2>1. ASSUME NEW e \in Logins, events' = Append(events, e)
          PROVE  /\ \A i \in DOMAIN events : i \in DOMAIN events' /\ events'[i] = events[i]
                 /\ Len(events) <= Len(events')
      BY <2>1 DEF TypeOK
    <2>2. ASSUME NEW e \in Histories, ipHistory' = Append(ipHistory, e)
          PROVE  \A i \in DOMAIN ipHistory : i \in DOMAIN ipHistory' /\ ipHistory'[i] = ipHistory[i]
      BY <2>2 DEF TypeOK
    <2> QED
      BY <1>1, <2>1, <2>2 DEF Insert, Grown, TypeOK
  <1>2. CASE UNCHANGED <<schema, tables>>
    BY <1>2 DEF tables, Grown, TypeOK
  <1>3. ASSUME NEW c \in Caller, Evaluate(c) PROVE UNCHANGED <<schema, tables>>
    BY <1>3, Zenon DEF Evaluate, CountFailures, CheckSeen, UsualCountry, CurrentCountry, TypicalHour, CheckDevice,
           LastLogin, CurrentLocation, QueryFails, ToGeo, AfterGeo, ToTime, ToDevice, AfterLocation,
           Answered, Go, End
  <1> QED
    BY <1>1, <1>2, <1>3 DEF Next, vars, Ask, Begin, Simulate, Attempt, Report, Tick, Rest

\* c asks what it asked, of the same tables.
Kept(c) == request'[c] = request[c] /\ began'[c] = began[c]

\* What a call found stays true of it whatever is inserted.
LEMMA StillFound ==
    ASSUME Grown, TypeOK, TypeOK', NEW c \in Caller, Started(c), Kept(c)
    PROVE  /\ Started(c)'
           /\ FewFailures(c) => FewFailures(c)'
           /\ \A x : IpTrue(c, x) => IpTrue(c, x)'
           /\ \A x : GeoTrue(c, x) => GeoTrue(c, x)'
           /\ \A x : DeviceTrue(c, x) => DeviceTrue(c, x)'
           /\ \A x : TravelTrue(c, x) => TravelTrue(c, x)'
  <1> DEFINE u == request[c].user
             a == request[c].address
             n == began[c].events
  <1>1. Len(events) \in Nat /\ Len(events') \in Nat /\ Len(events) <= Len(events')
    BY DEF Grown, TypeOK
  <1>2. n \in 0..Len(events)
    BY DEF Started
  <1>3. Started(c)'
    BY <1>1 DEF Started, Kept, Grown
  <1>4. \A i \in DOMAIN events : i \in DOMAIN events' /\ events'[i] = events[i]
    BY DEF Grown
  <1>5. DOMAIN events = 1..Len(events)
    BY DEF TypeOK
  <1>6. FewFailures(c) => FewFailures(c)'
    <2>1. {i \in 1..n : events[i].ip = a /\ ~events[i].ok} =
          {i \in 1..n' : events'[i].ip = a' /\ ~events'[i].ok}
      BY <1>1, <1>2, <1>4, <1>5 DEF Kept
    <2> QED
      BY <2>1 DEF FewFailures, FailuresBefore, Kept
  <1>7. Used(n, u, a) <=> Used(n, u, a)'
    BY <1>1, <1>2, <1>4, <1>5 DEF Used, Kept
  <1>8. Used(Len(events), u, a) => Used(Len(events), u, a)'
    BY <1>1, <1>4, <1>5 DEF Used, Kept
  <1>9. FailuresBefore(Len(events), a) > SuspiciousAfter =>
        FailuresBefore(Len(events), a)' > SuspiciousAfter
    <2> DEFINE Old == {i \in 1..Len(events) : events[i].ip = a /\ ~events[i].ok}
               New == {i \in 1..Len(events') : events'[i].ip = a' /\ ~events'[i].ok}
    <2>1. IsFiniteSet(New) /\ Old \subseteq New
      <3>1. IsFiniteSet(1..Len(events')) /\ New \subseteq 1..Len(events')
        BY <1>1, FS_Interval
      <3> QED
        BY <1>1, <1>4, <1>5, <3>1, FS_Subset DEF Kept
    <2>2. /\ Cardinality(Old) <= Cardinality(New)
          /\ Cardinality(Old) \in Nat /\ Cardinality(New) \in Nat
      BY <2>1, FS_Subset, FS_CardinalityType
    <2> HIDE DEF Old, New
    <2>3. SuspiciousAfter \in Nat
      BY RiskConstants
    <2>4. Cardinality(Old) > SuspiciousAfter => Cardinality(New) > SuspiciousAfter
      BY <2>2, <2>3
    <2> QED
      BY <2>4 DEF FailuresBefore, Old, New
  <1>10. ASSUME NEW x PROVE IpTrue(c, x) => IpTrue(c, x)'
    BY <1>6, <1>7, <1>8, <1>9 DEF IpTrue, Kept
  <1>11. \A i \in DOMAIN ipHistory : i \in DOMAIN ipHistory' /\ ipHistory'[i] = ipHistory[i]
    BY DEF Grown
  <1>12. HasRows(u) => HasRows(u)'
    BY <1>4, <1>11 DEF HasRows, Kept
  <1>13. TwoCountries(u, a) => TwoCountries(u, a)'
    <2> SUFFICES ASSUME TwoCountries(u, a) PROVE TwoCountries(u, a)'
      OBVIOUS
    <2>0. PICK t, s \in {events, ipHistory} : \E i \in DOMAIN t, j \in DOMAIN s :
            /\ t[i].user = u /\ s[j].ip = a
            /\ None \notin {t[i].country, s[j].country}
            /\ t[i].country # s[j].country
      BY DEF TwoCountries
    <2>1. PICK i \in DOMAIN t, j \in DOMAIN s :
            /\ t[i].user = u /\ s[j].ip = a
            /\ None \notin {t[i].country, s[j].country}
            /\ t[i].country # s[j].country
      BY <2>0
    <2>2. PICK v \in {events', ipHistory'} : i \in DOMAIN v /\ v[i] = t[i]
      BY <1>4, <1>11
    <2>3. PICK w \in {events', ipHistory'} : j \in DOMAIN w /\ w[j] = s[j]
      BY <1>4, <1>11
    <2> QED
      BY <2>1, <2>2, <2>3 DEF TwoCountries, Kept
  <1>14. TwoPlaces(u, a) => TwoPlaces(u, a)'
    <2> SUFFICES ASSUME TwoPlaces(u, a) PROVE TwoPlaces(u, a)'
      OBVIOUS
    <2>0. PICK s \in {events, ipHistory} : \E i \in DOMAIN events, j \in DOMAIN s :
            /\ events[i].user = u /\ s[j].ip = a
            /\ None \notin {events[i].place, s[j].place}
            /\ Flight[events[i].place][s[j].place] > 0
      BY DEF TwoPlaces
    <2>1. PICK i \in DOMAIN events, j \in DOMAIN s :
            /\ events[i].user = u /\ s[j].ip = a
            /\ None \notin {events[i].place, s[j].place}
            /\ Flight[events[i].place][s[j].place] > 0
      BY <2>0
    <2>2. PICK w \in {events', ipHistory'} : j \in DOMAIN w /\ w[j] = s[j]
      BY <1>4, <1>11
    <2> QED
      BY <1>4, <2>1, <2>2 DEF TwoPlaces, Kept
  <1>15. ASSUME NEW x PROVE GeoTrue(c, x) => GeoTrue(c, x)'
    BY <1>12, <1>13 DEF GeoTrue, Kept
  <1>16. ASSUME NEW x PROVE DeviceTrue(c, x) => DeviceTrue(c, x)'
    BY DEF DeviceTrue, Kept
  <1>17. ASSUME NEW x PROVE TravelTrue(c, x) => TravelTrue(c, x)'
    BY <1>14 DEF TravelTrue, Grown, Kept
  <1> QED
    BY <1>3, <1>6, <1>10, <1>15, <1>16, <1>17

\* So a call goes on fitting its query, and an answer stays justified.
LEMMA StillFits ==
    ASSUME Grown, TypeOK, TypeOK', NEW c \in Caller, Kept(c)
    PROVE  /\ \A q, s, h : Fits(c, q, s, h) => Fits(c, q, s, h)'
           /\ \A s : Justified(c, s) => Justified(c, s)'
  <1>1. ASSUME NEW q, NEW s, NEW h, Fits(c, q, s, h) PROVE Fits(c, q, s, h)'
    <2>1. Started(c)
      BY <1>1 DEF Fits
    <2>2. q \in {"current", "currentEvents"} => h = None \/
            \E t \in {events', ipHistory'} : \E i \in DOMAIN t :
                t[i].user = request'[c].user /\ t[i].country = h
      BY <1>1 DEF Fits, Grown, Kept
    <2>3. q \in {"location", "locationEvents"} => h = None \/
            \E i \in DOMAIN events' :
                /\ events'[i].user = request'[c].user
                /\ events'[i].place # None
                /\ h.place = events'[i].place /\ h.at = events'[i].at
      BY <1>1 DEF Fits, Grown, Kept
    <2> QED
      BY <1>1, <2>1, <2>2, <2>3, StillFound DEF Fits, Kept
  <1>2. ASSUME NEW s, Justified(c, s) PROVE Justified(c, s)'
    BY <1>2, StillFound DEF Justified
  <1> QED
    BY <1>1, <1>2

\* A call whose own state does not change stays sound.
LEMMA Others ==
    ASSUME Grown, TypeOK, TypeOK', NEW c \in Caller, Sound(c), Kept(c),
           pc'[c] = pc[c], signals'[c] = signals[c], held'[c] = held[c],
           answer'[c] = answer[c]
    PROVE  Sound(c)'
  BY StillFits DEF Sound

-----------------------------------------------------------------------------
(* Going on and ending. *)

\* A call that goes on to a query it fits.
LEMMA GoStep ==
    ASSUME IInv, [Next]_vars, NEW c \in Caller, NEW q, NEW s, NEW h, pc[c] \in Query,
           Go(c, q, s, h), Fits(c, q, s, h), c = Simulator => q \in {"seen", "usual"}
    PROVE  IInv'
  <1>1. TypeOK'
    BY DEF IInv, TypeOK, Go, tables, Fits, Started, Query, Shape
  <1>2. Grown
    BY Grows DEF IInv
  <1>3. Shape' /\ Simulated'
    BY DEF IInv, Shape, Simulated, Go, TypeOK, Fits, Query, Caller, RiskConstants
  <1>4. ASSUME NEW d \in Caller, d # c PROVE Sound(d)'
    BY <1>1, <1>2, <1>4, Others DEF Kept, IInv, Go, TypeOK, Shape
  <1>5. Sound(c)'
    <2>1. Fits(c, q, s, h)'
      BY <1>1, <1>2, StillFits DEF Kept, Go, IInv
    <2>2. pc'[c] = q /\ signals'[c] = s /\ held'[c] = h /\ answer'[c] = answer[c]
      BY DEF Go, IInv, TypeOK, Shape
    <2> QED
      BY <2>1, <2>2 DEF Sound, IInv, Fits
  <1> QED
    BY <1>1, <1>3, <1>4, <1>5 DEF IInv

\* A call that ends with an answer that is justified, or the default, or an error.
LEMMA EndStep ==
    ASSUME IInv, [Next]_vars, NEW c \in Caller, NEW k, NEW s, pc[c] \in Query,
           End(c, k, s), faults' \in 0..MaxFaults,
           \/ k = "computed" /\ c # Simulator /\ Justified(c, s)
           \/ k = "default" /\ s = Default
           \/ k = "error" /\ s = NoSignals
    PROVE  IInv'
  <1>1. s \in Signals /\ NoSignals \in Signals
    <2>1. NoSignals \in Signals
      BY DEF NoSignals, Signals
    <2> QED
      BY <2>1, DefaultIsLow DEF Justified
  <1>2. Action(Default) # "block" /\ Level(Default) \notin {"high", "critical"}
    <2>1. Default \in Signals /\ Score(Default) <= 50
      BY DefaultIsLow, ScoreBounds
    <2> QED
      BY <2>1, Bounds
  <1>3. /\ sim' \in [attack : Attacks \cup {None},
                     left : 0..MaxAttempts, blocked : Nat, flagged : Nat]
        /\ sim'.left = sim.left /\ sim'.attack = sim.attack
        /\ sim'.blocked = sim.blocked /\ sim'.flagged = sim.flagged
    <2>1. sim \in [attack : Attacks \cup {None},
                   left : 0..MaxAttempts, blocked : Nat, flagged : Nat]
      BY DEF IInv, Shape
    <2>2. CASE c = Simulator /\ k # "error"
      <3>1. Action(s) # "block" /\ Level(s) \notin {"high", "critical"}
        BY <1>2, <2>2
      <3>2. sim' = [sim EXCEPT !.blocked = @ + 0, !.flagged = @ + 0]
        BY <2>2, <3>1, Zenon DEF End
      <3>3. sim.blocked \in Nat /\ sim.flagged \in Nat
        BY <2>1
      <3>4. sim'.blocked = sim.blocked + 0 /\ sim'.flagged = sim.flagged + 0
        BY <2>1, <3>2
      <3>5. sim'.blocked = sim.blocked /\ sim'.flagged = sim.flagged
        BY <3>3, <3>4
      <3>6. /\ sim' = [attack |-> sim'.attack, left |-> sim'.left,
                       blocked |-> sim'.blocked, flagged |-> sim'.flagged]
            /\ sim'.attack = sim.attack /\ sim'.left = sim.left
        BY <2>1, <3>2
      <3> QED
        BY <2>1, <3>5, <3>6
    <2>3. CASE ~(c = Simulator /\ k # "error")
      <3>1. sim' = sim
        BY <2>3 DEF End
      <3> QED
        BY <2>1, <3>1
    <2> QED
      BY <2>2, <2>3
  <1>4. TypeOK'
    <2>1. UNCHANGED <<schema, events, ipHistory, devices, now, request>>
      BY DEF End, tables
    <2>2. signals' \in [Caller -> Signals]
      BY <1>1 DEF IInv, TypeOK, End
    <2>3. answer' \in [Caller -> [kind : {"none", "computed", "default", "error"},
                                  signals : Signals]]
      <3>1. [kind |-> k, signals |-> s]
               \in [kind : {"none", "computed", "default", "error"}, signals : Signals]
        BY <1>1
      <3> QED
        BY <3>1 DEF IInv, TypeOK, End
    <2>4. /\ pc' \in [Caller -> Query \cup {"idle", "attempt", "done"}]
          /\ \A d \in Caller : pc'[d] \in Query => request'[d] \in Request
      BY <2>1 DEF IInv, TypeOK, End, Query
    <2>5. sim'.left \in 0..MaxAttempts
      BY <1>3 DEF IInv, TypeOK
    <2> QED
      BY <2>1, <2>2, <2>3, <2>4, <2>5 DEF IInv, TypeOK
  <1>5. Grown
    BY Grows DEF IInv
  <1>6. Shape'
    <2>1. UNCHANGED <<request, began>>
      BY DEF End
    <2>2. held' = [d \in Caller |-> held'[d]]
      BY DEF End, IInv, Shape
    <2>3. pc'[Simulator] \notin {"idle", "done"} => sim'.attack \in Attacks
      BY <1>3 DEF End, IInv, Shape, TypeOK, Caller, Query
    <2>4. \A d \in Evaluation :
             pc'[d] # "attempt" /\ (pc'[d] = "idle" => answer'[d].kind = "none")
      BY RiskConstants DEF End, IInv, Shape, TypeOK, Caller
    <2> QED
      BY <1>3, <2>1, <2>2, <2>3, <2>4 DEF IInv, Shape
  <1>7. Simulated'
    BY <1>3 DEF IInv, Simulated, End, TypeOK, Query, Caller, RiskConstants
  <1>8. ASSUME NEW d \in Caller, d # c PROVE Sound(d)'
    BY <1>4, <1>5, <1>8, Others DEF Kept, IInv, End, TypeOK, Shape
  <1>9. Sound(c)'
    <2>1. Justified(c, s) => Justified(c, s)'
      BY <1>4, <1>5, StillFits DEF Kept, End, IInv
    <2>2. /\ pc'[c] \notin Query /\ signals'[c] = NoSignals
          /\ answer'[c].kind = k /\ answer'[c].signals = s
      BY DEF End, IInv, TypeOK, Query
    <2> QED
      BY <2>1, <2>2 DEF Sound
  <1> QED
    BY <1>4, <1>6, <1>7, <1>8, <1>9 DEF IInv

-----------------------------------------------------------------------------
(* The queries. *)

\* A call at a query fits it.
LEMMA AtQuery ==
    ASSUME IInv, NEW c \in Caller, pc[c] \in Query
    PROVE  /\ Fits(c, pc[c], signals[c], held[c])
           /\ signals[c] \in Signals /\ request[c] \in Request /\ Started(c)
  BY DEF IInv, Sound, Fits, Started

\* A query that is run and is not the first one is an evaluation's: the database takes
\* no made-up user (attack_simulator.py:121-150).
LEMMA RunByEvaluation ==
    ASSUME IInv, NEW c \in Caller, NEW q \in Query \ {"suspicious"}, Runs(c, q)
    PROVE  c # Simulator
  <1>1. /\ pc[c] = q
        /\ q \in {"seen", "usual"} => request[c].user # SimUser
    BY DEF Runs, Accepted, BindsUser
  <1>2. c = Simulator => q \in {"seen", "usual"} /\ request[c].user = SimUser
    BY <1>1 DEF IInv, Simulated
  <1> QED
    BY <1>1, <1>2

\* The first signal (risk_scorer.py:140-158).
LEMMA CountFailuresStep ==
    ASSUME IInv, [Next]_vars, NEW c \in Caller, CountFailures(c)
    PROVE  IInv'
  <1> DEFINE a == request[c].address
  <1>1. pc[c] = "suspicious" /\ pc[c] \in Query
    BY DEF CountFailures, Runs, Query
  <1>2. /\ Fits(c, "suspicious", signals[c], held[c]) /\ Started(c)
        /\ signals[c] \in Signals /\ signals[c].travel = 0
    BY <1>1, AtQuery DEF Fits
  <1>3. Failures(a) = FailuresBefore(Len(events), a)
    BY AllFailures DEF IInv, TypeOK
  <1>4. CASE Failures(a) > SuspiciousAfter
    <2> DEFINE s == [signals[c] EXCEPT !.ip = 80]
    <2>1. s \in Signals /\ s.travel = 0 /\ s.ip = 80
      BY <1>2 DEF Signals
    <2>2. IpTrue(c, 80)
      BY <1>3, <1>4 DEF IpTrue
    <2>3. Fits(c, "usual", s, None)
      BY <1>2, <2>1, <2>2 DEF Fits, Query, PastIp, PastGeo, PastDevice
    <2>4. Go(c, "usual", s, None)
      BY <1>4 DEF CountFailures, ToGeo
    <2> QED
      BY <1>1, <2>3, <2>4, GoStep
  <1>5. CASE ~(Failures(a) > SuspiciousAfter)
    <2>1. /\ began[c].events \in Nat /\ Len(events) \in Nat
          /\ began[c].events <= Len(events)
      BY <1>2 DEF Started, IInv, TypeOK
    <2>2. FewFailures(c)
      <3>1. /\ FailuresBefore(began[c].events, a) \in Nat
            /\ FailuresBefore(Len(events), a) \in Nat
            /\ FailuresBefore(began[c].events, a) <= FailuresBefore(Len(events), a)
        BY <2>1, MoreFailures
      <3>2. SuspiciousAfter \in Nat
        BY RiskConstants
      <3> QED
        BY <1>3, <1>5, <3>1, <3>2 DEF FewFailures
    <2>3. Fits(c, "seen", signals[c], None)
      BY <1>2, <2>2 DEF Fits, Query, PastIp, PastGeo, PastDevice
    <2>4. Go(c, "seen", signals[c], None)
      BY <1>5 DEF CountFailures
    <2> QED
      BY <1>1, <2>3, <2>4, GoStep
  <1> QED
    BY <1>4, <1>5

\* The signal of an address without a suspicion (risk_scorer.py:160-173).
LEMMA CheckSeenStep ==
    ASSUME IInv, [Next]_vars, NEW c \in Caller, CheckSeen(c)
    PROVE  IInv'
  <1> DEFINE u == request[c].user
             a == request[c].address
             x == IF Seen(u, a) THEN 10 ELSE 40
             s == [signals[c] EXCEPT !.ip = x]
  <1>1. pc[c] = "seen" /\ pc[c] \in Query
    BY DEF CheckSeen, Runs, Query
  <1>2. /\ Fits(c, "seen", signals[c], held[c]) /\ Started(c) /\ FewFailures(c)
        /\ signals[c] \in Signals /\ signals[c].travel = 0
    BY <1>1, AtQuery DEF Fits
  <1>3. s \in Signals /\ s.travel = 0 /\ s.ip = x
    BY <1>2 DEF Signals
  <1>4. Seen(u, a) <=> Used(Len(events), u, a)
    BY SeenIsUsed DEF IInv, TypeOK
  <1>5. Used(began[c].events, u, a) => Used(Len(events), u, a)
    BY <1>2 DEF Used, Started, IInv, TypeOK
  <1>6. IpTrue(c, x)
    BY <1>2, <1>4, <1>5 DEF IpTrue
  <1>7. Fits(c, "usual", s, None)
    BY <1>2, <1>3, <1>6 DEF Fits, Query, PastIp, PastGeo, PastDevice
  <1>8. Go(c, "usual", s, None)
    BY DEF CheckSeen, ToGeo
  <1> QED
    BY <1>1, <1>7, <1>8, GoStep

\* The user's usual country is that of one of its rows (risk_scorer.py:188-217).
LEMMA UsualCountryStep ==
    ASSUME IInv, [Next]_vars, NEW c \in Caller, UsualCountry(c)
    PROVE  IInv'
  <1> DEFINE u == request[c].user
  <1>1. ASSUME NEW k, NEW t \in {events, ipHistory}, k \in UsualCountries(t, u), k # None
        PROVE  \E v \in {events, ipHistory} : \E i \in DOMAIN v : v[i].user = u /\ v[i].country = k
    BY <1>1, UsualIsOfRow
  <1>2. ASSUME NEW q \in {"usualEvents", "current"}, NEW k, pc[c] \in {"usual", "usualEvents"},
               Runs(c, pc[c]), Go(c, q, signals[c], k),
               q = "current" /\ k # None => \E t \in {events, ipHistory} : k \in UsualCountries(t, u)
        PROVE  IInv'
    <2>1. pc[c] \in Query /\ c # Simulator
      BY <1>2, RunByEvaluation DEF Query
    <2>2. Fits(c, pc[c], signals[c], held[c])
      BY <2>1, AtQuery
    <2>3. Fits(c, q, signals[c], k)
      BY <1>1, <1>2, <2>2 DEF Fits, Query, PastIp, PastGeo, PastDevice
    <2> QED
      BY <1>2, <2>1, <2>3, GoStep
  <1>3. CASE Runs(c, "usual") /\ \E k \in UsualCountries(ipHistory, u) :
                Go(c, IF k = None THEN "usualEvents" ELSE "current", signals[c], k)
    <2>1. PICK k \in UsualCountries(ipHistory, u) :
             Go(c, IF k = None THEN "usualEvents" ELSE "current", signals[c], k)
      BY <1>3
    <2>2. pc[c] = "usual" /\ Runs(c, pc[c])
      BY <1>3 DEF Runs
    <2> QED
      BY <1>2, <2>1, <2>2
  <1>4. CASE Runs(c, "usualEvents") /\ \E k \in UsualCountries(events, u) :
                Go(c, "current", signals[c], k)
    <2>1. PICK k \in UsualCountries(events, u) : Go(c, "current", signals[c], k)
      BY <1>4
    <2>2. pc[c] = "usualEvents" /\ Runs(c, pc[c])
      BY <1>4 DEF Runs
    <2> QED
      BY <1>2, <2>1, <2>2
  <1> QED
    BY <1>3, <1>4 DEF UsualCountry

\* What is known of an evaluation past the country, with the signals s.
Placed(c, s) ==
    /\ c # Simulator /\ pc[c] \in Query
    /\ s \in Signals /\ s.travel = 0
    /\ Started(c) /\ IpTrue(c, s.ip) /\ GeoTrue(c, s.geo)

\* On to the device, or past it (risk_scorer.py:309-333).
LEMMA ToDeviceStep ==
    ASSUME IInv, [Next]_vars, NEW c \in Caller, NEW s, Placed(c, s), ToDevice(c, s)
    PROVE  IInv'
  <1>1. CASE request[c].device = None
    <2> DEFINE r == [s EXCEPT !.device = 30]
    <2>1. r \in Signals /\ r.travel = 0 /\ r.ip = s.ip /\ r.geo = s.geo /\ r.device = 30
      BY DEF Placed, Signals
    <2>2. DeviceTrue(c, 30)
      BY <1>1 DEF DeviceTrue
    <2>3. Fits(c, "last", r, None)
      BY <2>1, <2>2 DEF Placed, Fits, Query, PastIp, PastGeo, PastDevice
    <2>4. Go(c, "last", r, None)
      BY <1>1 DEF ToDevice
    <2> QED
      BY <2>3, <2>4, GoStep DEF Placed
  <1>2. CASE request[c].device # None
    <2>1. Fits(c, "device", s, None)
      BY <1>2 DEF Placed, Fits, Query, PastIp, PastGeo, PastDevice
    <2>2. Go(c, "device", s, None)
      BY <1>2 DEF ToDevice
    <2> QED
      BY <2>1, <2>2, GoStep DEF Placed
  <1> QED
    BY <1>1, <1>2

\* On to the hour, or past it (risk_scorer.py:266-283).
LEMMA ToTimeStep ==
    ASSUME IInv, [Next]_vars, NEW c \in Caller, NEW s, Placed(c, s), ToTime(c, s)
    PROVE  IInv'
  <1>1. CASE OffHours(Hour(now))
    <2>1. Fits(c, "typical", s, Hour(now))
      BY DEF Placed, Fits, Query, PastIp, PastGeo, PastDevice
    <2>2. Go(c, "typical", s, Hour(now))
      BY <1>1 DEF ToTime
    <2> QED
      BY <2>1, <2>2, GoStep DEF Placed
  <1>2. CASE ~OffHours(Hour(now))
    <2> DEFINE r == [s EXCEPT !.time = 5]
    <2>1. Placed(c, r)
      BY DEF Placed, Signals
    <2>2. ToDevice(c, r)
      BY <1>2 DEF ToTime
    <2> QED
      BY <2>1, <2>2, ToDeviceStep
  <1> QED
    BY <1>1, <1>2

\* The signal of two countries (risk_scorer.py:243-249).
LEMMA GeoRisks ==
    ASSUME NEW usual, NEW current
    PROVE  /\ GeoRisk(usual, current) \in {5, 20, 30, 70}
           /\ GeoRisk(usual, current) # 20 => usual # None
           /\ GeoRisk(usual, current) = 70 =>
                 usual # None /\ current # None /\ current # usual
           /\ current \in {None, usual} => GeoRisk(usual, current) # 70
  <1>1. usual = None => GeoRisk(usual, current) = 20
    BY Zenon DEF GeoRisk
  <1>2. usual # None /\ current = None => GeoRisk(usual, current) = 30
    BY Zenon DEF GeoRisk
  <1>3. usual # None /\ current # None /\ current # usual => GeoRisk(usual, current) = 70
    BY Zenon DEF GeoRisk
  <1>4. usual # None /\ current # None /\ current = usual => GeoRisk(usual, current) = 5
    BY Zenon DEF GeoRisk
  <1> QED
    BY <1>1, <1>2, <1>3, <1>4

\* On with the current country of the address, which is that of a row (risk_scorer.py:219-249).
LEMMA AfterGeoStep ==
    ASSUME IInv, [Next]_vars, NEW c \in Caller, NEW q \in {"current", "currentEvents"}, Runs(c, q),
           NEW t \in {events, ipHistory}, NEW k \in CurrentCountries(t, request[c].address),
           AfterGeo(c, k)
    PROVE  IInv'
  <1> DEFINE u == request[c].user
             a == request[c].address
             x == GeoRisk(held[c], k)
             s == [signals[c] EXCEPT !.geo = x]
  <1>1. pc[c] = q /\ pc[c] \in Query /\ c # Simulator
    BY RunByEvaluation DEF Runs, Query
  <1>2. /\ Fits(c, q, signals[c], held[c]) /\ Started(c)
        /\ signals[c] \in Signals /\ signals[c].travel = 0
    BY <1>1, AtQuery DEF Fits
  <1>3. held[c] # None => \E v \in {events, ipHistory} : \E i \in DOMAIN v :
                             v[i].user = u /\ v[i].country = held[c]
    BY <1>2 DEF Fits
  <1>4. k # None => \E j \in DOMAIN t : t[j].ip = a /\ t[j].country = k
    BY CurrentIsOfRow
  <1>5. x # 20 => HasRows(u)
    BY <1>3, GeoRisks DEF HasRows
  <1>6. ASSUME x = 70 PROVE TwoCountries(u, a)
    <2>1. held[c] # None /\ k # None /\ k # held[c]
      BY <1>6, GeoRisks
    <2>2. PICK v \in {events, ipHistory} : \E i \in DOMAIN v : v[i].user = u /\ v[i].country = held[c]
      BY <1>3, <2>1
    <2> QED
      BY <1>4, <2>1, <2>2 DEF TwoCountries
  <1>7. x \in {5, 20, 30, 70} /\ GeoTrue(c, x)
    BY <1>5, <1>6, GeoRisks DEF GeoTrue
  <1>8. s \in Signals /\ s.travel = 0 /\ s.ip = signals[c].ip /\ s.geo = x
    BY <1>2, <1>7 DEF Signals
  <1>9. IpTrue(c, signals[c].ip)
    BY <1>2 DEF Fits, PastIp, Query
  <1>10. Placed(c, s)
    BY <1>1, <1>2, <1>7, <1>8, <1>9 DEF Placed
  <1>11. ToTime(c, s)
    BY DEF AfterGeo
  <1> QED
    BY <1>10, <1>11, ToTimeStep

\* The country of the address (risk_scorer.py:219-241).
LEMMA CurrentCountryStep ==
    ASSUME IInv, [Next]_vars, NEW c \in Caller, CurrentCountry(c)
    PROVE  IInv'
  <1> DEFINE a == request[c].address
  <1>1. CASE /\ Runs(c, "current")
             /\ \E k \in CurrentCountries(ipHistory, a) :
                   IF k = None THEN Go(c, "currentEvents", signals[c], held[c])
                               ELSE AfterGeo(c, k)
    <2>1. PICK k \in CurrentCountries(ipHistory, a) :
             IF k = None THEN Go(c, "currentEvents", signals[c], held[c])
                         ELSE AfterGeo(c, k)
      BY <1>1
    <2>2. CASE k # None
      BY <1>1, <2>1, <2>2, AfterGeoStep
    <2>3. CASE k = None
      <3>1. pc[c] = "current" /\ pc[c] \in Query /\ c # Simulator
        BY <1>1, RunByEvaluation DEF Runs, Query
      <3>2. Fits(c, "current", signals[c], held[c])
        BY <3>1, AtQuery
      <3>3. Fits(c, "currentEvents", signals[c], held[c])
        BY <3>2 DEF Fits, Query, PastIp, PastGeo, PastDevice
      <3> QED
        BY <2>1, <2>3, <3>1, <3>3, GoStep
    <2> QED
      BY <2>2, <2>3
  <1>2. CASE /\ Runs(c, "currentEvents")
             /\ \E k \in CurrentCountries(events, a) : AfterGeo(c, k)
    BY <1>2, AfterGeoStep
  <1> QED
    BY <1>1, <1>2 DEF CurrentCountry

\* An evaluation that was past the country is past it after another signal of time.
LEMMA IsPlaced ==
    ASSUME IInv, NEW c \in Caller, NEW q \in PastGeo, Runs(c, q)
    PROVE  /\ pc[c] = q /\ Fits(c, q, signals[c], held[c])
           /\ Placed(c, signals[c])
           /\ \A x \in {0, 5, 20, 50} : Placed(c, [signals[c] EXCEPT !.time = x])
  <1>1. pc[c] = q /\ pc[c] \in Query /\ c # Simulator
    BY RunByEvaluation DEF Runs, Query, PastGeo
  <1>2. /\ Fits(c, q, signals[c], held[c]) /\ Started(c)
        /\ signals[c] \in Signals /\ signals[c].travel = 0
    BY <1>1, AtQuery DEF Fits
  <1>3. IpTrue(c, signals[c].ip) /\ GeoTrue(c, signals[c].geo)
    BY <1>2 DEF Fits, PastIp, PastGeo, Query
  <1>4. Placed(c, signals[c])
    BY <1>1, <1>2, <1>3 DEF Placed
  <1> QED
    BY <1>1, <1>2, <1>4 DEF Placed, Signals

\* The signal of an hour at night (risk_scorer.py:269-292).
LEMMA TypicalHourStep ==
    ASSUME IInv, [Next]_vars, NEW c \in Caller, TypicalHour(c)
    PROVE  IInv'
  <1>1. PICK h : ToDevice(c, [signals[c] EXCEPT !.time = TimeRisk(held[c], h)])
    BY DEF TypicalHour
  <1>2. TimeRisk(held[c], h) \in {0, 5, 20, 50}
    BY DEF TimeRisk
  <1>3. Placed(c, [signals[c] EXCEPT !.time = TimeRisk(held[c], h)])
    BY <1>2, IsPlaced DEF TypicalHour, PastGeo
  <1> QED
    BY <1>1, <1>3, ToDeviceStep

\* A device that is unknown now was unknown when the call began (risk_scorer.py:310-324).
LEMMA CheckDeviceStep ==
    ASSUME IInv, [Next]_vars, NEW c \in Caller, CheckDevice(c)
    PROVE  IInv'
  <1> DEFINE x == IF KnownDevice(request[c].user, request[c].device) THEN 5 ELSE 60
             s == [signals[c] EXCEPT !.device = x]
  <1>1. pc[c] = "device" /\ Placed(c, signals[c]) /\ Fits(c, "device", signals[c], held[c])
    BY IsPlaced DEF CheckDevice, PastGeo
  <1>2. /\ s \in Signals /\ s.travel = 0 /\ s.ip = signals[c].ip /\ s.geo = signals[c].geo
        /\ s.device = x
    BY <1>1 DEF Placed, Signals
  <1>3. DeviceTrue(c, x)
    BY <1>1 DEF DeviceTrue, KnownDevice, Fits, Started
  <1>4. Fits(c, "last", s, None)
    BY <1>1, <1>2, <1>3 DEF Placed, Fits, Query, PastIp, PastGeo, PastDevice
  <1>5. Go(c, "last", s, None)
    BY DEF CheckDevice
  <1> QED
    BY <1>1, <1>4, <1>5, GoStep DEF Placed

\* The last login is an event of the user (risk_scorer.py:338-349).
LEMMA LastLoginStep ==
    ASSUME IInv, [Next]_vars, NEW c \in Caller, LastLogin(c)
    PROVE  IInv'
  <1>1. pc[c] = "last" /\ Placed(c, signals[c]) /\ Fits(c, "last", signals[c], held[c])
    BY IsPlaced DEF LastLogin, PastGeo
  <1>2. PICK l \in LastLogins(request[c].user) : Go(c, "location", signals[c], l)
    BY DEF LastLogin
  <1>3. Fits(c, "location", signals[c], l)
    BY <1>1, LastIsOfEvent DEF Fits, Query, PastIp, PastGeo, PastDevice
  <1> QED
    BY <1>1, <1>2, <1>3, GoStep DEF Placed

\* The last signal is of two places that are apart, in a database without time zones
\* (risk_scorer.py:377-390).
LEMMA AfterLocationStep ==
    ASSUME IInv, [Next]_vars, NEW c \in Caller, NEW q \in {"location", "locationEvents"},
           Runs(c, q), NEW t \in {events, ipHistory},
           NEW p \in Locations(t, request[c].address), AfterLocation(c, p)
    PROVE  IInv'
  <1> DEFINE u == request[c].user
             a == request[c].address
  <1>1. pc[c] = q /\ Placed(c, signals[c]) /\ Fits(c, q, signals[c], held[c])
    BY IsPlaced DEF PastGeo
  <1>2. DeviceTrue(c, signals[c].device)
    BY <1>1 DEF Fits, PastDevice
  <1>3. UNCHANGED faults /\ faults \in 0..MaxFaults
    BY DEF AfterLocation, Answered, IInv, TypeOK
  <1>4. ASSUME NEW r \in {0, 95}, r = 95 => ~schema.aware /\ TwoPlaces(u, a),
               Answered(c, [signals[c] EXCEPT !.travel = r])
        PROVE  IInv'
    <2> DEFINE s == [signals[c] EXCEPT !.travel = r]
    <2>1. /\ s \in Signals /\ s.ip = signals[c].ip /\ s.geo = signals[c].geo
          /\ s.device = signals[c].device /\ s.travel = r
      BY <1>1 DEF Placed, Signals
    <2>2. Justified(c, s)
      BY <1>1, <1>2, <1>4, <2>1 DEF Placed, Justified, TravelTrue
    <2>3. End(c, "computed", s)
      BY <1>4 DEF Answered
    <2> QED
      BY <1>1, <1>3, <2>2, <2>3, EndStep DEF Placed
  <1>5. CASE held[c] = None \/ p = None
    <2>1. signals[c] = [signals[c] EXCEPT !.travel = 0]
      BY <1>1 DEF Placed, Signals
    <2>2. Answered(c, [signals[c] EXCEPT !.travel = 0])
      BY <1>5, <2>1 DEF AfterLocation
    <2> QED
      BY <1>4, <2>2
  <1>6. CASE ~(held[c] = None \/ p = None) /\ schema.aware
    <2>1. End(c, "error", NoSignals)
      BY <1>6 DEF AfterLocation
    <2> QED
      BY <1>1, <1>3, <2>1, EndStep DEF Placed
  <1>7. CASE ~(held[c] = None \/ p = None) /\ ~schema.aware
    <2>1. PICK r \in TravelRisks(held[c].place, held[c].at, p) :
             Answered(c, [signals[c] EXCEPT !.travel = r])
      BY <1>7 DEF AfterLocation
    <2>2. PICK i \in DOMAIN events :
             /\ events[i].user = u /\ events[i].place # None
             /\ held[c].place = events[i].place /\ held[c].at = events[i].at
      BY <1>1, <1>7 DEF Fits
    <2>3. PICK j \in DOMAIN t : t[j].ip = a /\ t[j].place = p
      BY <1>7, CurrentIsOfRow
    <2>4. /\ events[i].place \in Place /\ p \in Place
          /\ events[i].at \in Nat /\ events[i].at <= now /\ now \in Nat
      <3>1. events[i] \in Logins /\ t[j] \in Logins \cup Histories
        BY <2>2, <2>3 DEF IInv, TypeOK
      <3> QED
        BY <1>7, <2>2, <2>3, <3>1, RiskConstants DEF IInv, TypeOK
    <2>5. r \in {0, 95} /\ (r = 95 => Flight[events[i].place][p] > 0)
      BY <2>1, <2>2, <2>4, OutOfReach
    <2>6. r = 95 => TwoPlaces(u, a)
      BY <1>7, <2>2, <2>3, <2>5 DEF TwoPlaces
    <2> QED
      BY <1>4, <1>7, <2>1, <2>5, <2>6
  <1> QED
    BY <1>5, <1>6, <1>7

\* The place of the address (risk_scorer.py:351-375).
LEMMA CurrentLocationStep ==
    ASSUME IInv, [Next]_vars, NEW c \in Caller, CurrentLocation(c)
    PROVE  IInv'
  <1> DEFINE a == request[c].address
  <1>1. CASE /\ Runs(c, "location")
             /\ \E p \in Locations(ipHistory, a) :
                   IF p = None THEN Go(c, "locationEvents", signals[c], held[c])
                               ELSE AfterLocation(c, p)
    <2>1. PICK p \in Locations(ipHistory, a) :
             IF p = None THEN Go(c, "locationEvents", signals[c], held[c])
                         ELSE AfterLocation(c, p)
      BY <1>1
    <2>2. CASE p # None
      BY <1>1, <2>1, <2>2, AfterLocationStep
    <2>3. CASE p = None
      <3>1. pc[c] = "location" /\ Placed(c, signals[c]) /\ Fits(c, "location", signals[c], held[c])
        BY <1>1, IsPlaced DEF PastGeo
      <3>2. Fits(c, "locationEvents", signals[c], held[c])
        BY <3>1 DEF Fits, Query, PastIp, PastGeo, PastDevice
      <3> QED
        BY <2>1, <2>3, <3>1, <3>2, GoStep DEF Placed
    <2> QED
      BY <2>2, <2>3
  <1>2. CASE /\ Runs(c, "locationEvents")
             /\ \E p \in Locations(events, a) : AfterLocation(c, p)
    BY <1>2, AfterLocationStep
  <1> QED
    BY <1>1, <1>2 DEF CurrentLocation

\* A query that fails (risk_scorer.py:96-101).
LEMMA QueryFailsStep ==
    ASSUME IInv, [Next]_vars, NEW c \in Caller, QueryFails(c)
    PROVE  IInv'
  <1>1. pc[c] \in Query /\ faults' \in 0..MaxFaults
    BY RiskConstants DEF QueryFails, IInv, TypeOK
  <1>2. End(c, "default", Default) \/ End(c, "error", NoSignals)
    BY DEF QueryFails
  <1> QED
    BY <1>1, <1>2, EndStep

-----------------------------------------------------------------------------
(* The other steps. *)

\* A call begins with the tables as they are.
LEMMA BeginStep ==
    ASSUME IInv, [Next]_vars, NEW c \in Caller, NEW u \in User \cup {SimUser}, NEW a \in Address,
           NEW d \in Fingerprint \cup {None}, Begin(c, u, a, d), pc[c] \in {"idle", "attempt"},
           c = Simulator => u = SimUser /\ sim.attack \in Attacks,
           sim' \in [attack : {sim.attack}, left : 0..MaxAttempts, blocked : {sim.blocked},
                     flagged : {sim.flagged}]
    PROVE  IInv'
  <1> DEFINE r == [user |-> u, address |-> a, device |-> d]
             b == [events |-> Len(events), devices |-> devices]
  <1>1. r \in Request /\ b \in [events : Nat, devices : SUBSET Registrations]
    BY DEF Request, IInv, TypeOK
  <1>2. TypeOK'
    <2>1. UNCHANGED <<schema, events, ipHistory, devices, now, signals, answer, faults>>
      BY DEF Begin, tables
    <2>2. /\ pc' \in [Caller -> Query \cup {"idle", "attempt", "done"}]
          /\ \A e \in Caller : pc'[e] \in Query => request'[e] \in Request
      BY <1>1 DEF Begin, IInv, TypeOK, Query, Shape
    <2> QED
      BY <2>1, <2>2 DEF IInv, TypeOK
  <1>3. Grown
    BY Grows DEF IInv
  <1>4. Shape'
    <2>1. /\ request' \in [Caller -> Request \cup {None}]
          /\ began' \in [Caller -> [events : Nat, devices : SUBSET Registrations] \cup {None}]
      BY <1>1 DEF Begin, IInv, Shape
    <2>2. held' = held /\ answer' = answer
      BY DEF Begin
    <2> QED
      BY <2>1, <2>2, RiskConstants DEF Begin, IInv, Shape, TypeOK, Caller
  <1>5. Simulated'
    <2>1. sim'.blocked = sim.blocked /\ sim'.flagged = sim.flagged /\ answer' = answer
      BY DEF Begin
    <2>2. pc'[Simulator] \in Query => request'[Simulator].user = SimUser /\
             pc'[Simulator] \in {"suspicious", "seen", "usual"}
      BY DEF Begin, IInv, TypeOK, Shape, Simulated, Caller
    <2> QED
      BY <2>1, <2>2 DEF IInv, Simulated
  <1>6. ASSUME NEW e \in Caller, e # c PROVE Sound(e)'
    BY <1>2, <1>3, <1>6, Others DEF Kept, IInv, Begin, TypeOK, Shape
  <1>7. Sound(c)'
    <2>1. /\ pc'[c] = "suspicious" /\ request'[c] = r /\ began'[c] = b
          /\ signals'[c] = signals[c] /\ held'[c] = held[c] /\ answer'[c] = answer[c]
          /\ events' = events /\ devices' = devices
      BY DEF Begin, IInv, TypeOK, Shape, tables
    <2>2. signals[c] = NoSignals /\ NoSignals \in Signals /\ NoSignals.travel = 0
      BY DEF IInv, Sound, Query, NoSignals, Signals
    <2>3. Started(c)'
      BY <1>1, <2>1 DEF Started, IInv, TypeOK
    <2>4. Fits(c, "suspicious", signals[c], held[c])'
      BY <2>1, <2>2, <2>3 DEF Fits, Query, PastIp, PastGeo, PastDevice
    <2> QED
      BY <2>1, <2>2, <2>4 DEF Sound, IInv, Fits
  <1> QED
    BY <1>2, <1>4, <1>5, <1>6, <1>7 DEF IInv

\* An evaluation is asked for.
LEMMA AskStep ==
    ASSUME IInv, [Next]_vars, NEW c \in Caller, Ask(c)
    PROVE  IInv'
  <1>1. PICK u \in User, a \in Address, d \in Fingerprint \cup {None} : Begin(c, u, a, d)
    BY DEF Ask
  <1>2. pc[c] = "idle" /\ c # Simulator /\ sim' = sim
    BY RiskConstants DEF Ask, MayCall
  <1>3. sim' \in [attack : {sim.attack}, left : 0..MaxAttempts, blocked : {sim.blocked},
                  flagged : {sim.flagged}]
    BY <1>2 DEF IInv, Shape
  <1> QED
    BY <1>1, <1>2, <1>3, BeginStep

\* The next attempt of a simulation (attack_simulator.py:121-150).
LEMMA AttemptStep ==
    ASSUME IInv, [Next]_vars, Attempt
    PROVE  IInv'
  <1> DEFINE kind == sim.attack
  <1>1. pc[Simulator] = "attempt" /\ sim.left > 0 /\ Simulator \in Caller
    BY DEF Attempt, MoreAttempts, Caller
  <1>2. kind \in Attacks
    BY <1>1 DEF IInv, Shape
  <1>3. kind.addresses \subseteq Address /\ kind.device \in Fingerprint \cup {None}
    BY <1>2 DEF Attacks, Stuffing, OneSource, Replay
  <1>4. PICK a \in kind.addresses : Begin(Simulator, SimUser, a, kind.device)
    BY DEF Attempt
  <1>5. sim' \in [attack : {sim.attack}, left : 0..MaxAttempts, blocked : {sim.blocked},
                  flagged : {sim.flagged}]
    <2>1. sim' = [sim EXCEPT !.left = @ - 1]
      BY DEF Attempt
    <2>2. sim.left \in 0..MaxAttempts /\ MaxAttempts \in Nat
      BY RiskConstants DEF IInv, TypeOK
    <2>3. sim.left - 1 \in 0..MaxAttempts
      BY <1>1, <2>2
    <2> QED
      BY <2>1, <2>3 DEF IInv, Shape
  <1> QED
    BY <1>1, <1>2, <1>3, <1>4, <1>5, BeginStep

\* c is where it was, or is the simulation and asks nothing.
Untouched(c) ==
    \/ pc'[c] = pc[c]
    \/ c = Simulator /\ pc[c] \notin Query /\ pc'[c] \notin Query

\* A step that touches no call but the simulation's own position between two attempts.
LEMMA QuietStep ==
    ASSUME IInv, [Next]_vars, TypeOK', UNCHANGED <<request, signals, held, answer, began>>,
           \A c \in Caller : Untouched(c),
           sim' \in [attack : Attacks \cup {None}, left : 0..MaxAttempts,
                     blocked : {sim.blocked}, flagged : {sim.flagged}],
           pc'[Simulator] \notin {"idle", "done"} => sim'.attack \in Attacks
    PROVE  IInv'
  <1>1. Grown
    BY Grows DEF IInv
  <1>2. Shape'
    <2>1. /\ sim' \in [attack : Attacks \cup {None},
                       left : 0..MaxAttempts, blocked : Nat, flagged : Nat]
          /\ held' = [c \in Caller |-> held'[c]]
      BY DEF IInv, Shape
    <2>2. \A c \in Evaluation : pc'[c] = pc[c]
      BY RiskConstants DEF Caller, Untouched
    <2> QED
      BY <2>1, <2>2 DEF IInv, Shape
  <1>3. Simulated'
    BY DEF IInv, Simulated, Caller, Shape, Untouched
  <1>4. ASSUME NEW c \in Caller, pc'[c] = pc[c] PROVE Sound(c)'
    BY <1>1, <1>4, Others DEF Kept, IInv
  <1>5. ASSUME NEW c \in Caller, c = Simulator, pc[c] \notin Query, pc'[c] \notin Query
        PROVE  Sound(c)'
    BY <1>5 DEF IInv, Sound, Simulated
  <1> QED
    BY <1>2, <1>3, <1>4, <1>5 DEF IInv, Untouched

\* Other programs insert a row.
LEMMA InsertStep ==
    ASSUME IInv, [Next]_vars, Insert
    PROVE  IInv'
  <1>1. UNCHANGED <<schema, now, pc, request, signals, held, answer, began, sim, faults>>
    BY DEF Insert
  <1>2. TypeOK'
    <2>1. /\ events' \in Seq(Logins) /\ ipHistory' \in Seq(Histories)
          /\ \A t \in {events', ipHistory'} : \A i \in DOMAIN t : t[i].at <= now
      <3>1. ASSUME NEW e \in Logins, e.at = now, events' = Append(events, e)
            PROVE  events' \in Seq(Logins) /\ \A i \in DOMAIN events' : events'[i].at <= now
        BY <3>1, RiskConstants DEF IInv, TypeOK
      <3>2. ASSUME NEW e \in Histories, e.at = now, ipHistory' = Append(ipHistory, e)
            PROVE  /\ ipHistory' \in Seq(Histories)
                   /\ \A i \in DOMAIN ipHistory' : ipHistory'[i].at <= now
        BY <3>2, RiskConstants DEF IInv, TypeOK
      <3> QED
        BY <3>1, <3>2 DEF Insert, IInv, TypeOK
    <2>2. devices' \subseteq Registrations
      BY DEF Insert, IInv, TypeOK
    <2> QED
      BY <1>1, <2>1, <2>2 DEF IInv, TypeOK
  <1>3. sim' \in [attack : Attacks \cup {None}, left : 0..MaxAttempts,
                  blocked : {sim.blocked}, flagged : {sim.flagged}]
    BY <1>1 DEF IInv, Shape
  <1>4. pc'[Simulator] \notin {"idle", "done"} =>
           sim'.attack \in Attacks
    BY <1>1 DEF IInv, Shape
  <1> QED
    BY <1>1, <1>2, <1>3, <1>4, QuietStep DEF Untouched

\* The clock goes on.
LEMMA TickStep ==
    ASSUME IInv, [Next]_vars, Tick
    PROVE  IInv'
  <1>1. /\ UNCHANGED <<schema, events, ipHistory, devices, pc, request, signals, held, answer,
                       began, sim, faults>>
        /\ now' = now + 1 /\ now < MaxTime
    BY DEF Tick, tables
  <1>2. TypeOK'
    <2>1. now' \in 0..MaxTime /\ \A n \in Nat : n <= now => n <= now'
      BY <1>1, RiskConstants DEF IInv, TypeOK
    <2>2. \A t \in {events, ipHistory} : \A i \in DOMAIN t : t[i].at \in Nat
      BY RiskConstants DEF IInv, TypeOK
    <2> QED
      BY <1>1, <2>1, <2>2 DEF IInv, TypeOK
  <1>3. sim' \in [attack : Attacks \cup {None}, left : 0..MaxAttempts,
                  blocked : {sim.blocked}, flagged : {sim.flagged}]
    BY <1>1 DEF IInv, Shape
  <1>4. pc'[Simulator] \notin {"idle", "done"} =>
           sim'.attack \in Attacks
    BY <1>1 DEF IInv, Shape
  <1> QED
    BY <1>1, <1>2, <1>3, <1>4, QuietStep DEF Untouched

\* A simulation begins, or reports (attack_simulator.py:40-109).
LEMMA SimulationStep ==
    ASSUME IInv, [Next]_vars, Simulate \/ Report
    PROVE  IInv'
  <1>1. Simulator \in Caller
    BY DEF Caller
  <1>2. CASE Simulate
    <2>1. PICK k \in Attacks, n \in 0..MaxAttempts :
             sim' = [sim EXCEPT !.attack = k, !.left = n]
      BY <1>2 DEF Simulate
    <2>2. /\ UNCHANGED <<schema, events, ipHistory, devices, now, request, signals, held, answer,
                         began, faults>>
          /\ pc' = [pc EXCEPT ![Simulator] = "attempt"] /\ pc[Simulator] = "idle"
      BY <1>2 DEF Simulate, MayCall, tables
    <2>3. sim' \in [attack : Attacks, left : 0..MaxAttempts,
                    blocked : {sim.blocked}, flagged : {sim.flagged}]
      BY <2>1 DEF IInv, Shape
    <2>4. TypeOK'
      BY <1>1, <2>2, <2>3 DEF IInv, TypeOK, Query
    <2>5. \A c \in Caller : Untouched(c)
      <3>1. pc[Simulator] \notin Query /\ pc'[Simulator] \notin Query
        BY <1>1, <2>2 DEF IInv, TypeOK, Query
      <3> QED
        BY <2>2, <3>1 DEF IInv, TypeOK, Untouched
    <2>6. sim'.attack \in Attacks
      BY <2>3
    <2>7. sim' \in [attack : Attacks \cup {None}, left : 0..MaxAttempts,
                    blocked : {sim.blocked}, flagged : {sim.flagged}]
      BY <2>3
    <2> QED
      BY <2>2, <2>4, <2>5, <2>6, <2>7, QuietStep
  <1>3. CASE Report
    <2>1. /\ UNCHANGED <<schema, events, ipHistory, devices, now, request, signals, held, answer,
                         began, sim, faults>>
          /\ pc' = [pc EXCEPT ![Simulator] = "done"] /\ pc[Simulator] = "attempt"
      BY <1>3 DEF Report, tables
    <2>2. sim' \in [attack : Attacks \cup {None}, left : 0..MaxAttempts,
                    blocked : {sim.blocked}, flagged : {sim.flagged}]
      BY <2>1 DEF IInv, Shape
    <2>3. TypeOK'
      BY <1>1, <2>1, <2>2 DEF IInv, TypeOK, Query
    <2>4. \A c \in Caller : Untouched(c)
      <3>1. pc[Simulator] \notin Query /\ pc'[Simulator] \notin Query
        BY <1>1, <2>1 DEF IInv, TypeOK, Query
      <3> QED
        BY <2>1, <3>1 DEF IInv, TypeOK, Untouched
    <2>5. pc'[Simulator] = "done"
      BY <1>1, <2>1 DEF IInv, TypeOK
    <2> QED
      BY <2>1, <2>2, <2>3, <2>4, <2>5, QuietStep
  <1> QED
    BY <1>2, <1>3

-----------------------------------------------------------------------------
(* The theorems. *)

\* IInv holds initially.
LEMMA InitInv == Init => IInv
  <1> SUFFICES ASSUME Init PROVE IInv
    OBVIOUS
  <1>1. NoSignals \in Signals
    BY DEF NoSignals, Signals
  <1>2. TypeOK
    BY <1>1, RiskConstants DEF Init, TypeOK, Nothing, Query
  <1>3. Shape /\ Simulated
    BY RiskConstants DEF Init, Shape, Simulated, Nothing, Query, Caller
  <1>4. \A c \in Caller : Sound(c)
    BY DEF Init, Sound, Nothing, Query
  <1> QED
    BY <1>2, <1>3, <1>4 DEF IInv

\* Every step keeps IInv.
LEMMA NextInv ==
    ASSUME IInv, [Next]_vars
    PROVE  IInv'
  <1>1. ASSUME NEW c \in Caller, Ask(c) PROVE IInv'
    BY <1>1, AskStep
  <1>2. ASSUME NEW c \in Caller, Evaluate(c) PROVE IInv'
    BY <1>2, CountFailuresStep, CheckSeenStep, UsualCountryStep, CurrentCountryStep,
       TypicalHourStep, CheckDeviceStep, LastLoginStep, CurrentLocationStep, QueryFailsStep
       DEF Evaluate
  <1>3. CASE UNCHANGED vars
    <2>1. UNCHANGED <<schema, events, ipHistory, devices, now, pc, request, signals, held, answer,
                      began, sim, faults>>
      BY <1>3 DEF vars, tables
    <2>2. TypeOK'
      BY <2>1 DEF IInv, TypeOK
    <2>3. sim' \in [attack : Attacks \cup {None}, left : 0..MaxAttempts,
                    blocked : {sim.blocked}, flagged : {sim.flagged}]
      BY <2>1 DEF IInv, Shape
    <2>4. pc'[Simulator] \notin {"idle", "done"} =>
             sim'.attack \in Attacks
      BY <2>1 DEF IInv, Shape
    <2> QED
      BY <2>1, <2>2, <2>3, <2>4, QuietStep DEF Untouched
  <1>4. CASE Next
    BY <1>1, <1>2, <1>3, <1>4, AttemptStep, SimulationStep, InsertStep, TickStep DEF Next, Rest
  <1> QED
    BY <1>3, <1>4

\* The inductive invariant.
THEOREM Invariant == Spec => []IInv
  BY InitInv, NextInv, PTL DEF Spec

\* Type correctness.
THEOREM TypeCorrect == Spec => []TypeOK
  <1>1. IInv => TypeOK
    BY DEF IInv
  <1> QED
    BY <1>1, Invariant, PTL

\* An answer is the default, or justified.
LEMMA AnswerIsSound ==
    ASSUME IInv, NEW c \in Caller, Over(c), Scored(c)
    PROVE  \/ answer[c].kind = "default" /\ answer[c].signals = Default
           \/ answer[c].kind = "computed" /\ Justified(c, answer[c].signals)
  BY DEF IInv, Sound, Over, Scored

\* Two places that are apart are of a user with a row.
LEMMA TravelledHasRows ==
    ASSUME NEW c \in Caller, TravelTrue(c, 95)
    PROVE  HasRows(request[c].user)
  BY DEF TravelTrue, TwoPlaces, HasRows

\* A user nothing is known of is a low risk, and so is a call with a failed query
\* (risk_scorer.py:96-101, :397-400).
THEOREM UnknownIsLow == Spec => []NoRecordIsLow
  <1>1. ASSUME IInv PROVE NoRecordIsLow
    <2> SUFFICES ASSUME NEW c \in Caller, Over(c), Scored(c),
                        answer[c].kind = "default" \/ Unknown(c)
                 PROVE  Level(answer[c].signals) = "low"
      BY DEF NoRecordIsLow
    <2> DEFINE s == answer[c].signals
    <2>1. CASE answer[c].kind = "default"
      BY <1>1, <2>1, AnswerIsSound, DefaultIsLow, Bounds
    <2>2. CASE answer[c].kind # "default"
      <3>1. Justified(c, s) /\ s \in Signals
        BY <1>1, <2>2, AnswerIsSound DEF Justified
      <3>2. s.geo = 20 /\ s.travel = 0
        BY <2>2, <3>1, TravelledHasRows DEF Justified, GeoTrue, TravelTrue, Unknown
      <3>3. s.ip \in {10, 40} /\ s.device \in {5, 30}
        <4>1. Len(events) \in Nat /\ SuspiciousAfter \in Nat
          BY <1>1, RiskConstants DEF IInv, TypeOK
        <4>2. FailuresBefore(Len(events), request[c].address) \in Nat
          BY <4>1, MoreFailures
        <4> QED
          BY <2>2, <3>1, <4>1, <4>2 DEF Justified, IpTrue, DeviceTrue, Unknown
      <3>4. Score(s) <= 30
        BY <3>1, <3>2, <3>3, UnremarkableScore
      <3> QED
        BY <3>1, <3>4, Bounds
    <2> QED
      BY <2>1, <2>2
  <1> QED
    BY <1>1, Invariant, PTL

\* A block takes four bad signs at once, each of them recorded, and times without a zone
\* (risk_scorer.py:103-110, :405).
THEOREM BlockJustified == Spec => []BlockNeedsRecord
  <1>1. ASSUME IInv PROVE BlockNeedsRecord
    <2> SUFFICES ASSUME NEW c \in Caller, Over(c), Scored(c),
                        Action(answer[c].signals) = "block"
                 PROVE  /\ ~schema.aware
                        /\ FailuresBefore(Len(events), request[c].address) > SuspiciousAfter
                        /\ TwoCountries(request[c].user, request[c].address)
                        /\ TwoPlaces(request[c].user, request[c].address)
                        /\ request[c].device # None
                        /\ <<request[c].user, request[c].device>> \notin began[c].devices
      BY DEF BlockNeedsRecord, TwoCountries, TwoPlaces
    <2> DEFINE s == answer[c].signals
    <2>1. s # Default
      <3>1. Default \in Signals /\ Score(Default) <= 30 /\ Score(Default) \in Nat
        BY DefaultIsLow, ScoreBounds
      <3> QED
        BY <3>1, Bounds
    <2>2. Justified(c, s) /\ s \in Signals
      BY <1>1, <2>1, AnswerIsSound DEF Justified
    <2>3. Score(s) > 70 /\ Score(s) \in Nat
      BY <2>2, Bounds, ScoreBounds
    <2>4. 25 * s.ip + 25 * s.geo + 15 * s.time + 15 * s.device + 20 * s.travel >= 7100
      BY <2>2, <2>3, ScoreBounds DEF Signals
    <2>5. /\ s.ip \in {0, 10, 40, 80} /\ s.geo \in {0, 5, 20, 30, 70} /\ s.time \in {0, 5, 20, 50}
          /\ s.device \in {0, 5, 30, 60} /\ s.travel \in {0, 20, 95}
      BY <2>2 DEF Signals
    <2>6. s.ip = 80 /\ s.geo = 70 /\ s.device = 60 /\ s.travel = 95
      BY <2>4, <2>5
    <2> QED
      BY <2>2, <2>6 DEF Justified, IpTrue, GeoTrue, DeviceTrue, TravelTrue
  <1> QED
    BY <1>1, Invariant, PTL

\* The signal of an address is true of the call, whatever was recorded between its
\* queries (risk_scorer.py:140-173).
THEOREM IpSignalTrue == Spec => []IpSignalJustified
  <1>1. ASSUME IInv PROVE IpSignalJustified
    <2> SUFFICES ASSUME NEW c \in Caller, Over(c), answer[c].kind = "computed"
                 PROVE  LET u == request[c].user
                            a == request[c].address
                            few == FailuresBefore(began[c].events, a) <= SuspiciousAfter
                            used(n) == \E i \in 1..n : events[i].user = u /\ events[i].ip = a
                        IN  CASE answer[c].signals.ip = 80 ->
                                    FailuresBefore(Len(events), a) > SuspiciousAfter
                              [] answer[c].signals.ip = 40 -> few /\ ~used(began[c].events)
                              [] answer[c].signals.ip = 10 -> few /\ used(Len(events))
                              [] OTHER -> FALSE
      BY DEF IpSignalJustified
    <2> DEFINE x == answer[c].signals.ip
    <2>1. IpTrue(c, x)
      BY <1>1 DEF IInv, Sound, Over, Justified
    <2>2. 80 # 40 /\ 80 # 10 /\ 40 # 10
      OBVIOUS
    <2> QED
      BY <2>1, <2>2, Zenon DEF IpTrue, FewFailures, Used
  <1> QED
    BY <1>1, Invariant, PTL

\* A login as usual is a low risk (risk_scorer.py:399-400).
THEOREM FamiliarIsAllowed == Spec => []FamiliarIsLow
  <1>1. ASSUME IInv PROVE FamiliarIsLow
    <2> DEFINE U(c) == request[c].user
               A(c) == request[c].address
    <2> SUFFICES ASSUME NEW c \in Caller, Over(c), Scored(c),
                        Used(began[c].events, U(c), A(c)),
                        <<U(c), request[c].device>> \in began[c].devices,
                        AtHome(U(c), A(c)),
                        FailuresBefore(Len(events), A(c)) <= SuspiciousAfter
                 PROVE  Level(answer[c].signals) = "low"
      BY DEF FamiliarIsLow, Used
    <2> DEFINE s == answer[c].signals
    <2>1. CASE s = Default
      BY <2>1, DefaultIsLow, Bounds
    <2>2. CASE Justified(c, s)
      <3>1. s \in Signals /\ Started(c) /\ began[c].devices \subseteq Registrations
        BY <1>1, <2>2 DEF Justified, Started, IInv, TypeOK
      <3>2. s.ip = 10
        <4>1. /\ FailuresBefore(Len(events), A(c)) \in Nat /\ SuspiciousAfter \in Nat
          BY <1>1, MoreFailures, RiskConstants DEF IInv, TypeOK
        <4> QED
          BY <2>2, <4>1 DEF Justified, IpTrue
      <3>3. s.device = 5
        <4>1. request[c].device # None
          BY <3>1, RiskConstants
        <4> QED
          BY <2>2, <4>1 DEF Justified, DeviceTrue
      <3>4. s.geo \in {5, 20, 30}
        <4>1. ~TwoCountries(U(c), A(c))
          BY DEF TwoCountries, AtHome
        <4> QED
          BY <2>2, <4>1 DEF Justified, GeoTrue
      <3>5. s.travel = 0
        <4>1. ASSUME TwoPlaces(U(c), A(c)) PROVE FALSE
          <5>1. PICK t \in {events, ipHistory} : \E i \in DOMAIN events, j \in DOMAIN t :
                  /\ events[i].user = U(c) /\ t[j].ip = A(c)
                  /\ None \notin {events[i].place, t[j].place}
                  /\ Flight[events[i].place][t[j].place] > 0
            BY <4>1 DEF TwoPlaces
          <5>2. PICK i \in DOMAIN events, j \in DOMAIN t :
                  /\ events[i].user = U(c) /\ t[j].ip = A(c)
                  /\ None \notin {events[i].place, t[j].place}
                  /\ Flight[events[i].place][t[j].place] > 0
            BY <5>1
          <5>3. events[i].place = t[j].place
            BY <5>2 DEF AtHome
          <5>4. events[i].place \in Place
            BY <1>1, <5>2, RiskConstants DEF IInv, TypeOK
          <5> QED
            BY <5>2, <5>3, <5>4, RiskConstants
        <4> QED
          BY <2>2, <4>1 DEF Justified, TravelTrue
      <3>6. Score(s) <= 30
        BY <3>1, <3>2, <3>3, <3>4, <3>5, UnremarkableScore
      <3> QED
        BY <3>1, <3>6, Bounds
    <2> QED
      BY <1>1, <2>1, <2>2, AnswerIsSound
  <1> QED
    BY <1>1, Invariant, PTL
=============================================================================
