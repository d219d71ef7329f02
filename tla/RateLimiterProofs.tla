------------------------- MODULE RateLimiterProofs -------------------------
(***************************************************************************)
(* Proofs about RateLimiter for every finite set of requests, every        *)
(* length of a minute, limits, and delays and lives of counters that       *)
(* LimiterConstants allows, and any number of failed exchanges.            *)
(***************************************************************************)
EXTENDS RateLimiter, FiniteSetTheorems, TLAPS

-----------------------------------------------------------------------------
(* Requests by the counters they have to do with. *)

\* Those that passed counter k on an answer of Redis.
Passed(k) ==
    {r \in Req : /\ Minute(r) = k[2]
                 /\ \/ addr[r] = k[1] /\ "ip" \in counted[r]
                    \/ tenant[r] = k[1] /\ "tenant" \in counted[r]}

\* Those that are through with counter k, however they came out of it.
Asked(k) ==
    {r \in Req : /\ Minute(r) = k[2]
                 /\ \/ addr[r] = k[1] /\ pc[r] \notin {"idle", "ip"}
                    \/ tenant[r] = k[1] /\ pc[r] \in {"admitted", "tenant_rejected"}}

\* Those of address a that its counter, or a failure, let go on in minute m.
LetOn(a, m) ==
    {r \in Req : /\ addr[r] = a /\ Minute(r) = m
                 /\ pc[r] \in {"tenant", "admitted", "tenant_rejected"}}

\* A request may still be counted under k.
Open(k) == now < Window * (k[2] + 1) + MaxDelay

-----------------------------------------------------------------------------
(* The inductive invariant. *)

\* A request is under way for MaxDelay ticks at most.
InTime == \A r \in Req : at[r] <= now /\ (Checking(r) => now <= at[r] + MaxDelay)

\* A request was counted by the checks it has behind it.
Stages ==
    \A r \in Req :
        /\ pc[r] \in {"idle", "ip"} => counted[r] = {}
        /\ "tenant" \in counted[r] => pc[r] = "admitted"
        /\ pc[r] = "tenant" => tenant[r] # NoTenant

\* A counter lives until nobody can be counted under it any more.
Kept == \A k \in Key : count[k] > 0 => expires[k] >= Window * k[2] + Ttl

\* While it may be asked, a counter has counted all that it let pass.
Capped ==
    \A k \in Key :
        /\ Cardinality(Passed(k)) <= Limit(k)
        /\ Open(k) => Cardinality(Passed(k)) <= count[k]

\* A counter has counted nobody twice, save for failures.
Justified == \A k \in Key : count[k] <= faults + Cardinality(Asked(k))

\* A request goes on because its address's counter let it pass, or by a failure.
Accounted ==
    \A a \in Addr, m \in Minutes :
        Cardinality(LetOn(a, m)) <= Cardinality(Passed(<<a, m>>)) + faults

\* A request was stopped because others had taken the limit.
StoppedByOthers ==
    \A r \in Req :
        /\ pc[r] = "ip_rejected" =>
              IpLimit <= faults + Cardinality(Asked(<<addr[r], Minute(r)>>) \ {r})
        /\ pc[r] = "tenant_rejected" =>
              tenant[r] \in Tenant /\
              TenantLimit <= faults + Cardinality(Asked(<<tenant[r], Minute(r)>>) \ {r})

\* Counters that outlive the last that was counted by more than Ttl.
Stuck ==
    {k \in Key : count[k] > 0 /\ expires[k] >= Window * (k[2] + 1) + MaxDelay + Ttl}

\* There is one of them at most for every failure.
Passing == IsFiniteSet(Stuck) /\ Cardinality(Stuck) <= faults

IInv ==
    /\ TypeOK /\ InTime /\ Stages /\ Kept /\ Capped
    /\ Justified /\ Accounted /\ StoppedByOthers /\ Passing

-----------------------------------------------------------------------------
(* Numbers and sizes. *)

\* A minute begins before and ends after the times that are in it.
LEMMA MinuteFacts ==
    ASSUME NEW t \in Nat
    PROVE  /\ t \div Window \in Nat
           /\ Window * (t \div Window) <= t
           /\ t < Window * (t \div Window + 1)
           /\ Window * (t \div Window + 1) = Window * (t \div Window) + Window
           /\ t <= MaxTime => t \div Window \in Minutes
  BY LimiterConstants DEF Minutes

\* The same for a minute of a counter.
LEMMA KeyFacts ==
    ASSUME NEW k \in Key
    PROVE  /\ k[1] \in Addr \cup Tenant /\ k[2] \in Minutes /\ k[2] \in Nat
           /\ k = <<k[1], k[2]>>
           /\ Window * k[2] \in Nat
           /\ Window * (k[2] + 1) = Window * k[2] + Window
           /\ Window * k[2] <= MaxTime
           /\ Limit(k) \in Nat
  <1>1. /\ k[1] \in Addr \cup Tenant /\ k[2] \in Minutes /\ k = <<k[1], k[2]>>
    BY DEF Key
  <1>2. MaxTime \div Window \in Nat /\ Window * (MaxTime \div Window) <= MaxTime
    BY MinuteFacts, LimiterConstants
  <1>3. k[2] \in Nat /\ k[2] <= MaxTime \div Window
    BY <1>1, <1>2 DEF Minutes
  <1>4. Window * k[2] <= Window * (MaxTime \div Window)
    BY <1>2, <1>3, LimiterConstants
  <1>5. /\ Window * k[2] \in Nat /\ Window * (k[2] + 1) = Window * k[2] + Window
    BY <1>3, LimiterConstants
  <1> QED
    BY <1>1, <1>2, <1>3, <1>4, <1>5, LimiterConstants DEF Limit

\* Sets of requests have a size, which one more raises by one.
LEMMA Sizes ==
    ASSUME NEW S, S \subseteq Req
    PROVE  /\ Cardinality(S) \in Nat
           /\ \A r \in Req \ S : Cardinality(S \cup {r}) = Cardinality(S) + 1
           /\ \A T : T \subseteq S => Cardinality(T) \in Nat /\ Cardinality(T) <= Cardinality(S)
  <1>1. IsFiniteSet(S)
    BY FS_Subset, LimiterConstants
  <1>2. \A T : T \subseteq S => IsFiniteSet(T) /\ Cardinality(T) <= Cardinality(S)
    BY <1>1, FS_Subset
  <1> QED
    BY <1>1, <1>2, FS_AddElement, FS_CardinalityType

\* A step that adds nothing to a finite set of counters, or one of them in a failure,
\* keeps it within the failures.
LEMMA OneMore ==
    ASSUME NEW S, NEW T, NEW k, NEW n \in Nat, NEW m \in Nat,
           IsFiniteSet(S), Cardinality(S) <= n,
           \/ T \subseteq S /\ m >= n
           \/ T \subseteq S \cup {k} /\ m = n + 1
    PROVE  IsFiniteSet(T) /\ Cardinality(T) <= m
  <1>1. /\ IsFiniteSet(S \cup {k})
        /\ Cardinality(S \cup {k}) = IF k \in S THEN Cardinality(S) ELSE Cardinality(S) + 1
    BY FS_AddElement
  <1>2. Cardinality(S) \in Nat /\ Cardinality(S \cup {k}) \in Nat
    BY <1>1, FS_CardinalityType
  <1>3. CASE T \subseteq S /\ m >= n
    <2>1. IsFiniteSet(T) /\ Cardinality(T) <= Cardinality(S)
      BY <1>3, FS_Subset
    <2>2. Cardinality(T) \in Nat
      BY <2>1, FS_CardinalityType
    <2> QED
      BY <1>2, <1>3, <2>1, <2>2
  <1>4. CASE T \subseteq S \cup {k} /\ m = n + 1
    <2>1. IsFiniteSet(T) /\ Cardinality(T) <= Cardinality(S \cup {k})
      BY <1>1, <1>4, FS_Subset
    <2>2. Cardinality(T) \in Nat
      BY <2>1, FS_CardinalityType
    <2> QED
      BY <1>1, <1>2, <1>4, <2>1, <2>2
  <1> QED
    BY <1>3, <1>4

\* Nothing, or one counter in a failure, gets stuck.
LEMMA StuckStep ==
    ASSUME Passing, faults \in Nat, faults' \in Nat, NEW k,
           \/ Stuck' \subseteq Stuck /\ faults' >= faults
           \/ Stuck' \subseteq Stuck \cup {k} /\ faults' = faults + 1
    PROVE  Passing'
  <1> DEFINE S == Stuck  T == Stuck'
  <1>1. /\ IsFiniteSet(S) /\ Cardinality(S) <= faults
        /\ \/ T \subseteq S /\ faults' >= faults
           \/ T \subseteq S \cup {k} /\ faults' = faults + 1
    BY DEF Passing
  <1> HIDE DEF S, T
  <1>2. IsFiniteSet(T) /\ Cardinality(T) <= faults'
    BY <1>1, OneMore
  <1> QED
    BY <1>2 DEF Passing, T

\* The sets of requests are that, and have sizes.
LEMMA SetSizes ==
    /\ \A k : Passed(k) \subseteq Req /\ Cardinality(Passed(k)) \in Nat
    /\ \A k : Asked(k) \subseteq Req /\ Cardinality(Asked(k)) \in Nat
    /\ \A a, m : LetOn(a, m) \subseteq Req /\ Cardinality(LetOn(a, m)) \in Nat
  <1>1. \A k : Passed(k) \subseteq Req /\ Asked(k) \subseteq Req
    BY DEF Passed, Asked
  <1>2. \A a, m : LetOn(a, m) \subseteq Req
    BY DEF LetOn
  <1> QED
    BY <1>1, <1>2, Sizes

-----------------------------------------------------------------------------
\* It holds at the start, when nobody is counted anywhere.
LEMMA InitIInv == Init => IInv
  <1> SUFFICES ASSUME Init PROVE IInv
    OBVIOUS
  <1>1. TypeOK
    BY LimiterConstants DEF Init, TypeOK, Never
  <1>2. InTime /\ Stages /\ Kept /\ Passing
    <2>1. Stuck = {}
      BY DEF Init, Stuck
    <2>2. Passing
      BY <2>1, FS_EmptySet DEF Init, Passing
    <2> QED
      BY <2>2, LimiterConstants DEF Init, InTime, Checking, Stages, Kept
  <1>3. \A k : Passed(k) = {} /\ Asked(k) = {}
    BY DEF Init, Passed, Asked
  <1>4. \A a, m : LetOn(a, m) = {}
    BY DEF Init, LetOn
  <1>5. Cardinality({}) = 0
    BY FS_EmptySet
  <1>6. Capped /\ Justified /\ Accounted
    <2>1. \A k \in Key : count[k] = 0 /\ Limit(k) >= 0
      BY KeyFacts DEF Init
    <2>2. Capped
      BY <1>3, <1>5, <2>1 DEF Capped
    <2>3. Justified /\ Accounted
      BY <1>3, <1>4, <1>5, <2>1 DEF Init, Justified, Accounted
    <2> QED
      BY <2>2, <2>3
  <1>7. StoppedByOthers
    BY DEF Init, StoppedByOthers
  <1> QED
    BY <1>1, <1>2, <1>6, <1>7 DEF IInv

-----------------------------------------------------------------------------
(* A request that arrives, or time that passes, moves nobody past a counter. *)

\* Nobody is nearer to a counter for an arrival.
LEMMA ArriveSets ==
    ASSUME IInv, NEW r \in Req, Arrive(r)
    PROVE  /\ \A k : Passed(k)' = Passed(k) /\ Asked(k)' = Asked(k)
           /\ \A a, m : LetOn(a, m)' = LetOn(a, m)
  <1>1. /\ pc[r] = "idle" /\ pc'[r] = "ip" /\ counted' = counted /\ counted[r] = {}
        /\ \A s \in Req \ {r} : pc'[s] = pc[s] /\ Minute(s)' = Minute(s)
        /\ addr' = addr /\ tenant' = tenant
    BY DEF IInv, TypeOK, Stages, Arrive, Goto, Minute
  <1>2. \A k : Passed(k)' = Passed(k)
    BY <1>1 DEF Passed
  <1>3. \A k : Asked(k)' = Asked(k)
    BY <1>1 DEF Asked
  <1>4. \A a, m : LetOn(a, m)' = LetOn(a, m)
    BY <1>1 DEF LetOn
  <1> QED
    BY <1>2, <1>3, <1>4

\* An arrival keeps the invariant.
LEMMA ArriveStep ==
    ASSUME IInv, NEW r \in Req, Arrive(r)
    PROVE  IInv'
  <1> USE DEF Arrive, Goto
  <1>1. TypeOK'
    BY LimiterConstants DEF IInv, TypeOK
  <1>2. InTime' /\ Stages'
    BY LimiterConstants DEF IInv, TypeOK, InTime, Stages, Checking
  <1>3. Kept' /\ Passing'
    <2>1. Stuck' = Stuck
      BY DEF Stuck
    <2> QED
      BY <2>1 DEF IInv, Kept, Passing
  <1>4. Capped' /\ Justified'
    BY ArriveSets DEF IInv, Capped, Justified, Open, Limit
  <1>5. Accounted'
    BY ArriveSets DEF IInv, Accounted
  <1>6. StoppedByOthers'
    BY ArriveSets DEF IInv, TypeOK, StoppedByOthers, Minute
  <1> QED
    BY <1>1, <1>2, <1>3, <1>4, <1>5, <1>6 DEF IInv

\* Time keeps it: a counter that goes can no longer be asked.
LEMMA TickStep ==
    ASSUME IInv, Tick
    PROVE  IInv'
  <1>1. /\ now' = now + 1 /\ now < MaxTime
        /\ UNCHANGED <<pc, addr, tenant, at, counted, expires, faults>>
        /\ now \in Nat /\ now' \in 0..MaxTime
    BY LimiterConstants DEF Tick, IInv, TypeOK
  <1>2. /\ \A k : Passed(k)' = Passed(k) /\ Asked(k)' = Asked(k)
        /\ \A a, m : LetOn(a, m)' = LetOn(a, m)
    BY <1>1 DEF Passed, Asked, LetOn, Minute
  <1>3. /\ count' \in [Key -> Nat]
        /\ \A k \in Key : \/ count'[k] = count[k] /\ expires[k] > now'
                          \/ count'[k] = 0 /\ expires[k] <= now'
    <2>1. count \in [Key -> Nat] /\ \A k \in Key : expires[k] \in Int
      BY DEF IInv, TypeOK
    <2>2. count' = [k \in Key |-> IF expires[k] <= now' THEN 0 ELSE count[k]]
      BY DEF Tick
    <2>3. now' \in Int
      BY <1>1
    <2> QED
      BY <2>1, <2>2, <2>3
  <1>4. TypeOK'
    BY <1>1, <1>3 DEF IInv, TypeOK
  <1>5. InTime' /\ Stages'
    BY <1>1, LimiterConstants DEF Tick, IInv, TypeOK, InTime, Stages, Checking
  <1>6. Kept' /\ Passing'
    <2>1. Stuck' \subseteq Stuck /\ faults' = faults /\ faults \in Nat
      BY <1>1, <1>3 DEF Stuck, IInv, TypeOK
    <2>2. Passing'
      BY <2>1, StuckStep DEF IInv
    <2> QED
      BY <1>1, <1>3, <2>2 DEF IInv, Kept
  <1>7. Capped'
    <2> SUFFICES ASSUME NEW k \in Key
                 PROVE  /\ Cardinality(Passed(k)') <= Limit(k)
                        /\ Open(k)' => Cardinality(Passed(k)') <= count'[k]
      BY DEF Capped, Limit
    <2>1. Open(k)' => Open(k)
      BY <1>1, KeyFacts, LimiterConstants DEF Open
    <2>2. CASE count'[k] = count[k]
      BY <1>2, <2>1, <2>2 DEF IInv, Capped
    <2>3. CASE expires[k] <= now' /\ count[k] > 0
      <3>1. Window * k[2] + Ttl <= now'
        BY <1>1, <2>3, KeyFacts, LimiterConstants DEF IInv, TypeOK, Kept
      <3>2. ~Open(k)'
        BY <1>1, <3>1, KeyFacts, LimiterConstants DEF Open
      <3> QED
        BY <1>2, <3>2 DEF IInv, Capped
    <2> QED
      BY <1>3, <2>2, <2>3 DEF IInv, TypeOK
  <1>8. Justified'
    BY <1>1, <1>2, <1>3, SetSizes DEF IInv, TypeOK, Justified
  <1>9. Accounted' /\ StoppedByOthers'
    BY <1>1, <1>2 DEF IInv, Accounted, StoppedByOthers, Minute
  <1> QED
    BY <1>4, <1>5, <1>6, <1>7, <1>8, <1>9 DEF IInv

-----------------------------------------------------------------------------
(* A request at a counter. *)

\* The counter it is at may be asked and is still there if anybody was counted; the
\* request is not among those that are through with it.
LEMMA CheckingFacts ==
    ASSUME IInv, NEW r \in Req, Checking(r)
    PROVE  /\ KeyOf(r) \in Key
           /\ KeyOf(r)[1] = (IF pc[r] = "ip" THEN addr[r] ELSE tenant[r])
           /\ KeyOf(r)[2] = Minute(r)
           /\ KeyOf(r)[1] \in Addr <=> pc[r] = "ip"
           /\ Open(KeyOf(r))
           /\ Window * Minute(r) <= now /\ now \in 0..MaxTime
           /\ r \notin Passed(KeyOf(r)) /\ r \notin Asked(KeyOf(r))
           /\ pc[r] \in {"ip", "tenant"}
           /\ pc[r] = "ip" => counted[r] = {}
           /\ pc[r] = "tenant" => "tenant" \notin counted[r] /\ tenant[r] \in Tenant
  <1>1. /\ at[r] \in Nat /\ at[r] <= now /\ now <= at[r] + MaxDelay
        /\ now \in 0..MaxTime /\ at[r] <= MaxTime
    BY LimiterConstants DEF IInv, TypeOK, InTime
  <1>2. /\ Minute(r) \in Minutes /\ Minute(r) \in Nat
        /\ Window * Minute(r) <= at[r] /\ at[r] < Window * (Minute(r) + 1)
        /\ Window * Minute(r) \in Nat
        /\ Window * (Minute(r) + 1) = Window * Minute(r) + Window
    <2> DEFINE q == at[r] \div Window
    <2>1. /\ q \in Nat /\ q \in Minutes
          /\ Window * q <= at[r] /\ at[r] < Window * (q + 1)
          /\ Window * (q + 1) = Window * q + Window
      BY <1>1, MinuteFacts
    <2>2. Window * q \in Nat
      BY <2>1, LimiterConstants
    <2> QED
      BY <2>1, <2>2 DEF Minute
  <1>3. /\ pc[r] \in {"ip", "tenant"}
        /\ pc[r] = "ip" => counted[r] = {}
        /\ pc[r] = "tenant" => "tenant" \notin counted[r] /\ tenant[r] \in Tenant
        /\ addr[r] \in Addr
    BY DEF IInv, TypeOK, Stages, Checking
  <1>4. /\ KeyOf(r) \in Key
        /\ KeyOf(r)[1] = (IF pc[r] = "ip" THEN addr[r] ELSE tenant[r])
        /\ KeyOf(r)[2] = Minute(r)
        /\ KeyOf(r)[1] \in Addr <=> pc[r] = "ip"
    BY <1>2, <1>3, LimiterConstants DEF KeyOf, Key
  <1>5. Open(KeyOf(r))
    BY <1>1, <1>2, <1>4, LimiterConstants DEF Open
  <1>6. r \notin Passed(KeyOf(r)) /\ r \notin Asked(KeyOf(r))
    BY <1>3, <1>4, LimiterConstants DEF Passed, Asked
  <1> QED
    BY <1>1, <1>2, <1>3, <1>4, <1>5, <1>6, LimiterConstants

\* What a request leaves behind when it moves on from its counter: it joins those
\* that are through with it, and those that passed if it was counted as that.
LEMMA MoveSets ==
    ASSUME IInv, NEW r \in Req, Checking(r),
           UNCHANGED <<addr, tenant, at>>,
           NEW l \in {Onward(r), Stopped(r)}, pc' = [pc EXCEPT ![r] = l],
           \/ counted' = counted
           \/ counted' = [counted EXCEPT ![r] = @ \cup {pc[r]}]
    PROVE  /\ \A k \in Key : Asked(k)' =
                IF k = KeyOf(r) THEN Asked(k) \cup {r} ELSE Asked(k)
           /\ \A k \in Key : Passed(k)' =
                IF k = KeyOf(r) /\ counted' # counted THEN Passed(k) \cup {r} ELSE Passed(k)
           /\ \A a \in Addr, m \in Minutes : LetOn(a, m)' =
                IF <<a, m>> = KeyOf(r) /\ l = Onward(r) THEN LetOn(a, m) \cup {r} ELSE LetOn(a, m)
  <1> USE CheckingFacts
  <1>1. \A s \in Req : Minute(s)' = Minute(s)
    BY DEF Minute
  <1>2. /\ pc[r] = "ip" => l \in {"tenant", "admitted", "ip_rejected"}
        /\ pc[r] = "tenant" => l \in {"admitted", "tenant_rejected"}
        /\ pc[r] = "ip" /\ l = "admitted" => tenant[r] = NoTenant
        /\ l = Onward(r) <=> l \notin {"ip_rejected", "tenant_rejected"}
    BY DEF Onward, Stopped, IInv, TypeOK
  <1>3. /\ \A s \in Req \ {r} : pc'[s] = pc[s] /\ counted'[s] = counted[s]
        /\ pc'[r] = l
    BY DEF IInv, TypeOK
  <1>4. addr[r] \in Addr /\ tenant[r] \in Tenant \cup {NoTenant}
    BY DEF IInv, TypeOK
  <1>5. ASSUME NEW k \in Key
        PROVE  Asked(k)' = IF k = KeyOf(r) THEN Asked(k) \cup {r} ELSE Asked(k)
    BY <1>1, <1>2, <1>3, <1>4, KeyFacts, LimiterConstants DEF Asked
  <1>6. ASSUME NEW k \in Key
        PROVE  Passed(k)' = IF k = KeyOf(r) /\ counted' # counted
                            THEN Passed(k) \cup {r} ELSE Passed(k)
    BY <1>1, <1>2, <1>3, <1>4, KeyFacts, LimiterConstants DEF Passed, IInv, TypeOK
  <1>7. ASSUME NEW a \in Addr, NEW m \in Minutes
        PROVE  LetOn(a, m)' = IF <<a, m>> = KeyOf(r) /\ l = Onward(r)
                              THEN LetOn(a, m) \cup {r} ELSE LetOn(a, m)
    <2>1. <<a, m>> = KeyOf(r) <=> pc[r] = "ip" /\ addr[r] = a /\ Minute(r) = m
      BY <1>4, LimiterConstants DEF KeyOf
    <2>2. \A s \in Req \ {r} : s \in LetOn(a, m)' <=> s \in LetOn(a, m)
      BY <1>1, <1>3 DEF LetOn
    <2>3. CASE <<a, m>> = KeyOf(r) /\ l = Onward(r)
      BY <1>1, <1>2, <1>3, <2>1, <2>2, <2>3 DEF LetOn
    <2>4. CASE ~(<<a, m>> = KeyOf(r) /\ l = Onward(r))
      BY <1>1, <1>2, <1>3, <2>1, <2>2, <2>4 DEF LetOn
    <2> QED
      BY <2>3, <2>4
  <1> QED
    BY <1>5, <1>6, <1>7

\* Who was stopped by others stays so: nobody comes back to a counter.
LEMMA StillStopped ==
    ASSUME IInv, NEW s \in Req, pc'[s] = pc[s],
           UNCHANGED <<addr, tenant, at>>, faults' \in Nat, faults' >= faults,
           \A k \in Key : Asked(k) \subseteq Asked(k)'
    PROVE  /\ pc'[s] = "ip_rejected" =>
                IpLimit <= faults' + Cardinality(Asked(<<addr[s], Minute(s)>>)' \ {s})
           /\ pc'[s] = "tenant_rejected" =>
                tenant[s] \in Tenant /\
                TenantLimit <= faults' + Cardinality(Asked(<<tenant[s], Minute(s)>>)' \ {s})
  <1>1. Minute(s) \in Minutes /\ addr[s] \in Addr
    <2>1. at[s] \in Nat /\ at[s] <= MaxTime /\ addr[s] \in Addr
      BY LimiterConstants DEF IInv, TypeOK
    <2> QED
      BY <2>1, MinuteFacts DEF Minute
  <1>2. ASSUME NEW k \in Key, NEW L \in Nat,
               L <= faults + Cardinality(Asked(k) \ {s})
        PROVE  L <= faults' + Cardinality(Asked(k)' \ {s})
    <2>1. Asked(k)' \ {s} \subseteq Req /\ Asked(k) \ {s} \subseteq Asked(k)' \ {s}
      BY DEF Asked
    <2>2. /\ Cardinality(Asked(k) \ {s}) \in Nat
          /\ Cardinality(Asked(k)' \ {s}) \in Nat
          /\ Cardinality(Asked(k) \ {s}) <= Cardinality(Asked(k)' \ {s})
      BY <2>1, Sizes
    <2>3. faults \in Nat
      BY DEF IInv, TypeOK
    <2> QED
      BY <1>2, <2>2, <2>3
  <1>3. addr'[s] = addr[s] /\ tenant'[s] = tenant[s] /\ Minute(s)' = Minute(s)
    BY DEF Minute
  <1>4. CASE pc[s] = "ip_rejected"
    <2>1. PICK k \in Key : k = <<addr[s], Minute(s)>>
      BY <1>1 DEF Key
    <2>2. IpLimit <= faults + Cardinality(Asked(k) \ {s})
      BY <1>4, <2>1 DEF IInv, StoppedByOthers
    <2>3. IpLimit <= faults' + Cardinality(Asked(k)' \ {s})
      BY <1>2, <2>2, LimiterConstants
    <2> QED
      BY <1>3, <1>4, <2>1, <2>3
  <1>5. CASE pc[s] = "tenant_rejected"
    <2>1. tenant[s] \in Tenant
      BY <1>5 DEF IInv, StoppedByOthers
    <2>2. PICK k \in Key : k = <<tenant[s], Minute(s)>>
      BY <1>1, <2>1 DEF Key
    <2>3. TenantLimit <= faults + Cardinality(Asked(k) \ {s})
      BY <1>5, <2>2 DEF IInv, StoppedByOthers
    <2>4. TenantLimit <= faults' + Cardinality(Asked(k)' \ {s})
      BY <1>2, <2>3, LimiterConstants
    <2> QED
      BY <1>3, <1>5, <2>1, <2>2, <2>4
  <1> QED
    BY <1>4, <1>5

\* An answer of Redis counts the request once more and lets it pass or stops it.
LEMMA CheckStep ==
    ASSUME IInv, NEW r \in Req, CheckLimit(r)
    PROVE  IInv'
  <1>k. PICK k0 \in Key : k0 = KeyOf(r)
    BY CheckingFacts DEF CheckLimit
  <1>l. PICK l \in {Onward(r), Stopped(r)} :
          l = IF Within(k0) THEN Onward(r) ELSE Stopped(r)
    OBVIOUS
  <1>1. /\ Checking(r)
        /\ UNCHANGED <<now, addr, tenant, at, faults>>
        /\ pc' = [pc EXCEPT ![r] = l]
        /\ counted' = IF Within(k0) THEN [counted EXCEPT ![r] = @ \cup {pc[r]}] ELSE counted
        /\ count' = [count EXCEPT ![k0] = @ + 1]
        /\ expires' = [expires EXCEPT ![k0] = now + Ttl]
    BY <1>k, <1>l DEF CheckLimit, IncrExpire, ExpireTime, Goto
  <1>2. /\ k0 \in Key /\ Open(k0) /\ Window * k0[2] <= now /\ now \in 0..MaxTime
        /\ k0[2] = Minute(r) /\ k0 = <<k0[1], Minute(r)>>
        /\ k0[1] = (IF pc[r] = "ip" THEN addr[r] ELSE tenant[r])
        /\ k0[1] \in Addr <=> pc[r] = "ip"
        /\ r \notin Passed(k0) /\ r \notin Asked(k0)
        /\ pc[r] \in {"ip", "tenant"}
        /\ pc[r] = "ip" => counted[r] = {}
        /\ pc[r] = "tenant" => "tenant" \notin counted[r] /\ tenant[r] \in Tenant
    BY <1>k, <1>1, CheckingFacts, KeyFacts
  <1>3. /\ pc[r] = "ip" => Onward(r) \in {"tenant", "admitted"} /\ Stopped(r) = "ip_rejected"
        /\ pc[r] = "tenant" => Onward(r) = "admitted" /\ Stopped(r) = "tenant_rejected"
        /\ Onward(r) = "tenant" => tenant[r] # NoTenant
    BY DEF Onward, Stopped
  <1>4. counted' # counted <=> Within(k0)
    <2>1. pc[r] \notin counted[r] /\ counted \in [Req -> SUBSET {"ip", "tenant"}]
      BY <1>2 DEF IInv, TypeOK
    <2>2. Within(k0) => counted'[r] = counted[r] \cup {pc[r]}
      BY <1>1, <2>1
    <2> QED
      BY <1>1, <2>1, <2>2
  <1>5. /\ \A k \in Key : Asked(k)' = IF k = k0 THEN Asked(k) \cup {r} ELSE Asked(k)
        /\ \A k \in Key : Passed(k)' =
             IF k = k0 /\ Within(k0) THEN Passed(k) \cup {r} ELSE Passed(k)
        /\ \A a \in Addr, m \in Minutes : LetOn(a, m)' =
             IF <<a, m>> = k0 /\ l = Onward(r) THEN LetOn(a, m) \cup {r} ELSE LetOn(a, m)
    BY <1>k, <1>1, <1>4, MoveSets
  <1>6. /\ now \in Nat /\ Ttl \in Nat /\ now + Ttl \in 0..Never
        /\ count \in [Key -> Nat] /\ expires \in [Key -> 0..Never]
    BY <1>2, LimiterConstants DEF IInv, TypeOK, Never
  <1>7. TypeOK'
    BY <1>1, <1>2, <1>3, <1>6, <1>l, LimiterConstants DEF IInv, TypeOK
  <1>8. InTime' /\ Stages'
    BY <1>1, <1>2, <1>3, <1>l DEF IInv, TypeOK, InTime, Stages, Checking
  <1>9. Kept' /\ Passing'
    <2>1. now + Ttl >= Window * k0[2] + Ttl
      BY <1>2, <1>6, KeyFacts
    <2>2. now + Ttl < Window * (k0[2] + 1) + MaxDelay + Ttl
      BY <1>2, <1>6, KeyFacts, LimiterConstants DEF Open
    <2>3. Stuck' \subseteq Stuck /\ faults' = faults /\ faults \in Nat
      <3>1. ASSUME NEW k \in Stuck' PROVE k \in Stuck
        <4>1. k \in Key /\ Window * (k[2] + 1) \in Nat /\ Window * (k0[2] + 1) \in Nat
              /\ MaxDelay \in Nat
          BY <1>2, KeyFacts, LimiterConstants DEF Stuck
        <4>2. k # k0
          BY <1>1, <1>2, <1>6, <2>2, <4>1 DEF Stuck
        <4> QED
          BY <1>1, <1>6, <4>1, <4>2 DEF Stuck
      <3> QED
        BY <1>1, <3>1 DEF IInv, TypeOK
    <2>4. Passing'
      BY <2>3, StuckStep DEF IInv
    <2> QED
      BY <1>1, <1>2, <1>6, <2>1, <2>4 DEF IInv, Kept
  <1>10. Capped'
    <2> SUFFICES ASSUME NEW k \in Key
                 PROVE  /\ Cardinality(Passed(k)') <= Limit(k)
                        /\ Open(k) => Cardinality(Passed(k)') <= count'[k]
      BY <1>1 DEF Capped, Limit, Open
    <2>1. /\ Cardinality(Passed(k)) <= Limit(k) /\ (Open(k) => Cardinality(Passed(k)) <= count[k])
          /\ Cardinality(Passed(k)) \in Nat /\ Limit(k) \in Nat /\ count[k] \in Nat
      BY <1>6, SetSizes, KeyFacts DEF IInv, Capped
    <2>2. CASE k = k0 /\ Within(k0)
      <3>1. Cardinality(Passed(k)') = Cardinality(Passed(k)) + 1
        BY <1>2, <1>5, <2>2, SetSizes, Sizes
      <3>2. count[k] + 1 <= Limit(k) /\ count'[k] = count[k] + 1
        BY <1>1, <1>6, <2>2 DEF Within
      <3> QED
        BY <1>2, <2>1, <2>2, <3>1, <3>2
    <2>3. CASE ~(k = k0 /\ Within(k0))
      <3>1. Passed(k)' = Passed(k) /\ count'[k] >= count[k]
        BY <1>1, <1>5, <1>6, <2>3
      <3> QED
        BY <1>1, <1>6, <2>1, <3>1
    <2> QED
      BY <2>2, <2>3
  <1>11. Justified'
    <2> SUFFICES ASSUME NEW k \in Key
                 PROVE  count'[k] <= faults + Cardinality(Asked(k)')
      BY <1>1 DEF Justified
    <2>1. count[k] <= faults + Cardinality(Asked(k)) /\ Cardinality(Asked(k)) \in Nat
      BY SetSizes DEF IInv, Justified
    <2>2. CASE k = k0
      BY <1>1, <1>2, <1>5, <1>6, <2>1, <2>2, SetSizes, Sizes, LimiterConstants DEF IInv, TypeOK
    <2>3. CASE k # k0
      BY <1>1, <1>5, <1>6, <2>1, <2>3
    <2> QED
      BY <2>2, <2>3
  <1>12. Accounted'
    <2> SUFFICES ASSUME NEW a \in Addr, NEW m \in Minutes
                 PROVE  Cardinality(LetOn(a, m)') <= Cardinality(Passed(<<a, m>>)') + faults
      BY <1>1 DEF Accounted
    <2>1. PICK k \in Key : k = <<a, m>>
      BY DEF Key
    <2>2. /\ Cardinality(LetOn(a, m)) <= Cardinality(Passed(k)) + faults
          /\ Cardinality(LetOn(a, m)) \in Nat /\ Cardinality(Passed(k)) \in Nat
          /\ faults \in Nat
      BY <2>1, SetSizes, LimiterConstants DEF IInv, TypeOK, Accounted
    <2>3. l = Onward(r) <=> Within(k0)
      BY <1>2, <1>3, <1>l
    <2>4. /\ Passed(k)' = IF k = k0 /\ Within(k0) THEN Passed(k) \cup {r} ELSE Passed(k)
          /\ LetOn(a, m)' = IF k = k0 /\ Within(k0) THEN LetOn(a, m) \cup {r} ELSE LetOn(a, m)
      BY <1>5, <2>1, <2>3
    <2>5. CASE k = k0 /\ Within(k0)
      <3>1. r \notin LetOn(a, m)
        BY <1>2, <2>1, <2>5, LimiterConstants DEF LetOn
      <3>2. r \notin Passed(k)
        BY <1>2, <2>5
      <3>3. /\ Cardinality(LetOn(a, m) \cup {r}) = Cardinality(LetOn(a, m)) + 1
            /\ Cardinality(Passed(k) \cup {r}) = Cardinality(Passed(k)) + 1
        BY <3>1, <3>2, SetSizes, Sizes
      <3> QED
        BY <2>1, <2>2, <2>4, <2>5, <3>3
    <2>6. CASE ~(k = k0 /\ Within(k0))
      BY <2>1, <2>2, <2>4, <2>6
    <2> QED
      BY <2>5, <2>6
  <1>13. StoppedByOthers'
    <2>1. /\ \A k \in Key : Asked(k) \subseteq Asked(k)'
          /\ faults' \in Nat /\ faults' >= faults
      BY <1>1, <1>5, LimiterConstants DEF IInv, TypeOK
    <2>2. \A s \in Req : Minute(s)' = Minute(s)
      BY <1>1 DEF Minute
    <2>3. ASSUME NEW s \in Req, s # r
          PROVE  /\ pc'[s] = "ip_rejected" =>
                      IpLimit <= faults' + Cardinality(Asked(<<addr[s], Minute(s)>>)' \ {s})
                 /\ pc'[s] = "tenant_rejected" =>
                      tenant[s] \in Tenant /\
                      TenantLimit <= faults' + Cardinality(Asked(<<tenant[s], Minute(s)>>)' \ {s})
      <3>1. pc'[s] = pc[s]
        BY <1>1, <2>3 DEF IInv, TypeOK
      <3> QED
        BY <1>1, <2>1, <3>1, StillStopped
    <2>4. ASSUME ~Within(k0)
          PROVE  Limit(k0) <= faults + Cardinality(Asked(k0)' \ {r})
      <3>1. Asked(k0)' \ {r} = Asked(k0)
        BY <1>2, <1>5
      <3>2. /\ count[k0] <= faults + Cardinality(Asked(k0)) /\ Cardinality(Asked(k0)) \in Nat
            /\ faults \in Nat /\ count[k0] \in Nat /\ Limit(k0) \in Nat
        BY <1>2, <1>6, SetSizes, KeyFacts, LimiterConstants DEF IInv, TypeOK, Justified
      <3>3. count[k0] + 1 > Limit(k0)
        BY <2>4, <3>2 DEF Within
      <3>4. Cardinality(Asked(k0)' \ {r}) = Cardinality(Asked(k0))
        BY <3>1, Zenon
      <3>5. Limit(k0) <= faults + Cardinality(Asked(k0))
        BY <3>2, <3>3
      <3> QED
        BY <3>4, <3>5, Zenon
    <2>5. /\ pc'[r] = "ip_rejected" =>
               IpLimit <= faults' + Cardinality(Asked(<<addr[r], Minute(r)>>)' \ {r})
          /\ pc'[r] = "tenant_rejected" =>
               tenant[r] \in Tenant /\
               TenantLimit <= faults' + Cardinality(Asked(<<tenant[r], Minute(r)>>)' \ {r})
      <3>1. pc'[r] = l
        BY <1>1 DEF IInv, TypeOK
      <3>2. CASE Within(k0)
        BY <1>2, <1>3, <1>l, <3>1, <3>2
      <3>3. CASE ~Within(k0) /\ pc[r] = "ip"
        <4>1. k0 = <<addr[r], Minute(r)>> /\ Limit(k0) = IpLimit
          BY <1>2, <3>3 DEF Limit
        <4> QED
          BY <1>1, <1>2, <1>3, <1>l, <2>2, <2>4, <3>1, <3>3, <4>1
      <3>4. CASE ~Within(k0) /\ pc[r] = "tenant"
        <4>1. k0 = <<tenant[r], Minute(r)>> /\ Limit(k0) = TenantLimit /\ tenant[r] \in Tenant
          BY <1>2, <3>4 DEF Limit
        <4> QED
          BY <1>1, <1>2, <1>3, <1>l, <2>2, <2>4, <3>1, <3>4, <4>1
      <3> QED
        BY <1>2, <3>2, <3>3, <3>4
    <2> QED
      BY <1>1, <2>2, <2>3, <2>5 DEF StoppedByOthers
  <1> QED
    BY <1>7, <1>8, <1>9, <1>10, <1>11, <1>12, <1>13 DEF IInv

\* A failed exchange may count the request once more, and may let it pass.
LEMMA FailStep ==
    ASSUME IInv, NEW r \in Req, ExchangeFails(r)
    PROVE  IInv'
  <1>1. PICK k0 \in Key : k0 = KeyOf(r)
    BY CheckingFacts DEF ExchangeFails
  <1>2. /\ Checking(r)
        /\ UNCHANGED <<now, addr, tenant, at, counted>>
        /\ faults' = faults + 1 /\ faults < MaxFaults
        /\ pc' = [pc EXCEPT ![r] = Onward(r)] \/ pc' = pc
        /\ \/ /\ count' = [count EXCEPT ![k0] = @ + 1]
              /\ expires' = [expires EXCEPT ![k0] = now + Ttl]
           \/ /\ count' = [count EXCEPT ![k0] = @ + 1]
              /\ expires' = [expires EXCEPT ![k0] = IF count[k0] = 0 THEN Never ELSE @]
           \/ count' = count /\ expires' = expires
    BY <1>1 DEF ExchangeFails, IncrExpire, IncrOnly, ExpireTime, Goto
  <1>3. /\ Window * k0[2] <= now /\ now \in 0..MaxTime
        /\ pc[r] \in {"ip", "tenant"}
        /\ pc[r] = "ip" => counted[r] = {}
        /\ pc[r] = "tenant" => "tenant" \notin counted[r] /\ tenant[r] \in Tenant
        /\ pc[r] = "ip" => Onward(r) \in {"tenant", "admitted"}
        /\ pc[r] = "tenant" => Onward(r) = "admitted"
        /\ Onward(r) = "tenant" => tenant[r] # NoTenant
    BY <1>1, <1>2, CheckingFacts, KeyFacts DEF Onward
  <1>4. /\ now \in Nat /\ Ttl \in Nat /\ now + Ttl \in 0..Never
        /\ Never \in Nat /\ now < Never /\ MaxTime + Ttl < Never
        /\ count \in [Key -> Nat] /\ expires \in [Key -> 0..Never]
        /\ faults \in Nat /\ faults' \in 0..MaxFaults /\ faults' > 0
    BY <1>2, <1>3, LimiterConstants DEF IInv, TypeOK, Never
  <1>5. ASSUME NEW k \in Key
        PROVE  /\ count'[k] \in Nat /\ count[k] <= count'[k] /\ count'[k] <= count[k] + 1
               /\ expires'[k] \in 0..Never
               /\ \/ count'[k] = count[k] /\ expires'[k] = expires[k]
                  \/ k = k0 /\ expires'[k] = now + Ttl
                  \/ k = k0 /\ expires'[k] = Never
                  \/ count[k] > 0 /\ expires'[k] = expires[k]
    BY <1>2, <1>4, <1>5
  <1>6. count' \in [Key -> Nat] /\ expires' \in [Key -> 0..Never]
    BY <1>2, <1>4
  <1>7. /\ \A k \in Key : /\ Asked(k) \subseteq Asked(k)'
                          /\ Cardinality(Asked(k)) <= Cardinality(Asked(k)')
                          /\ Passed(k)' = Passed(k)
        /\ \A a \in Addr, m \in Minutes :
              Cardinality(LetOn(a, m)') <= Cardinality(LetOn(a, m)) + 1
    <2>1. CASE pc' = pc
      <3>1. /\ \A k : Asked(k)' = Asked(k) /\ Passed(k)' = Passed(k)
            /\ \A a, m : LetOn(a, m)' = LetOn(a, m)
        BY <1>2, <2>1 DEF Asked, Passed, LetOn, Minute
      <3> QED
        BY <3>1, SetSizes
    <2>2. CASE pc' = [pc EXCEPT ![r] = Onward(r)]
      <3>1. /\ \A k \in Key : /\ Asked(k)' = IF k = KeyOf(r) THEN Asked(k) \cup {r} ELSE Asked(k)
                              /\ Passed(k)' = Passed(k)
            /\ \A a \in Addr, m \in Minutes :
                  LetOn(a, m)' = LetOn(a, m) \cup {r} \/ LetOn(a, m)' = LetOn(a, m)
        <4>1. PICK l \in {Onward(r), Stopped(r)} : l = Onward(r)
          OBVIOUS
        <4>2. /\ \A k \in Key : Asked(k)' =
                   IF k = KeyOf(r) THEN Asked(k) \cup {r} ELSE Asked(k)
              /\ \A k \in Key : Passed(k)' =
                   IF k = KeyOf(r) /\ counted' # counted THEN Passed(k) \cup {r} ELSE Passed(k)
              /\ \A a \in Addr, m \in Minutes : LetOn(a, m)' =
                   IF <<a, m>> = KeyOf(r) /\ l = Onward(r) THEN LetOn(a, m) \cup {r} ELSE LetOn(a, m)
          BY <1>2, <2>2, <4>1, MoveSets
        <4> QED
          BY <1>2, <4>2
      <3>2. ASSUME NEW k \in Key
            PROVE  /\ Asked(k) \subseteq Asked(k)'
                   /\ Cardinality(Asked(k)) <= Cardinality(Asked(k)')
        <4>1. Asked(k) \subseteq Asked(k)'
          BY <3>1
        <4>2. Asked(k)' \subseteq Req
          BY DEF Asked
        <4> QED
          BY <4>1, <4>2, Sizes
      <3>3. ASSUME NEW a \in Addr, NEW m \in Minutes
            PROVE  Cardinality(LetOn(a, m)') <= Cardinality(LetOn(a, m)) + 1
        <4>1. CASE r \notin LetOn(a, m) /\ LetOn(a, m)' = LetOn(a, m) \cup {r}
          BY <4>1, SetSizes, Sizes
        <4>2. CASE LetOn(a, m)' = LetOn(a, m)
          BY <4>2, SetSizes
        <4>3. r \in LetOn(a, m) => LetOn(a, m) \cup {r} = LetOn(a, m)
          OBVIOUS
        <4> QED
          BY <3>1, <4>1, <4>2, <4>3
      <3>4. \A k \in Key : Passed(k)' = Passed(k)
        BY <3>1
      <3> QED
        BY <3>2, <3>3, <3>4
    <2> QED
      BY <1>2, <2>1, <2>2
  <1>8. TypeOK'
    <2>1. \A k \in Key : count'[k] > 0 => expires'[k] > now
      <3>1. ASSUME NEW k \in Key, count'[k] > 0 PROVE expires'[k] > now
        <4>1. Ttl > 0
          BY LimiterConstants
        <4>2. count[k] > 0 => expires[k] > now
          BY DEF IInv, TypeOK
        <4> QED
          BY <1>4, <1>5, <3>1, <4>1, <4>2
      <3> QED
        BY <3>1
    <2> QED
      BY <1>2, <1>3, <1>4, <1>6, <2>1 DEF IInv, TypeOK
  <1>9. InTime' /\ Stages'
    BY <1>2, <1>3 DEF IInv, TypeOK, InTime, Stages, Checking
  <1>10. Kept' /\ Passing'
    <2>1. ASSUME NEW k \in Key, count'[k] > 0
          PROVE  expires'[k] >= Window * k[2] + Ttl
      <3>1. /\ count[k] > 0 => expires[k] >= Window * k[2] + Ttl
            /\ Window * k[2] \in Nat /\ Window * k[2] <= MaxTime
        BY KeyFacts DEF IInv, Kept
      <3> QED
        BY <1>3, <1>4, <1>5, <2>1, <3>1, LimiterConstants
    <2>2. Stuck' \subseteq Stuck \cup {k0}
      BY <1>4, <1>5 DEF Stuck
    <2>3. Passing'
      BY <1>2, <1>4, <2>2, StuckStep DEF IInv
    <2> QED
      BY <2>1, <2>3 DEF Kept
  <1>11. Capped'
    <2> SUFFICES ASSUME NEW k \in Key
                 PROVE  /\ Cardinality(Passed(k)') <= Limit(k)
                        /\ Open(k) => Cardinality(Passed(k)') <= count'[k]
      BY <1>2 DEF Capped, Limit, Open
    <2>1. /\ Cardinality(Passed(k)) <= Limit(k) /\ (Open(k) => Cardinality(Passed(k)) <= count[k])
          /\ Cardinality(Passed(k)) \in Nat /\ count[k] \in Nat
      BY <1>4, SetSizes DEF IInv, Capped
    <2> QED
      BY <1>5, <1>7, <2>1
  <1>12. Justified'
    <2> SUFFICES ASSUME NEW k \in Key
                 PROVE  count'[k] <= faults' + Cardinality(Asked(k)')
      BY DEF Justified
    <2>1. /\ count[k] <= faults + Cardinality(Asked(k)) /\ count[k] \in Nat
          /\ Cardinality(Asked(k)) \in Nat
      BY <1>4, SetSizes DEF IInv, Justified
    <2>2. Asked(k)' \subseteq Req
      BY DEF Asked
    <2>3. Cardinality(Asked(k)') \in Nat
      BY <2>2, Sizes
    <2> QED
      BY <1>2, <1>4, <1>5, <1>7, <2>1, <2>3
  <1>13. Accounted'
    <2> SUFFICES ASSUME NEW a \in Addr, NEW m \in Minutes
                 PROVE  Cardinality(LetOn(a, m)') <= Cardinality(Passed(<<a, m>>)') + faults'
      BY DEF Accounted
    <2>1. PICK k \in Key : k = <<a, m>>
      BY DEF Key
    <2>2. /\ Cardinality(LetOn(a, m)) <= Cardinality(Passed(k)) + faults
          /\ Cardinality(LetOn(a, m)) \in Nat /\ Cardinality(Passed(k)) \in Nat
          /\ Passed(k)' = Passed(k)
      BY <1>7, <2>1, SetSizes DEF IInv, Accounted
    <2>3. LetOn(a, m)' \subseteq Req
      BY DEF LetOn
    <2>4. Cardinality(LetOn(a, m)') \in Nat
      BY <2>3, Sizes
    <2> QED
      BY <1>2, <1>4, <1>7, <2>1, <2>2, <2>4
  <1>14. StoppedByOthers'
    <2>1. ASSUME NEW s \in Req, pc'[s] = pc[s]
          PROVE  /\ pc'[s] = "ip_rejected" =>
                      IpLimit <= faults' + Cardinality(Asked(<<addr[s], Minute(s)>>)' \ {s})
                 /\ pc'[s] = "tenant_rejected" =>
                      tenant[s] \in Tenant /\
                      TenantLimit <= faults' + Cardinality(Asked(<<tenant[s], Minute(s)>>)' \ {s})
      <3>1. \A k \in Key : Asked(k) \subseteq Asked(k)'
        BY <1>7
      <3>2. faults' \in Nat /\ faults' >= faults
        BY <1>2, <1>4
      <3> QED
        BY <1>2, <2>1, <3>1, <3>2, StillStopped
    <2>2. /\ \A s \in Req : Minute(s)' = Minute(s)
          /\ \A s \in Req \ {r} : pc'[s] = pc[s]
          /\ pc'[r] \notin {"ip_rejected", "tenant_rejected"}
      BY <1>2, <1>3 DEF IInv, TypeOK, Minute
    <2> QED
      BY <1>2, <2>1, <2>2 DEF StoppedByOthers
  <1> QED
    BY <1>8, <1>9, <1>10, <1>11, <1>12, <1>13, <1>14 DEF IInv

-----------------------------------------------------------------------------
\* Every step keeps the invariant.
LEMMA StepIInv == IInv /\ [Next]_vars => IInv'
  <1> SUFFICES ASSUME IInv, [Next]_vars PROVE IInv'
    OBVIOUS
  <1>1. ASSUME NEW r \in Req, Arrive(r) PROVE IInv'
    BY <1>1, ArriveStep
  <1>2. ASSUME NEW r \in Req, CheckLimit(r) PROVE IInv'
    BY <1>2, CheckStep
  <1>3. ASSUME NEW r \in Req, ExchangeFails(r) PROVE IInv'
    BY <1>3, FailStep
  <1>4. CASE Tick
    BY <1>4, TickStep
  <1>5. CASE UNCHANGED vars
    <2> USE <1>5 DEF vars
    <2>1. /\ \A k : Passed(k)' = Passed(k) /\ Asked(k)' = Asked(k)
          /\ \A a, m : LetOn(a, m)' = LetOn(a, m)
      BY DEF Passed, Asked, LetOn, Minute
    <2>2. TypeOK' /\ InTime' /\ Stages' /\ Kept' /\ Passing'
      <3>1. Stuck' = Stuck
        BY DEF Stuck
      <3> QED
        BY <3>1 DEF IInv, TypeOK, InTime, Checking, Stages, Kept, Passing
    <2>3. Capped' /\ Justified'
      BY <2>1 DEF IInv, Capped, Open, Limit, Justified
    <2>4. Accounted' /\ StoppedByOthers'
      BY <2>1 DEF IInv, Accounted, StoppedByOthers, Minute
    <2> QED
      BY <2>2, <2>3, <2>4 DEF IInv
  <1> QED
    BY <1>1, <1>2, <1>3, <1>4, <1>5 DEF Next, Rest

\* The invariant holds in every state of every behaviour.
THEOREM Invariant == Spec => []IInv
  BY InitIInv, StepIInv, PTL DEF Spec

\* The places a request is counted in are counters.
LEMMA Places ==
    ASSUME IInv
    PROVE  /\ \A a \in Addr, m \in Minutes :
                 /\ <<a, m>> \in Key /\ Limit(<<a, m>>) = IpLimit
                 /\ Passed(<<a, m>>) =
                      {r \in Req : addr[r] = a /\ Minute(r) = m /\ "ip" \in counted[r]}
           /\ \A t \in Tenant, m \in Minutes :
                 /\ <<t, m>> \in Key /\ Limit(<<t, m>>) = TenantLimit
                 /\ Passed(<<t, m>>) =
                      {r \in Req : tenant[r] = t /\ Minute(r) = m /\ "tenant" \in counted[r]}
  <1>1. \A r \in Req : addr[r] \in Addr /\ tenant[r] \notin Addr
    BY LimiterConstants DEF IInv, TypeOK
  <1>2. ASSUME NEW a \in Addr, NEW m \in Minutes
        PROVE  /\ <<a, m>> \in Key /\ Limit(<<a, m>>) = IpLimit
               /\ Passed(<<a, m>>) =
                    {r \in Req : addr[r] = a /\ Minute(r) = m /\ "ip" \in counted[r]}
    BY <1>1 DEF Key, Limit, Passed
  <1>3. ASSUME NEW t \in Tenant, NEW m \in Minutes
        PROVE  /\ <<t, m>> \in Key /\ Limit(<<t, m>>) = TenantLimit
               /\ Passed(<<t, m>>) =
                    {r \in Req : tenant[r] = t /\ Minute(r) = m /\ "tenant" \in counted[r]}
    BY <1>1, LimiterConstants DEF Key, Limit, Passed
  <1> QED
    BY <1>2, <1>3

-----------------------------------------------------------------------------
(* What the limiter promises. *)

\* The variables have their types, and a counter that exists has a time to go.
THEOREM TypeCorrect == Spec => []TypeOK
  <1>1. IInv => TypeOK
    BY DEF IInv
  <1> QED
    BY Invariant, <1>1, PTL

\* No counter lets more requests of its minute pass than its limit, however late
\* they are counted: it is there until the last of them.
THEOREM Cap == Spec => []WindowCap
  <1>1. IInv => WindowCap
    BY Places DEF IInv, Capped, WindowCap
  <1> QED
    BY Invariant, <1>1, PTL

\* A request is refused only when others took the limit of its minute.
THEOREM NotEarly == Spec => []NoEarlyRejection
  <1>1. ASSUME IInv, NEW r \in Req
        PROVE  /\ pc[r] = "ip_rejected" =>
                    IpLimit <= faults + Cardinality(
                      {s \in Req \ {r} : /\ addr[s] = addr[r] /\ Minute(s) = Minute(r)
                                         /\ pc[s] \notin {"idle", "ip"}})
               /\ pc[r] = "tenant_rejected" =>
                    TenantLimit <= faults + Cardinality(
                      {s \in Req \ {r} : /\ tenant[s] = tenant[r] /\ Minute(s) = Minute(r)
                                         /\ pc[s] \in {"admitted", "tenant_rejected"}})
    <2> DEFINE I == {s \in Req \ {r} : /\ addr[s] = addr[r] /\ Minute(s) = Minute(r)
                                       /\ pc[s] \notin {"idle", "ip"}}
               T == {s \in Req \ {r} : /\ tenant[s] = tenant[r] /\ Minute(s) = Minute(r)
                                       /\ pc[s] \in {"admitted", "tenant_rejected"}}
    <2>1. \A s \in Req : addr[s] \in Addr /\ tenant[s] \notin Addr
      BY <1>1, LimiterConstants DEF IInv, TypeOK
    <2>2. CASE pc[r] = "ip_rejected"
      <3>1. Asked(<<addr[r], Minute(r)>>) \ {r} = I
        BY <2>1 DEF Asked
      <3>2. IpLimit <= faults + Cardinality(Asked(<<addr[r], Minute(r)>>) \ {r})
        BY <1>1, <2>2 DEF IInv, StoppedByOthers
      <3> QED
        BY <2>2, <3>1, <3>2
    <2>3. CASE pc[r] = "tenant_rejected"
      <3>1. /\ tenant[r] \in Tenant
            /\ TenantLimit <= faults + Cardinality(Asked(<<tenant[r], Minute(r)>>) \ {r})
        BY <1>1, <2>3 DEF IInv, StoppedByOthers
      <3>2. \A s \in Req : addr[s] # tenant[r]
        BY <2>1, <3>1
      <3>3. Asked(<<tenant[r], Minute(r)>>) \ {r} = T
        BY <3>2 DEF Asked
      <3> QED
        BY <2>3, <3>1, <3>3
    <2> QED
      BY <2>2, <2>3
  <1>2. IInv => NoEarlyRejection
    BY <1>1 DEF NoEarlyRejection
  <1> QED
    BY Invariant, <1>2, PTL

\* What one address takes of a tenant's minute is bounded by the address's limit.
THEOREM TenantProtected == Spec => []AddressCannotExhaustTenant
  <1>1. ASSUME IInv, NEW a \in Addr, NEW t \in Tenant, NEW m \in Minutes
        PROVE  Cardinality({r \in Req : /\ addr[r] = a /\ tenant[r] = t /\ Minute(r) = m
                                        /\ pc[r] \in {"tenant", "admitted", "tenant_rejected"}})
                 <= IpLimit + faults
    <2> DEFINE S == {r \in Req : /\ addr[r] = a /\ tenant[r] = t /\ Minute(r) = m
                                 /\ pc[r] \in {"tenant", "admitted", "tenant_rejected"}}
    <2>1. S \subseteq LetOn(a, m) /\ LetOn(a, m) \subseteq Req
      BY DEF LetOn
    <2>2. Cardinality(S) <= Cardinality(LetOn(a, m)) /\ Cardinality(S) \in Nat
      BY <2>1, Sizes
    <2>3. /\ Cardinality(LetOn(a, m)) <= Cardinality(Passed(<<a, m>>)) + faults
          /\ Cardinality(Passed(<<a, m>>)) <= IpLimit
      BY <1>1, Places DEF IInv, Accounted, Capped
    <2>4. /\ Cardinality(LetOn(a, m)) \in Nat /\ Cardinality(Passed(<<a, m>>)) \in Nat
          /\ faults \in Nat /\ IpLimit \in Nat
      BY <1>1, SetSizes, LimiterConstants DEF IInv, TypeOK
    <2> HIDE DEF S
    <2>5. Cardinality(S) <= IpLimit + faults
      BY <2>2, <2>3, <2>4
    <2> QED
      BY <2>5 DEF S
  <1>2. IInv => AddressCannotExhaustTenant
    BY <1>1 DEF AddressCannotExhaustTenant
  <1> QED
    BY Invariant, <1>2, PTL

\* Redis has dropped every counter some time after its minute, but for one in every
\* failure.
THEOREM Vanish == Spec => []CountersVanish
  <1>1. ASSUME IInv PROVE CountersVanish
    <2>1. ASSUME NEW k \in Overdue PROVE k \in Stuck
      <3>1. /\ k \in Key /\ count[k] > 0
            /\ now >= Window * (k[2] + 1) + MaxDelay + Ttl - 1
        BY DEF Overdue
      <3>2. expires[k] \in Nat /\ now \in Nat /\ expires[k] > now
        BY <1>1, <3>1, LimiterConstants DEF IInv, TypeOK, Never
      <3>3. Window * (k[2] + 1) \in Nat /\ MaxDelay \in Nat /\ Ttl \in Nat
        BY <3>1, KeyFacts, LimiterConstants
      <3> QED
        BY <3>1, <3>2, <3>3 DEF Stuck
    <2>2. Overdue \subseteq Stuck /\ faults \in Nat
      BY <1>1, <2>1 DEF IInv, TypeOK
    <2> DEFINE S == Stuck  T == Overdue
    <2>3. T \subseteq S /\ IsFiniteSet(S) /\ Cardinality(S) <= faults
      BY <1>1, <2>2 DEF IInv, Passing
    <2> HIDE DEF S, T
    <2>4. Cardinality(T) <= faults
      BY <2>2, <2>3, OneMore
    <2> QED
      BY <2>4 DEF T, CountersVanish
  <1> QED
    BY Invariant, <1>1, PTL
=============================================================================
