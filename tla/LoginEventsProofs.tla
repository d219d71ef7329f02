------------------------- MODULE LoginEventsProofs -------------------------
(***************************************************************************)
(* Proofs about LoginEvents for every finite set of operations, every      *)
(* period, clock and number of failures: what the figures can be trusted   *)
(* for although they are read one after the other.                         *)
(***************************************************************************)
EXTENDS LoginEvents, FiniteSetTheorems, TLAPS

-----------------------------------------------------------------------------
(* The inductive invariant. *)

Reading == {"total", "success", "failure", "users", "reasons", "addresses", "read", "listed"}

\* Operations are at steps of their own.
AtOwnStep ==
    \A o \in Op :
        /\ pc[o] = "insert" => IsLogin(o)
        /\ pc[o] \in {"execute", "audit", "unfit"} => o \in ToolCalls

\* A reading began in the past.
InThePast == \A o \in Op : since[o] <= clock

\* Where operation o has read figure f.
HasRead(o, f) ==
    pc[o] \in (CASE f = "total" -> {"success", "failure", "users", "reasons", "read"}
                 [] f = "success" -> {"failure", "users", "reasons", "read"}
                 [] f = "failure" -> {"users", "reasons", "read"}
                 [] f = "users" -> {"reasons", "read"}
                 [] f = "reasons" -> {"read"}
                 [] OTHER -> {"listed"})

\* Each figure stays between what was there all the time and what ever was.
Bracketed(o) ==
    \A f \in Figure : HasRead(o, f) =>
        /\ f # "addresses" => Measure(f, Throughout(o)) <= figures[o][f]
        /\ figures[o][f] <= Measure(f, Ever(o))

Arrived(o) == {k \in rows \ before[o] : call[k].tenant = call[o].tenant}
Failures(o) == OfKind(Recent(call[o].tenant), "login_failure")

\* A figure read earlier falls short of what can still be counted by no more than what
\* has arrived.
Outgrown(o) ==
    /\ pc[o] = "success" =>
          Cardinality(Recent(call[o].tenant)) <= figures[o]["total"] + Cardinality(Arrived(o))
    /\ pc[o] = "failure" =>
          figures[o]["success"] + Cardinality(Failures(o))
              <= figures[o]["total"] + Cardinality(Arrived(o))
    /\ pc[o] \in {"users", "reasons", "read"} =>
          figures[o]["success"] + figures[o]["failure"]
              <= figures[o]["total"] + Cardinality(Arrived(o))
    /\ pc[o] \in {"users", "reasons"} =>
          Cardinality(Failures(o)) <= figures[o]["failure"] + Cardinality(Arrived(o))
    /\ pc[o] = "read" =>
          figures[o]["reasons"] <= figures[o]["failure"] + Cardinality(Arrived(o))

IInv ==
    /\ TypeOK /\ AtOwnStep /\ InThePast
    /\ \A o \in Op : Bracketed(o) /\ Outgrown(o)

-----------------------------------------------------------------------------
(* Sets of rows and their sizes. *)

\* Sets of operations have sizes, and larger ones larger sizes.
LEMMA Sizes ==
    ASSUME NEW T, T \subseteq Op, NEW S, S \subseteq T
    PROVE  /\ IsFiniteSet(S) /\ IsFiniteSet(T)
           /\ Cardinality(S) \in Nat /\ Cardinality(T) \in Nat
           /\ Cardinality(S) <= Cardinality(T)
  <1>1. IsFiniteSet(T)
    BY FS_Subset, EventConstants
  <1>2. IsFiniteSet(S) /\ Cardinality(S) <= Cardinality(T)
    BY <1>1, FS_Subset
  <1> QED
    BY <1>1, <1>2, FS_CardinalityType

\* The users of finitely many rows are finitely many.
LEMMA UsersFinite ==
    ASSUME NEW S, S \subseteq Op
    PROVE  IsFiniteSet(UsersOf(S))
  <1> DEFINE T == {call[k].user : k \in S}
             f == [k \in S |-> call[k].user]
  <1>1. f \in Surjection(S, T)
    BY DEF Surjection
  <1>2. IsFiniteSet(S)
    BY Sizes
  <1> HIDE DEF T, f
  <1>3. IsFiniteSet(T)
    BY <1>1, <1>2, FS_Surjection
  <1>4. UsersOf(S) \subseteq T
    BY DEF UsersOf, T
  <1> QED
    BY <1>3, <1>4, FS_Subset

\* What a figure counts is a number that grows with the rows.
LEMMA Monotone ==
    ASSUME NEW T, T \subseteq Op, NEW S, S \subseteq T, NEW f \in Figure
    PROVE  /\ Measure(f, S) \in Nat /\ Measure(f, T) \in Nat
           /\ Measure(f, S) <= Measure(f, T)
  <1>1. ASSUME NEW kind
        PROVE  /\ Cardinality(OfKind(S, kind)) \in Nat /\ Cardinality(OfKind(T, kind)) \in Nat
               /\ Cardinality(OfKind(S, kind)) <= Cardinality(OfKind(T, kind))
    <2>1. OfKind(S, kind) \subseteq OfKind(T, kind) /\ OfKind(T, kind) \subseteq Op
      BY DEF OfKind
    <2> QED
      BY <2>1, Sizes
  <1>2. /\ Cardinality(UsersOf(S)) \in Nat /\ Cardinality(UsersOf(T)) \in Nat
        /\ Cardinality(UsersOf(S)) <= Cardinality(UsersOf(T))
    <2>1. UsersOf(S) \subseteq UsersOf(T)
      BY DEF UsersOf
    <2>2. IsFiniteSet(UsersOf(T)) /\ IsFiniteSet(UsersOf(S))
      BY UsersFinite
    <2> QED
      BY <2>1, <2>2, FS_Subset, FS_CardinalityType
  <1>3. Cardinality(S) \in Nat /\ Cardinality(T) \in Nat /\ Cardinality(S) <= Cardinality(T)
    BY Sizes
  <1> QED
    BY <1>1, <1>2, <1>3 DEF Measure

\* What was there all the time is there now, and what is there now is among what ever was.
LEMMA Between ==
    ASSUME IInv, NEW o \in Op
    PROVE  /\ Throughout(o) \subseteq Recent(call[o].tenant)
           /\ Recent(call[o].tenant) \subseteq Ever(o)
           /\ Throughout(o) \subseteq Op /\ Recent(call[o].tenant) \subseteq Op
           /\ Ever(o) \subseteq Op /\ Arrived(o) \subseteq Op /\ Failures(o) \subseteq Op
  <1>1. before[o] \subseteq rows /\ rows \subseteq Op
    BY DEF IInv, TypeOK
  <1>2. since[o] <= clock /\ since[o] \in Nat /\ clock \in Nat /\ Window \in Nat
    BY EventConstants DEF IInv, TypeOK, InThePast
  <1>3. \A k \in rows : at[k] \in Nat
    BY <1>1, EventConstants DEF IInv, TypeOK
  <1> QED
    BY <1>1, <1>2, <1>3 DEF Throughout, Recent, Ever, Arrived, Failures, OfKind

-----------------------------------------------------------------------------
\* It holds at the start, when there are no rows and no figures.
LEMMA InitIInv == Init => IInv
  BY EventConstants DEF Init, IInv, TypeOK, AtOwnStep, InThePast, Bracketed, HasRead, Outgrown

\* A reading that does not move stays right while rows arrive and leave the period.
LEMMA Passive ==
    ASSUME IInv, NEW o \in Op,
           rows \subseteq rows', rows' \subseteq Op, \A k \in rows : at'[k] = at[k],
           clock' \in Nat, clock <= clock',
           before'[o] = before[o], since'[o] = since[o],
           figures'[o] = figures[o], pc'[o] = pc[o]
    PROVE  Bracketed(o)' /\ Outgrown(o)'
  <1> DEFINE t == call[o].tenant
  <1>1. before[o] \subseteq rows /\ rows \subseteq Op
    BY DEF IInv, TypeOK
  <1>2. /\ clock \in Nat /\ Window \in Nat /\ since[o] \in Nat
        /\ \A k \in rows : at[k] \in Nat
    BY <1>1, EventConstants DEF IInv, TypeOK
  <1>3. /\ Throughout(o)' \subseteq Throughout(o) /\ Throughout(o) \subseteq Op
        /\ Ever(o) \subseteq Ever(o)' /\ Ever(o)' \subseteq Op
    BY <1>1, <1>2 DEF Throughout, Ever
  <1>4. figures[o] \in [Figure -> Nat]
    BY DEF IInv, TypeOK
  <1>5. Bracketed(o)'
    <2> SUFFICES ASSUME NEW f \in Figure, HasRead(o, f)
                 PROVE  /\ f # "addresses" => Measure(f, Throughout(o)') <= figures[o][f]
                        /\ figures[o][f] <= Measure(f, Ever(o)')
      BY DEF Bracketed, HasRead, Measure, OfKind, UsersOf
    <2>1. /\ f # "addresses" => Measure(f, Throughout(o)) <= figures[o][f]
          /\ figures[o][f] <= Measure(f, Ever(o)) /\ figures[o][f] \in Nat
      BY <1>4 DEF IInv, Bracketed
    <2>2. /\ Measure(f, Throughout(o)') <= Measure(f, Throughout(o))
          /\ Measure(f, Throughout(o)') \in Nat /\ Measure(f, Throughout(o)) \in Nat
      BY <1>3, Monotone
    <2>3. /\ Measure(f, Ever(o)) <= Measure(f, Ever(o)')
          /\ Measure(f, Ever(o)) \in Nat /\ Measure(f, Ever(o)') \in Nat
      BY <1>3, Monotone
    <2> QED
      BY <2>1, <2>2, <2>3
  <1>6. /\ Recent(t)' \subseteq Recent(t) \cup (Arrived(o)' \ Arrived(o))
        /\ Failures(o)' \subseteq Failures(o) \cup (Arrived(o)' \ Arrived(o))
        /\ Arrived(o) \subseteq Arrived(o)' /\ Arrived(o)' \subseteq Op
        /\ Recent(t) \subseteq Op /\ Failures(o) \subseteq Op
    BY <1>1, <1>2 DEF Recent, Failures, OfKind, Arrived
  <1>7. ASSUME NEW S, NEW S2, S \subseteq Op, S2 \subseteq S \cup (Arrived(o)' \ Arrived(o))
        PROVE  /\ Cardinality(S2) + Cardinality(Arrived(o)) <= Cardinality(S) + Cardinality(Arrived(o)')
               /\ Cardinality(S) \in Nat /\ Cardinality(S2) \in Nat
    <2> DEFINE D == Arrived(o)' \ Arrived(o)
    <2>1. D \subseteq Op /\ S \cup D \subseteq Op /\ S \cap D \subseteq Op
      BY <1>6, <1>7
    <2>2. /\ IsFiniteSet(Arrived(o)') /\ Arrived(o)' \cap Arrived(o) = Arrived(o)
          /\ Cardinality(Arrived(o)') \in Nat /\ Cardinality(Arrived(o)) \in Nat
      BY <1>6, Sizes
    <2>3. Cardinality(D) = Cardinality(Arrived(o)') - Cardinality(Arrived(o))
      BY <2>2, FS_Difference
    <2> HIDE DEF D
    <2>4. /\ IsFiniteSet(S) /\ IsFiniteSet(D) /\ Cardinality(S) \in Nat /\ Cardinality(D) \in Nat
          /\ Cardinality(S \cap D) \in Nat
      BY <1>7, <2>1, Sizes
    <2>5. Cardinality(S \cup D) = Cardinality(S) + Cardinality(D) - Cardinality(S \cap D)
      BY <2>4, FS_Union
    <2>6. Cardinality(S2) <= Cardinality(S \cup D) /\ Cardinality(S2) \in Nat
      BY <1>7, <2>1, Sizes DEF D
    <2>7. Cardinality(S2) <= Cardinality(S) + Cardinality(D)
      BY <2>4, <2>5, <2>6
    <2> QED
      BY <2>2, <2>3, <2>4, <2>6, <2>7
  <1>8. /\ Cardinality(Recent(t)') + Cardinality(Arrived(o)) <= Cardinality(Recent(t)) + Cardinality(Arrived(o)')
        /\ Cardinality(Failures(o)') + Cardinality(Arrived(o)) <= Cardinality(Failures(o)) + Cardinality(Arrived(o)')
        /\ Cardinality(Recent(t)) \in Nat /\ Cardinality(Recent(t)') \in Nat
        /\ Cardinality(Failures(o)) \in Nat /\ Cardinality(Failures(o)') \in Nat
    BY <1>6, <1>7
  <1>9. /\ Cardinality(Arrived(o)) \in Nat /\ Cardinality(Arrived(o)') \in Nat
        /\ Cardinality(Arrived(o)) <= Cardinality(Arrived(o)')
    BY <1>6, Sizes
  <1>10. \A f \in Figure : figures[o][f] \in Nat
    BY <1>4
  <1>11. Outgrown(o)'
    <2>1. Outgrown(o)
      BY DEF IInv
    <2>2. {"total", "success", "failure", "reasons"} \subseteq Figure
      BY DEF Figure
    <2> QED
      BY <1>8, <1>9, <1>10, <2>1, <2>2 DEF Outgrown
  <1> QED
    BY <1>5, <1>11

-----------------------------------------------------------------------------
(* The steps of writers. *)

\* A step that dates and inserts at most the row of an operation that has none, and
\* leaves readings alone, keeps what is said of them.
LEMMA WriterStep ==
    ASSUME IInv, TypeOK', AtOwnStep',
           rows \subseteq rows', \A k \in rows : at'[k] = at[k], clock' \in Nat, clock <= clock',
           UNCHANGED reading,
           \A o \in Op : pc'[o] = pc[o] \/ pc'[o] \notin Reading
    PROVE  IInv'
  <1>1. InThePast'
    BY EventConstants DEF IInv, TypeOK, InThePast, reading
  <1>2. rows' \subseteq Op
    BY DEF TypeOK
  <1>3. ASSUME NEW o \in Op PROVE Bracketed(o)' /\ Outgrown(o)'
    <2>1. CASE pc'[o] = pc[o]
      BY <1>2, <2>1, Passive DEF reading
    <2>2. CASE pc'[o] \notin Reading
      BY <2>2 DEF Reading, Bracketed, HasRead, Outgrown
    <2> QED
      BY <2>1, <2>2
  <1> QED
    BY <1>1, <1>3 DEF IInv

\* An INSERT adds the row of the operation or nothing.
LEMMA InsertedFacts ==
    ASSUME IInv, NEW o \in Op, Inserted(o)
    PROVE  (rows' = rows \/ rows' = rows \cup {o}) /\ faults' \in 0..MaxFaults
  <1> DEFINE new == {k \in {o} : Storable(k)}
  <1>1. new = {} \/ new = {o}
    OBVIOUS
  <1>2. /\ rows' = rows \/ rows' = rows \cup new
        /\ faults' = faults \/ (faults < MaxFaults /\ faults' = faults + 1)
    BY DEF Inserted, Fault
  <1>3. faults' \in 0..MaxFaults
    BY <1>2, EventConstants DEF IInv, TypeOK
  <1> HIDE DEF new
  <1> QED
    BY <1>1, <1>2, <1>3

\* The writers keep the invariant.
LEMMA WritersStep ==
    ASSUME IInv, NEW o \in Op,
           \/ LogEvent(o) \/ CreateLoginEvent(o) \/ VerifyAgent(o)
           \/ Execute(o) \/ LogAgentAction(o)
    PROVE  IInv'
  <1> USE EventConstants DEF Goto, Fault, IInv, TypeOK, AtOwnStep, reading
  <1>1. CASE LogEvent(o)
    <2>1. TypeOK' /\ AtOwnStep'
      BY <1>1 DEF LogEvent, IsLogin, ToolCalls
    <2>2. \A k \in rows : at'[k] = at[k]
      BY <1>1 DEF LogEvent
    <2> QED
      BY <1>1, <2>1, <2>2, WriterStep DEF LogEvent, Reading
  <1>2. CASE CreateLoginEvent(o)
    <2>1. (rows' = rows \/ rows' = rows \cup {o}) /\ faults' \in 0..MaxFaults
      BY <1>2, InsertedFacts DEF CreateLoginEvent
    <2>2. TypeOK' /\ AtOwnStep'
      BY <1>2, <2>1 DEF CreateLoginEvent
    <2> QED
      BY <1>2, <2>1, <2>2, WriterStep DEF CreateLoginEvent, Reading
  <1>3. CASE VerifyAgent(o)
    <2>1. faults' \in 0..MaxFaults
      BY <1>3 DEF VerifyAgent
    <2>2. TypeOK' /\ AtOwnStep'
      BY <1>3, <2>1 DEF VerifyAgent
    <2> QED
      BY <1>3, <2>2, WriterStep DEF VerifyAgent, Reading
  <1>4. CASE Execute(o)
    <2>1. TypeOK' /\ AtOwnStep'
      BY <1>4 DEF Execute
    <2> QED
      BY <1>4, <2>1, WriterStep DEF Execute, Reading
  <1>5. CASE LogAgentAction(o)
    <2>0. o \notin rows
      BY <1>5 DEF LogAgentAction
    <2>1. (rows' = rows \/ rows' = rows \cup {o}) /\ faults' \in 0..MaxFaults
      BY <1>5, InsertedFacts DEF LogAgentAction
    <2>2. TypeOK' /\ AtOwnStep'
      BY <1>5, <2>0, <2>1 DEF LogAgentAction
    <2>3. \A k \in rows : at'[k] = at[k]
      BY <1>5, <2>0, <2>1 DEF LogAgentAction
    <2> QED
      BY <1>5, <2>1, <2>2, <2>3, WriterStep DEF LogAgentAction, Reading
  <1> QED
    BY <1>1, <1>2, <1>3, <1>4, <1>5

\* So do the end of the MCP server, time, and nothing.
LEMMA OthersStep ==
    ASSUME IInv, McpEnds \/ Tick \/ UNCHANGED vars
    PROVE  IInv'
  <1> USE EventConstants DEF Fault, IInv, TypeOK, AtOwnStep, reading
  <1>1. CASE McpEnds
    <2>1. TypeOK' /\ AtOwnStep'
      BY <1>1 DEF McpEnds
    <2> QED
      BY <1>1, <2>1, WriterStep DEF McpEnds, Reading
  <1>2. CASE Tick
    <2>1. TypeOK' /\ AtOwnStep'
      BY <1>2 DEF Tick
    <2> QED
      BY <1>2, <2>1, WriterStep DEF Tick
  <1>3. CASE UNCHANGED vars
    <2>1. TypeOK' /\ AtOwnStep'
      BY <1>3 DEF vars
    <2> QED
      BY <1>3, <2>1, WriterStep DEF vars
  <1> QED
    BY <1>1, <1>2, <1>3

-----------------------------------------------------------------------------
(* The steps of readers. *)

\* A SELECT changes nothing but the reader, which fails or has one figure more.
LEMMA SelectFacts ==
    ASSUME IInv, NEW o \in Op,
           NEW here \in Reading, NEW next \in Reading, NEW f \in Figure, NEW n \in Nat,
           Select(o, here, next, f, n)
    PROVE  /\ TypeOK' /\ AtOwnStep' /\ InThePast'
           /\ \A p \in Op \ {o} : Bracketed(p)' /\ Outgrown(p)'
           /\ UNCHANGED <<rows, at, clock, before, since>>
           /\ \/ /\ pc'[o] = next /\ figures'[o][f] = n
                 /\ \A g \in Figure \ {f} : figures'[o][g] = figures[o][g]
              \/ pc'[o] = "failed" /\ Bracketed(o)' /\ Outgrown(o)'
  <1>1. /\ UNCHANGED <<rows, at, clock, before, since>>
        /\ pc[o] = here
        /\ \/ pc' = [pc EXCEPT ![o] = next] /\ figures' = [figures EXCEPT ![o][f] = n]
              /\ faults' = faults
           \/ pc' = [pc EXCEPT ![o] = "failed"] /\ figures' = figures
              /\ faults < MaxFaults /\ faults' = faults + 1
    BY DEF Select, Goto, Fault
  <1>2. TypeOK'
    <2>1. figures \in [Op -> [Figure -> Nat]] /\ o \notin rows
      BY <1>1 DEF IInv, TypeOK, Reading
    <2>2. figures' \in [Op -> [Figure -> Nat]]
      BY <1>1, <2>1
    <2>3. faults' \in 0..MaxFaults
      BY <1>1, EventConstants DEF IInv, TypeOK
    <2> QED
      BY <1>1, <2>1, <2>2, <2>3 DEF IInv, TypeOK, Reading
  <1>3. AtOwnStep' /\ InThePast'
    BY <1>1 DEF IInv, TypeOK, AtOwnStep, InThePast, Reading
  <1>4. \A p \in Op \ {o} : Bracketed(p)' /\ Outgrown(p)'
    <2> SUFFICES ASSUME NEW p \in Op \ {o} PROVE Bracketed(p)' /\ Outgrown(p)'
      OBVIOUS
    <2>1. pc'[p] = pc[p] /\ figures'[p] = figures[p]
      BY <1>1 DEF IInv, TypeOK
    <2>2. clock' \in Nat /\ clock <= clock' /\ rows' \subseteq Op
      BY <1>1, EventConstants DEF IInv, TypeOK
    <2> QED
      BY <1>1, <2>1, <2>2, Passive
  <1>5. \/ /\ pc'[o] = next /\ figures'[o][f] = n
           /\ \A g \in Figure \ {f} : figures'[o][g] = figures[o][g]
        \/ pc'[o] = "failed"
    BY <1>1 DEF IInv, TypeOK
  <1>6. pc'[o] = "failed" => Bracketed(o)' /\ Outgrown(o)'
    BY DEF Bracketed, HasRead, Outgrown
  <1> QED
    BY <1>1, <1>2, <1>3, <1>4, <1>5, <1>6

\* A figure that is read from the rows of now is between those of all the time and
\* those that ever were; the figures read before still are.
LEMMA ReadRight ==
    ASSUME IInv, NEW o \in Op, UNCHANGED <<rows, at, clock, before, since>>,
           NEW f \in Figure, NEW n \in Nat, figures'[o][f] = n,
           \A g \in Figure \ {f} :
               figures'[o][g] = figures[o][g] /\ (HasRead(o, g)' => HasRead(o, g)),
           f # "addresses" => n >= Measure(f, Recent(call[o].tenant)),
           n <= Measure(f, Recent(call[o].tenant))
    PROVE  Bracketed(o)'
  <1> SUFFICES ASSUME NEW g \in Figure, HasRead(o, g)'
               PROVE  /\ g # "addresses" => Measure(g, Throughout(o)') <= figures'[o][g]
                      /\ figures'[o][g] <= Measure(g, Ever(o)')
    BY DEF Bracketed, Measure, OfKind, UsersOf
  <1>1. Throughout(o)' = Throughout(o) /\ Ever(o)' = Ever(o)
    BY DEF Throughout, Ever
  <1>2. CASE g = f
    <2>1. /\ Measure(f, Throughout(o)) <= Measure(f, Recent(call[o].tenant))
          /\ Measure(f, Recent(call[o].tenant)) <= Measure(f, Ever(o))
          /\ Measure(f, Throughout(o)) \in Nat /\ Measure(f, Ever(o)) \in Nat
          /\ Measure(f, Recent(call[o].tenant)) \in Nat
      BY Between, Monotone
    <2> QED
      BY <1>1, <1>2, <2>1
  <1>3. CASE g # f
    BY <1>1, <1>3 DEF IInv, Bracketed
  <1> QED
    BY <1>2, <1>3

\* What counts of the rows of now are.
LEMMA Counts ==
    ASSUME IInv, NEW o \in Op
    PROVE  LET R == Recent(call[o].tenant) IN
           /\ Measure("total", R) = Cardinality(R)
           /\ Measure("success", R) = Cardinality(OfKind(R, "login_success"))
           /\ Measure("failure", R) = Cardinality(Failures(o))
           /\ Measure("users", R) = Cardinality(UsersOf(R))
           /\ Measure("reasons", R) = Cardinality(Failures(o))
           /\ Measure("addresses", R) = Cardinality(Failures(o))
           /\ {Cardinality(R), Cardinality(OfKind(R, "login_success")), Cardinality(Failures(o)),
               Cardinality(UsersOf(R)), Cardinality(Arrived(o))} \subseteq Nat
           /\ Cardinality(OfKind(R, "login_success")) + Cardinality(Failures(o)) <= Cardinality(R)
           /\ {figures[o]["total"], figures[o]["success"], figures[o]["failure"]} \subseteq Nat
  <1> DEFINE R == Recent(call[o].tenant)
             S == OfKind(R, "login_success")
             F == Failures(o)
  <1>1. R \subseteq Op /\ F \subseteq R /\ S \subseteq R /\ F \cap S = {} /\ Arrived(o) \subseteq Op
    BY Between DEF OfKind, Failures
  <1>2. /\ Measure("total", R) = Cardinality(R)
        /\ Measure("success", R) = Cardinality(S)
        /\ Measure("failure", R) = Cardinality(F)
        /\ Measure("users", R) = Cardinality(UsersOf(R))
        /\ Measure("reasons", R) = Cardinality(F)
        /\ Measure("addresses", R) = Cardinality(F)
    BY DEF Measure, Failures
  <1>3. Cardinality(UsersOf(R)) \in Nat
    BY <1>1, UsersFinite, FS_CardinalityType
  <1>4. /\ figures[o]["total"] \in Nat /\ figures[o]["success"] \in Nat
        /\ figures[o]["failure"] \in Nat
    BY DEF IInv, TypeOK, Figure
  <1> HIDE DEF R, S, F
  <1>5. S \cup F \subseteq R
    BY <1>1
  <1>6. /\ IsFiniteSet(S) /\ IsFiniteSet(F) /\ Cardinality(S \cup F) <= Cardinality(R)
        /\ Cardinality(R) \in Nat /\ Cardinality(S) \in Nat /\ Cardinality(F) \in Nat
        /\ Cardinality(S \cup F) \in Nat /\ Cardinality(Arrived(o)) \in Nat
    BY <1>1, <1>5, Sizes
  <1>7. Cardinality(S \cup F) = Cardinality(S) + Cardinality(F)
    <2>1. Cardinality(S \cup F) = Cardinality(S) + Cardinality(F) - Cardinality(S \cap F)
      BY <1>6, FS_Union
    <2>2. Cardinality(S \cap F) = 0
      <3>1. S \cap F = {}
        BY <1>1
      <3> QED
        BY <3>1, FS_EmptySet
    <2> QED
      BY <1>6, <2>1, <2>2
  <1>8. Cardinality(S) + Cardinality(F) <= Cardinality(R)
    BY <1>6, <1>7
  <1> QED
    BY <1>2, <1>3, <1>4, <1>6, <1>8 DEF R, S, F

\* Every SELECT of a reading keeps the invariant.
LEMMA ReadersStep ==
    ASSUME IInv, NEW o \in Op,
           \/ CountTotal(o) \/ CountSuccesses(o) \/ CountFailures(o)
           \/ CountUsers(o) \/ CountReasons(o)
    PROVE  IInv'
  <1> DEFINE R == Recent(call[o].tenant)
             S == Cardinality(OfKind(R, "login_success"))
             F == Cardinality(Failures(o))
  <1>1. ASSUME NEW here \in Reading, NEW next \in Reading, NEW f \in Figure \ {"addresses"},
               NEW n \in Nat, Select(o, here, next, f, n), n = Measure(f, R),
               UNCHANGED <<rows, at, clock, before, since>> =>
                   /\ \A g \in Figure \ {f} : pc'[o] = next => (HasRead(o, g)' => HasRead(o, g))
                   /\ (/\ pc'[o] = next /\ figures'[o][f] = n
                       /\ \A g \in Figure \ {f} : figures'[o][g] = figures[o][g]) => Outgrown(o)'
        PROVE  IInv'
    <2>1. /\ TypeOK' /\ AtOwnStep' /\ InThePast'
          /\ \A p \in Op \ {o} : Bracketed(p)' /\ Outgrown(p)'
          /\ UNCHANGED <<rows, at, clock, before, since>>
          /\ \/ /\ pc'[o] = next /\ figures'[o][f] = n
                /\ \A g \in Figure \ {f} : figures'[o][g] = figures[o][g]
             \/ pc'[o] = "failed" /\ Bracketed(o)' /\ Outgrown(o)'
      BY <1>1, SelectFacts
    <2>2. CASE /\ pc'[o] = next /\ figures'[o][f] = n
               /\ \A g \in Figure \ {f} : figures'[o][g] = figures[o][g]
      <3>1. n >= Measure(f, R) /\ n <= Measure(f, R)
        BY <1>1
      <3>2. Bracketed(o)'
        BY <1>1, <2>1, <2>2, <3>1, ReadRight
      <3>3. Outgrown(o)'
        BY <1>1, <2>1, <2>2
      <3> QED
        BY <2>1, <3>2, <3>3 DEF IInv
    <2> QED
      BY <2>1, <2>2 DEF IInv
  <1>2. UNCHANGED <<rows, at, clock, before, since>> =>
          R' = R /\ Failures(o)' = Failures(o) /\ Arrived(o)' = Arrived(o)
    BY DEF Recent, Failures, OfKind, Arrived
  <1>3. /\ Measure("total", R) = Cardinality(R)
        /\ Measure("success", R) = S /\ Measure("failure", R) = F
        /\ Measure("users", R) = Cardinality(UsersOf(R)) /\ Measure("reasons", R) = F
        /\ Cardinality(R) \in Nat /\ S \in Nat /\ F \in Nat /\ Cardinality(UsersOf(R)) \in Nat
        /\ Cardinality(Arrived(o)) \in Nat
        /\ S + F <= Cardinality(R)
        /\ figures[o]["total"] \in Nat /\ figures[o]["success"] \in Nat
        /\ figures[o]["failure"] \in Nat
    BY Counts
  <1>4. Figure = {"total", "success", "failure", "users", "reasons", "addresses"}
    BY DEF Figure
  <1>5. Outgrown(o)
    BY DEF IInv
  <1> HIDE DEF R, S, F
  <1> USE DEF HasRead, Outgrown, Reading
  <1>6. CASE CountTotal(o)
    <2>1. Select(o, "total", "success", "total", Cardinality(R)) /\ pc[o] = "total"
      BY <1>6 DEF CountTotal, Select, R
    <2>2. ASSUME UNCHANGED <<rows, at, clock, before, since>>, pc'[o] = "success",
                 figures'[o]["total"] = Cardinality(R)
          PROVE  Outgrown(o)'
      <3>1. Cardinality(Recent(call[o].tenant)') <= figures'[o]["total"] + Cardinality(Arrived(o)')
        BY <1>2, <1>3, <2>2 DEF R
      <3> QED
        BY <2>2, <3>1
    <2> QED
      BY <1>1, <1>3, <1>4, <2>1, <2>2
  <1>7. CASE CountSuccesses(o)
    <2>1. Select(o, "success", "failure", "success", S) /\ pc[o] = "success"
      BY <1>7 DEF CountSuccesses, Select, R, S
    <2>2. ASSUME UNCHANGED <<rows, at, clock, before, since>>, pc'[o] = "failure",
                 figures'[o]["success"] = S,
                 \A g \in Figure \ {"success"} : figures'[o][g] = figures[o][g]
          PROVE  Outgrown(o)'
      <3>1. /\ Cardinality(Failures(o)') = F
            /\ Cardinality(Arrived(o)') = Cardinality(Arrived(o))
        BY <1>2, <2>2 DEF F
      <3>2. Cardinality(R) <= figures[o]["total"] + Cardinality(Arrived(o))
        BY <1>5, <2>1 DEF R
      <3>3. figures'[o]["total"] = figures[o]["total"]
        BY <1>4, <2>2
      <3>4. figures'[o]["success"] + F <= figures'[o]["total"] + Cardinality(Arrived(o))
        BY <1>3, <2>2, <3>2, <3>3
      <3> QED
        BY <2>2, <3>1, <3>4
    <2>3. \A g \in Figure \ {"success"} : pc'[o] = "failure" => (HasRead(o, g)' => HasRead(o, g))
      BY <1>4, <2>1
    <2>4. {"success", "failure"} \subseteq Reading /\ "success" \in Figure \ {"addresses"}
      BY <1>4
    <2>5. S \in Nat /\ S = Measure("success", R)
      BY <1>3
    <2> QED
      BY <1>1, <2>1, <2>2, <2>3, <2>4, <2>5
  <1>8. CASE CountFailures(o)
    <2>1. Select(o, "failure", "users", "failure", F) /\ pc[o] = "failure"
      BY <1>8 DEF CountFailures, Select, R, F, Failures
    <2>2. ASSUME UNCHANGED <<rows, at, clock, before, since>>, pc'[o] = "users",
                 figures'[o]["failure"] = F,
                 \A g \in Figure \ {"failure"} : figures'[o][g] = figures[o][g]
          PROVE  Outgrown(o)'
      <3>1. /\ Cardinality(Failures(o)') = F
            /\ Cardinality(Arrived(o)') = Cardinality(Arrived(o))
        BY <1>2, <2>2 DEF F
      <3>2. figures[o]["success"] + F <= figures[o]["total"] + Cardinality(Arrived(o))
        BY <1>5, <2>1 DEF F
      <3>3. figures'[o]["total"] = figures[o]["total"] /\ figures'[o]["success"] = figures[o]["success"]
        BY <1>4, <2>2
      <3>4. /\ figures'[o]["success"] + figures'[o]["failure"]
                <= figures'[o]["total"] + Cardinality(Arrived(o))
            /\ F <= figures'[o]["failure"] + Cardinality(Arrived(o))
        BY <1>3, <2>2, <3>2, <3>3
      <3> QED
        BY <2>2, <3>1, <3>4
    <2>3. \A g \in Figure \ {"failure"} : pc'[o] = "users" => (HasRead(o, g)' => HasRead(o, g))
      BY <1>4, <2>1
    <2>4. {"failure", "users"} \subseteq Reading /\ "failure" \in Figure \ {"addresses"}
      BY <1>4
    <2>5. F \in Nat /\ F = Measure("failure", R)
      BY <1>3
    <2> QED
      BY <1>1, <2>1, <2>2, <2>3, <2>4, <2>5
  <1>9. CASE CountUsers(o)
    <2>1. Select(o, "users", "reasons", "users", Cardinality(UsersOf(R))) /\ pc[o] = "users"
      BY <1>9 DEF CountUsers, Select, R, F, Failures
    <2>2. ASSUME UNCHANGED <<rows, at, clock, before, since>>, pc'[o] = "reasons",
                 figures'[o]["users"] = Cardinality(UsersOf(R)),
                 \A g \in Figure \ {"users"} : figures'[o][g] = figures[o][g]
          PROVE  Outgrown(o)'
      <3>1. /\ Cardinality(Failures(o)') = F
            /\ Cardinality(Arrived(o)') = Cardinality(Arrived(o))
        BY <1>2, <2>2 DEF F
      <3>2. /\ figures[o]["success"] + figures[o]["failure"]
                <= figures[o]["total"] + Cardinality(Arrived(o))
            /\ F <= figures[o]["failure"] + Cardinality(Arrived(o))
        BY <1>5, <2>1 DEF F
      <3>3. /\ figures'[o]["total"] = figures[o]["total"] /\ figures'[o]["success"] = figures[o]["success"]
            /\ figures'[o]["failure"] = figures[o]["failure"]
        BY <1>4, <2>2
      <3>4. /\ figures'[o]["success"] + figures'[o]["failure"]
                <= figures'[o]["total"] + Cardinality(Arrived(o))
            /\ F <= figures'[o]["failure"] + Cardinality(Arrived(o))
        BY <1>3, <2>2, <3>2, <3>3
      <3> QED
        BY <2>2, <3>1, <3>4
    <2>3. \A g \in Figure \ {"users"} : pc'[o] = "reasons" => (HasRead(o, g)' => HasRead(o, g))
      BY <1>4, <2>1
    <2>4. {"users", "reasons"} \subseteq Reading /\ "users" \in Figure \ {"addresses"}
      BY <1>4
    <2>5. Cardinality(UsersOf(R)) \in Nat /\ Cardinality(UsersOf(R)) = Measure("users", R)
      BY <1>3
    <2> QED
      BY <1>1, <2>1, <2>2, <2>3, <2>4, <2>5
  <1>10. CASE CountReasons(o)
    <2>1. Select(o, "reasons", "read", "reasons", F) /\ pc[o] = "reasons"
      BY <1>10 DEF CountReasons, Select, R, F, Failures
    <2>2. ASSUME UNCHANGED <<rows, at, clock, before, since>>, pc'[o] = "read",
                 figures'[o]["reasons"] = F,
                 \A g \in Figure \ {"reasons"} : figures'[o][g] = figures[o][g]
          PROVE  Outgrown(o)'
      <3>1. /\ Cardinality(Failures(o)') = F
            /\ Cardinality(Arrived(o)') = Cardinality(Arrived(o))
        BY <1>2, <2>2 DEF F
      <3>2. /\ figures[o]["success"] + figures[o]["failure"]
                <= figures[o]["total"] + Cardinality(Arrived(o))
            /\ F <= figures[o]["failure"] + Cardinality(Arrived(o))
        BY <1>5, <2>1 DEF F
      <3>3. /\ figures'[o]["total"] = figures[o]["total"] /\ figures'[o]["success"] = figures[o]["success"]
            /\ figures'[o]["failure"] = figures[o]["failure"]
        BY <1>4, <2>2
      <3>4. /\ figures'[o]["success"] + figures'[o]["failure"]
                <= figures'[o]["total"] + Cardinality(Arrived(o))
            /\ figures'[o]["reasons"] <= figures'[o]["failure"] + Cardinality(Arrived(o))
        BY <1>3, <2>2, <3>2, <3>3
      <3> QED
        BY <2>2, <3>1, <3>4
    <2>3. \A g \in Figure \ {"reasons"} : pc'[o] = "read" => (HasRead(o, g)' => HasRead(o, g))
      BY <1>4, <2>1
    <2>4. {"reasons", "read"} \subseteq Reading /\ "reasons" \in Figure \ {"addresses"}
      BY <1>4
    <2>5. F \in Nat /\ F = Measure("reasons", R)
      BY <1>3
    <2> QED
      BY <1>1, <2>1, <2>2, <2>3, <2>4, <2>5
  <1> QED
    BY <1>6, <1>7, <1>8, <1>9, <1>10

\* The list of addresses counts failures of now, if not all of them.
LEMMA ListStep ==
    ASSUME IInv, NEW o \in Op, ListAddresses(o)
    PROVE  IInv'
  <1> DEFINE G == {k \in OfKind(Recent(call[o].tenant), "login_failure") : call[k].address # NoAddress}
             From(a) == {k \in G : call[k].address = a}
  <1>1. PICK S \in SUBSET {call[k].address : k \in G} :
            Select(o, "addresses", "listed", "addresses", Cardinality(UNION {From(a) : a \in S}))
    BY DEF ListAddresses
  <1> DEFINE n == Cardinality(UNION {From(a) : a \in S})
  <1>2. UNION {From(a) : a \in S} \subseteq Failures(o) /\ Failures(o) \subseteq Op
    BY Between DEF Failures
  <1>3. n \in Nat /\ n <= Cardinality(Failures(o))
    <2> HIDE DEF From
    <2> QED
      BY <1>2, Sizes
  <1>4. PICK m \in Nat : m = n
    BY <1>3
  <1>5. Select(o, "addresses", "listed", "addresses", m) /\ m <= Measure("addresses", Recent(call[o].tenant))
    BY <1>1, <1>3, <1>4, Counts
  <1> HIDE DEF n, From
  <1>6. /\ "addresses" \in Figure /\ "addresses" \in Reading /\ "listed" \in Reading
        /\ pc[o] = "addresses"
    BY <1>5 DEF Figure, Reading, Select
  <1>7. /\ TypeOK' /\ AtOwnStep' /\ InThePast'
        /\ \A p \in Op \ {o} : Bracketed(p)' /\ Outgrown(p)'
        /\ UNCHANGED <<rows, at, clock, before, since>>
        /\ \/ /\ pc'[o] = "listed" /\ figures'[o]["addresses"] = m
              /\ \A g \in Figure \ {"addresses"} : figures'[o][g] = figures[o][g]
           \/ pc'[o] = "failed" /\ Bracketed(o)' /\ Outgrown(o)'
    BY <1>5, <1>6, SelectFacts
  <1>8. CASE /\ pc'[o] = "listed" /\ figures'[o]["addresses"] = m
             /\ \A g \in Figure \ {"addresses"} : figures'[o][g] = figures[o][g]
    <2>1. \A g \in Figure \ {"addresses"} : ~HasRead(o, g)'
      BY <1>8 DEF HasRead, Figure
    <2>2. Bracketed(o)'
      BY <1>5, <1>6, <1>7, <1>8, <2>1, ReadRight
    <2>3. Outgrown(o)'
      BY <1>8 DEF Outgrown
    <2> QED
      BY <1>7, <2>2, <2>3 DEF IInv
  <1> QED
    BY <1>7, <1>8 DEF IInv

\* A reading begins without figures.
LEMMA BeginStep ==
    ASSUME IInv, NEW o \in Op, BeginReading(o)
    PROVE  IInv'
  <1>1. /\ UNCHANGED <<rows, at, clock, figures, faults>>
        /\ before' = [before EXCEPT ![o] = rows] /\ since' = [since EXCEPT ![o] = clock]
        /\ pc' = [pc EXCEPT ![o] = "total"] \/ pc' = [pc EXCEPT ![o] = "addresses"]
        /\ pc[o] = "idle"
    BY DEF BeginReading, Goto
  <1>2. TypeOK' /\ AtOwnStep' /\ InThePast'
    BY <1>1, EventConstants DEF IInv, TypeOK, AtOwnStep, InThePast
  <1>3. Bracketed(o)' /\ Outgrown(o)'
    BY <1>1 DEF IInv, TypeOK, Bracketed, HasRead, Outgrown
  <1>4. ASSUME NEW p \in Op \ {o} PROVE Bracketed(p)' /\ Outgrown(p)'
    <2>1. /\ pc'[p] = pc[p] /\ before'[p] = before[p] /\ since'[p] = since[p]
          /\ figures'[p] = figures[p]
          /\ clock' \in Nat /\ clock <= clock' /\ rows' \subseteq Op
      BY <1>1, EventConstants DEF IInv, TypeOK
    <2> QED
      BY <1>1, <2>1, Passive
  <1> QED
    BY <1>2, <1>3, <1>4 DEF IInv

\* Every step keeps the invariant.
LEMMA StepIInv == IInv /\ [Next]_vars => IInv'
  BY WritersStep, OthersStep, ReadersStep, ListStep, BeginStep DEF Next, Work, Rest

\* The invariant holds in every state of every behaviour.
THEOREM Invariant == Spec => []IInv
  BY InitIInv, StepIInv, PTL DEF Spec

-----------------------------------------------------------------------------
(* What the figures can be trusted for. *)

\* The variables have their types, and no refused call of an agent has a row.
THEOREM TypeCorrect == Spec => []TypeOK
  <1>1. IInv => TypeOK
    BY DEF IInv
  <1> QED
    BY Invariant, <1>1, PTL

\* Each figure counts every event of its kind that was there all through the reading,
\* and none that never was.
THEOREM BetweenAlwaysAndEver == Spec => []FiguresBracketed
  <1>1. IInv => FiguresBracketed
    <2> SUFFICES ASSUME IInv, NEW o \in Op
                 PROVE  /\ pc[o] = "read" => \A f \in Figure \ {"addresses"} :
                               /\ Measure(f, Throughout(o)) <= figures[o][f]
                               /\ figures[o][f] <= Measure(f, Ever(o))
                        /\ pc[o] = "listed" => figures[o]["addresses"] <= Measure("addresses", Ever(o))
      BY DEF FiguresBracketed
    <2>1. Bracketed(o)
      BY DEF IInv
    <2>2. pc[o] = "read" => \A f \in Figure \ {"addresses"} : HasRead(o, f)
      BY DEF HasRead, Figure
    <2>3. pc[o] = "listed" => HasRead(o, "addresses") /\ "addresses" \in Figure
      BY DEF HasRead, Figure
    <2> QED
      BY <2>1, <2>2, <2>3 DEF Bracketed
  <1> QED
    BY Invariant, <1>1, PTL

\* The parts exceed the whole by no more than what arrived during the reading.
THEOREM PartsAndWhole == Spec => []SumsExceedByArrivals
  <1>1. IInv => SumsExceedByArrivals
    BY DEF IInv, Outgrown, Arrived, SumsExceedByArrivals
  <1> QED
    BY Invariant, <1>1, PTL
=============================================================================
