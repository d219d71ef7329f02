------------------------- MODULE PolicyEngineProofs -------------------------
(***************************************************************************)
(* Proofs about PolicyEngine for every number of clients, every default    *)
(* row, every set of updates, passwords and scores, and any failures.      *)
(***************************************************************************)
EXTENDS PolicyEngine, TLAPS

-----------------------------------------------------------------------------
(* The inductive invariant: TypeOK and what an answer was made from. *)

\* Only an answered request has an answer, and a decision is that of the row the
\* request was served with.
AnsweredOnView ==
    \A c \in Client :
        /\ answer[c] # "none" => pc[c] = "answered"
        /\ answer[c] = "ok" =>
            view[c] \in Policy /\ demands[c] = Decision(req[c], view[c])

IInv == TypeOK /\ AnsweredOnView

-----------------------------------------------------------------------------
(* What the operators return. *)

\* A merge of a row with a patch is a row (policy_repo.go:80-161).
LEMMA MergeType ==
    ASSUME NEW row \in Policy, NEW p \in Patch
    PROVE  Merge(row, p) \in Policy
  BY PolicyConstants DEF Merge, Policy, Patch

\* A decision names rules or the second factor (policy_service.go:62-126).
LEMMA DecisionType ==
    ASSUME NEW q, NEW row
    PROVE  Decision(q, row) \subseteq Rules \cup {"mfa"}
  BY DEF Decision, FailedRules

\* The patch of an update is a patch, and the kinds of requests exclude each other.
LEMMA RequestFacts ==
    ASSUME NEW q \in Request
    PROVE  /\ q.kind \in {"get", "update", "validate", "mfa"}
           /\ q.kind = "update" => q.patch \in Patch
           /\ q.kind = "validate" => q.password \in Passwords
  BY PolicyConstants DEF Request

\* The row after an UPDATE is a row, if there was one before.
LEMMA UpdatedType ==
    ASSUME IInv, NEW c \in Client, pc[c] = "update"
    PROVE  Updated(c) \in Policy
  <1>1. req[c] \in Request /\ req[c].kind = "update" /\ policy \in Policy
    BY DEF IInv, TypeOK
  <1>2. req[c].patch \in Patch
    BY <1>1, RequestFacts
  <1> QED
    BY <1>1, <1>2, MergeType DEF Updated

-----------------------------------------------------------------------------
\* There is no row and no request at the start.
LEMMA InitIInv == Init => IInv
  BY PolicyConstants DEF Init, IInv, TypeOK, AnsweredOnView, Request

\* Serving a request on a row keeps the types of what it writes.
LEMMA ServeFacts ==
    ASSUME IInv, NEW c \in Client, NEW row \in Policy, Serve(c, row)
    PROVE  /\ pc' \in [Client -> {"idle", "read", "create", "update", "answered"}]
           /\ view' \in [Client -> Policy \cup {NoRow}]
           /\ demands' \in [Client -> SUBSET (Rules \cup {"mfa"})]
           /\ answer' \in [Client -> {"none", "ok", "error"}]
           /\ \A d \in Client : pc'[d] = "update" => d # c /\ pc[d] = "update"
           /\ req' = req => AnsweredOnView'
  <1>1. Decision(req[c], row) \in SUBSET (Rules \cup {"mfa"})
    BY DecisionType
  <1> USE DEF IInv, TypeOK
  <1>2. ASSUME req' = req PROVE AnsweredOnView'
    BY <1>2 DEF Serve, See, AnsweredOnView
  <1> QED
    BY <1>1, <1>2 DEF Serve, See

\* The same when the request goes on: an update is left at its UPDATE.
LEMMA GoOnFacts ==
    ASSUME IInv, NEW c \in Client, NEW row \in Policy, GoOn(c, row), pc[c] # "answered"
    PROVE  /\ pc' \in [Client -> {"idle", "read", "create", "update", "answered"}]
           /\ view' \in [Client -> Policy \cup {NoRow}]
           /\ demands' \in [Client -> SUBSET (Rules \cup {"mfa"})]
           /\ answer' \in [Client -> {"none", "ok", "error"}]
           /\ \A d \in Client : pc'[d] = "update" =>
                pc[d] = "update" \/ (d = c /\ req[c].kind = "update")
           /\ req' = req => AnsweredOnView'
  <1>1. CASE req[c].kind = "update"
    <2> USE DEF IInv, TypeOK
    <2>1. See(c, row) /\ Goto(c, "update")
      BY <1>1 DEF GoOn
    <2>2. ASSUME req' = req PROVE AnsweredOnView'
      BY <2>1, <2>2 DEF See, Goto, AnsweredOnView
    <2> QED
      BY <1>1, <2>1, <2>2 DEF See, Goto
  <1>2. CASE req[c].kind # "update"
    BY <1>2, ServeFacts DEF GoOn
  <1> QED
    BY <1>1, <1>2

\* A refused request is answered with an error and nothing else changes.
LEMMA RefuseFacts ==
    ASSUME IInv, NEW c \in Client, Refuse(c)
    PROVE  /\ pc' \in [Client -> {"idle", "read", "create", "update", "answered"}]
           /\ view' \in [Client -> Policy \cup {NoRow}]
           /\ demands' \in [Client -> SUBSET (Rules \cup {"mfa"})]
           /\ answer' \in [Client -> {"none", "ok", "error"}]
           /\ \A d \in Client : pc'[d] = "update" => pc[d] = "update"
           /\ req' = req => AnsweredOnView'
  <1> USE DEF IInv, TypeOK, Refuse
  <1>1. ASSUME req' = req PROVE AnsweredOnView'
    BY <1>1 DEF AnsweredOnView
  <1> QED
    BY <1>1

\* Every step of policy_service.go keeps the invariant.
LEMMA StepIInv == IInv /\ [Next]_vars => IInv'
  <1> SUFFICES ASSUME IInv, [Next]_vars PROVE IInv'
    OBVIOUS
  <1>d. DefaultPolicy \in Policy /\ NoRow \notin Policy /\ MaxFaults \in Nat
    BY PolicyConstants
  <1>1. ASSUME NEW c \in Client, NEW q \in Request, Begin(c, q), known' = known PROVE IInv'
    BY <1>1, <1>d DEF IInv, TypeOK, AnsweredOnView, Begin, Goto
  <1>2. ASSUME NEW c \in Client, Read(c), known' = known PROVE IInv'
    <2>1. CASE policy # NoRow /\ GoOn(c, policy) /\ UNCHANGED faults
      BY <1>2, <2>1, GoOnFacts DEF IInv, TypeOK, Read
    <2>2. CASE policy = NoRow /\ Goto(c, "create") /\ UNCHANGED <<view, faults>>
      BY <1>2, <2>2 DEF IInv, TypeOK, AnsweredOnView, Read, Goto
    <2>3. CASE Fail(c)
      BY <1>2, <2>3, <1>d, RefuseFacts DEF IInv, TypeOK, Read, Fail
    <2> QED
      BY <1>2, <2>1, <2>2, <2>3 DEF Read
  <1>3. ASSUME NEW c \in Client, Create(c), known' = known PROVE IInv'
    <2>1. CASE known /\ policy = NoRow /\ policy' = DefaultPolicy /\ GoOn(c, DefaultPolicy)
               /\ UNCHANGED faults
      BY <1>3, <2>1, <1>d, GoOnFacts DEF IInv, TypeOK, Create
    <2>2. CASE (~known \/ policy # NoRow) /\ Refuse(c) /\ UNCHANGED <<policy, faults>>
      BY <1>3, <2>2, RefuseFacts DEF IInv, TypeOK, Create
    <2>3. CASE policy' \in {policy, IF known /\ policy = NoRow THEN DefaultPolicy ELSE policy}
               /\ Fail(c)
      BY <1>3, <2>3, <1>d, RefuseFacts DEF IInv, TypeOK, Create, Fail
    <2> QED
      BY <1>3, <2>1, <2>2, <2>3 DEF Create
  <1>4. ASSUME NEW c \in Client, Update(c), known' = known PROVE IInv'
    <2>0. Updated(c) \in Policy
      BY <1>4, UpdatedType DEF Update
    <2>1. CASE policy' = Updated(c) /\ Serve(c, policy') /\ UNCHANGED faults
      BY <1>4, <2>0, <2>1, <1>d, ServeFacts DEF IInv, TypeOK, Update
    <2>2. CASE policy' \in {policy, Updated(c)} /\ Fail(c)
      BY <1>4, <2>0, <2>2, <1>d, RefuseFacts DEF IInv, TypeOK, Update, Fail
    <2> QED
      BY <1>4, <2>1, <2>2 DEF Update
  <1>5. ASSUME NEW c \in Client, Retry(c), known' = known PROVE IInv'
    BY <1>5 DEF IInv, TypeOK, AnsweredOnView, Retry
  <1>6. ASSUME NEW c \in Client, Leave(c), known' = known PROVE IInv'
    BY <1>6 DEF IInv, TypeOK, AnsweredOnView, Leave
  <1>7. CASE UNCHANGED vars
    BY <1>7 DEF vars, IInv, TypeOK, AnsweredOnView
  <1> QED
    BY <1>1, <1>2, <1>3, <1>4, <1>5, <1>6, <1>7 DEF Next, Step

\* The invariant holds in every reachable state.
LEMMA Invariance == Spec => []IInv
  BY InitIInv, StepIInv, PTL DEF Spec

-----------------------------------------------------------------------------
\* Every variable keeps its type, and an UPDATE runs only where there is a row
\* (policy_service.go:42-51).
THEOREM TypeCorrect == Spec => []TypeOK
  <1>1. IInv => TypeOK
    BY DEF IInv
  <1> QED
    BY <1>1, Invariance, PTL

\* A password with enough characters is never refused for its length
\* (policy_service.go:64).
THEOREM NotRefusedForLength == Spec => []LongEnoughPasses
  <1>1. IInv => LongEnoughPasses
    <2> SUFFICES ASSUME IInv, NEW c \in Client,
                        answer[c] = "ok", "minLength" \in demands[c]
                 PROVE  req[c].password.chars < view[c]["minLength"]
      BY DEF LongEnoughPasses
    <2>1. req[c] \in Request /\ view[c] \in Policy
          /\ demands[c] = Decision(req[c], view[c])
      BY DEF IInv, TypeOK, AnsweredOnView
    <2>2. req[c].kind = "validate"
      BY <2>1, RequestFacts DEF Decision
    <2>3. "minLength" \in FailedRules(req[c].password, view[c])
      BY <2>1, <2>2 DEF Decision
    <2>4. req[c].password.bytes < view[c]["minLength"]
      BY <2>3 DEF FailedRules, Breaks
    <2>5. req[c].password \in Passwords
      BY <2>1, <2>2, RequestFacts
    <2>6. /\ req[c].password.chars \in Nat /\ req[c].password.bytes \in Nat
          /\ req[c].password.chars <= req[c].password.bytes
      BY <2>5, PolicyConstants DEF Password
    <2>7. view[c]["minLength"] \in Nat
      BY <2>1 DEF Policy, Field, Rules
    <2> QED
      BY <2>4, <2>6, <2>7
  <1> QED
    BY <1>1, Invariance, PTL

\* No update is undone, neither by another update nor by a late creation
\* (policy_repo.go:80-161).
THEOREM UpdatesStay == Spec => NoLostUpdate
  <1> DEFINE Stays ==
        policy # NoRow =>
            /\ policy' # NoRow
            /\ \A f \in Field : policy'[f] # policy[f] =>
                  \E c \in Client : pc[c] = "update" /\ req[c].patch[f] = policy'[f]
  <1>1. IInv /\ Next => Stays
    <2> SUFFICES ASSUME IInv, Next, policy # NoRow
                 PROVE  /\ policy' # NoRow
                        /\ \A f \in Field : policy'[f] # policy[f] =>
                              \E c \in Client : pc[c] = "update" /\ req[c].patch[f] = policy'[f]
      OBVIOUS
    <2>1. CASE policy' = policy
      BY <2>1
    <2>2. ASSUME NEW c \in Client, Update(c), policy' # policy
          PROVE  /\ policy' # NoRow
                 /\ \A f \in Field : policy'[f] # policy[f] =>
                      pc[c] = "update" /\ req[c].patch[f] = policy'[f]
      <3>1. policy' = Updated(c) /\ pc[c] = "update"
        BY <2>2 DEF Update
      <3>2. policy' = Merge(policy, req[c].patch)
        BY <2>2, <3>1 DEF Updated
      <3>3. policy' \in Policy
        BY <3>1, UpdatedType
      <3> QED
        BY <3>1, <3>2, <3>3, PolicyConstants DEF Merge
    <2>3. policy' = policy \/ \E c \in Client : Update(c)
      BY DEF Next, Step, Begin, Read, Create, Retry, Leave
    <2> QED
      BY <2>1, <2>2, <2>3
  <1>2. UNCHANGED vars => Stays
    BY DEF vars
  <1>3. IInv /\ [Next]_vars => [Stays]_vars
    BY <1>1, <1>2
  <1> QED
    BY <1>3, Invariance, PTL DEF Spec, NoLostUpdate

\* Every answer is that of the row in force when the last statement runs
\* (policy_service.go:26-37, :56, :115).
THEOREM CurrentDecisions == Spec => DecidedOnTheRow
  <1> DEFINE Current ==
        \A c \in Client : answer[c] = "none" /\ answer'[c] = "ok" =>
            view'[c] = policy' /\ demands'[c] = Decision(req[c], policy')
  <1>1. ASSUME IInv, Next, NEW c \in Client, answer[c] = "none", answer'[c] = "ok"
        PROVE  view'[c] = policy' /\ demands'[c] = Decision(req[c], policy')
    <2>0. /\ view \in [Client -> Policy \cup {NoRow}]
          /\ demands \in [Client -> SUBSET (Rules \cup {"mfa"})]
          /\ answer \in [Client -> {"none", "ok", "error"}]
      BY <1>1 DEF IInv, TypeOK
    <2>1. \A d \in Client, row \in Policy :
            Serve(d, row) => d = c /\ view'[c] = row /\ demands'[c] = Decision(req[c], row)
      BY <1>1, <2>0 DEF Serve, See
    <2>2. \A d \in Client, row \in Policy :
            GoOn(d, row) => d = c /\ view'[c] = row /\ demands'[c] = Decision(req[c], row)
      BY <1>1, <2>0, <2>1 DEF GoOn, Goto
    <2>3. \A d \in Client : ~Refuse(d)
      BY <1>1, <2>0 DEF Refuse
    <2>4. ASSUME NEW d \in Client, Read(d) PROVE policy \in Policy /\ GoOn(d, policy) /\ policy' = policy
      BY <1>1, <2>3, <2>4 DEF Read, Goto, Fail, IInv, TypeOK
    <2>5. ASSUME NEW d \in Client, Create(d)
          PROVE  GoOn(d, DefaultPolicy) /\ policy' = DefaultPolicy
      BY <2>3, <2>5 DEF Create, Fail
    <2>6. ASSUME NEW d \in Client, Update(d) PROVE policy' \in Policy /\ Serve(d, policy')
      <3>1. Updated(d) \in Policy
        BY <1>1, <2>6, UpdatedType DEF Update
      <3> QED
        BY <2>3, <2>6, <3>1 DEF Update, Fail
    <2>7. ~(\E d \in Client, q \in Request : Begin(d, q))
      BY <1>1 DEF Begin, Goto
    <2>8. ~(\E d \in Client : Retry(d) \/ Leave(d))
      BY <1>1, <2>0 DEF Retry, Leave
    <2> QED
      BY <1>1, <2>1, <2>2, <2>4, <2>5, <2>6, <2>7, <2>8, PolicyConstants DEF Next, Step
  <1>2. UNCHANGED vars => Current
    BY DEF vars
  <1>3. IInv /\ [Next]_vars => [Current]_vars
    BY <1>1, <1>2
  <1> QED
    BY <1>3, Invariance, PTL DEF Spec, DecidedOnTheRow

-----------------------------------------------------------------------------
(* What callers see: the statements of a request are one step of           *)
(* PolicyRegister, its last, and stutters.                                 *)

\* A merge with a patch that names no column is the row itself, so the SELECT of an
\* empty request has the effect of its UPDATE (policy_repo.go:80-161).
LEMMA UpdatedIsEffect ==
    ASSUME IInv, NEW c \in Client, pc[c] = "update"
    PROVE  /\ Updated(c) = Effect(req[c], policy)
           /\ Effect(req[c], policy) \in Policy
           /\ Now = policy
  <1>1. req[c].kind = "update" /\ policy \in Policy /\ policy # NoRow
    BY PolicyConstants DEF IInv, TypeOK
  <1>2. Merge(policy, EmptyPatch) = policy
    BY <1>1 DEF Merge, EmptyPatch, Policy
  <1>3. Updated(c) = Merge(policy, req[c].patch)
    BY <1>2 DEF Updated
  <1> QED
    BY <1>1, <1>3, UpdatedType DEF Effect, Now

\* There is a policy at every moment.
LEMMA NowType == IInv => Now \in Policy
  BY PolicyConstants DEF IInv, TypeOK, Now

\* A request that is answered on the policy it leaves took effect.
LEMMA ServeAnswers ==
    ASSUME IInv, NEW c \in Client, pc[c] \in {"read", "create", "update"},
           Now' = Effect(req[c], Now), Serve(c, Now'), req' = req
    PROVE  Register!Answer(c)
  <1> USE DEF IInv, TypeOK
  <1>1. answer[c] = "none" /\ Status(c) = "pending"
    BY DEF AnsweredOnView, Status
  <1>2. \A d \in Client : Status(d)' = IF d = c THEN "ok" ELSE Status(d)
    BY DEF Serve, Status
  <1>3. \A d \in Client : Told(d)' = IF d = c THEN Reply(req[c], Now') ELSE Told(d)
    BY DEF Serve, See, Told, Reply
  <1> QED
    BY <1>1, <1>2, <1>3 DEF Register!Answer

\* A request that fails took effect or did not.
LEMMA FailRefuses ==
    ASSUME IInv, NEW c \in Client, pc[c] \in {"read", "create", "update"},
           Now' \in {Now, Effect(req[c], Now)}, Refuse(c), req' = req
    PROVE  Register!Refuse(c)
  <1> USE DEF IInv, TypeOK
  <1>1. Status(c) = "pending"
    BY DEF AnsweredOnView, Status
  <1>2. \A d \in Client : Status(d)' = IF d = c THEN "error" ELSE Status(d)
    BY DEF Refuse, Status
  <1>3. \A d \in Client : Told(d)' = Told(d)
    BY DEF Refuse, Told, AnsweredOnView
  <1> QED
    BY <1>1, <1>2, <1>3 DEF Register!Refuse

\* A statement that is not the last is not seen.
LEMMA GotoIsUnseen ==
    ASSUME IInv, NEW c \in Client, pc[c] \in {"read", "create"},
           NEW l \in {"create", "update"}, Goto(c, l), Now' = Now, req' = req,
           \A d \in Client : d # c => view'[d] = view[d]
    PROVE  UNCHANGED Register!vars
  <1> USE DEF IInv, TypeOK
  <1>1. \A d \in Client : Status(d)' = Status(d)
    BY DEF Goto, Status
  <1>2. \A d \in Client : Told(d)' = Told(d)
    BY DEF Goto, Told, AnsweredOnView
  <1> QED
    BY <1>1, <1>2 DEF Register!vars

\* A request that finds the row, or has made it, has its answer or goes on to its
\* UPDATE.
LEMMA GoOnMaps ==
    ASSUME IInv, NEW c \in Client, pc[c] \in {"read", "create"},
           Now' = Now, GoOn(c, Now), req' = req
    PROVE  Register!Answer(c) \/ UNCHANGED Register!vars
  <1>1. CASE req[c].kind = "update"
    <2>1. Goto(c, "update") /\ See(c, Now)
      BY <1>1 DEF GoOn
    <2>2. \A d \in Client : d # c => view'[d] = view[d]
      BY <2>1 DEF See, IInv, TypeOK
    <2> QED
      BY <2>1, <2>2, GotoIsUnseen
  <1>2. CASE req[c].kind # "update"
    <2>1. Serve(c, Now') /\ Now' = Effect(req[c], Now)
      BY <1>2 DEF GoOn, Effect
    <2> QED
      BY <2>1, ServeAnswers
  <1> QED
    BY <1>1, <1>2

\* Every statement is a step of PolicyRegister or is not seen.
LEMMA StepMaps == IInv /\ [Next]_vars => [Register!Next]_(Register!vars)
  <1> SUFFICES ASSUME IInv, [Next]_vars PROVE Register!Next \/ UNCHANGED Register!vars
    BY Zenon
  <1>1. ASSUME NEW c \in Client, NEW q \in Request, Begin(c, q) PROVE Register!Ask(c, q)
    <2>1. Status(c) = "idle"
      BY <1>1 DEF Begin, Status
    <2>2. \A d \in Client : Status(d)' = IF d = c THEN "pending" ELSE Status(d)
      BY <1>1 DEF Begin, Goto, Status, IInv, TypeOK
    <2>3. \A d \in Client : Told(d)' = Told(d)
      BY <1>1 DEF Begin, Goto, Told
    <2>4. Now' = Now /\ req' = [req EXCEPT ![c] = q]
      BY <1>1 DEF Begin, Now
    <2> QED
      BY <2>1, <2>2, <2>3, <2>4 DEF Register!Ask
  <1>2. ASSUME NEW c \in Client, Read(c)
        PROVE  Register!Answer(c) \/ Register!Refuse(c) \/ UNCHANGED Register!vars
    <2>0. pc[c] = "read" /\ policy' = policy /\ req' = req /\ Now' = Now
      BY <1>2 DEF Read, Now
    <2>1. CASE policy # NoRow /\ GoOn(c, policy)
      BY <2>0, <2>1, GoOnMaps DEF Now
    <2>2. CASE Goto(c, "create") /\ UNCHANGED view
      BY <2>0, <2>2, GotoIsUnseen
    <2>3. CASE Fail(c)
      BY <2>0, <2>3, FailRefuses DEF Fail
    <2> QED
      BY <1>2, <2>1, <2>2, <2>3 DEF Read
  <1>3. ASSUME NEW c \in Client, Create(c)
        PROVE  Register!Answer(c) \/ Register!Refuse(c) \/ UNCHANGED Register!vars
    <2>0. pc[c] = "create" /\ req' = req /\ DefaultPolicy # NoRow
      BY <1>3, PolicyConstants DEF Create
    <2>1. CASE known /\ policy = NoRow /\ policy' = DefaultPolicy /\ GoOn(c, DefaultPolicy)
      BY <2>0, <2>1, GoOnMaps DEF Now
    <2>2. CASE Refuse(c) /\ policy' = policy
      BY <2>0, <2>2, FailRefuses DEF Now
    <2>3. CASE policy' \in {policy, IF known /\ policy = NoRow THEN DefaultPolicy ELSE policy}
               /\ Fail(c)
      <3>1. Now' = Now
        BY <2>0, <2>3 DEF Now
      <3> QED
        BY <2>0, <2>3, <3>1, FailRefuses DEF Fail
    <2> QED
      BY <1>3, <2>1, <2>2, <2>3 DEF Create
  <1>4. ASSUME NEW c \in Client, Update(c) PROVE Register!Answer(c) \/ Register!Refuse(c)
    <2>0. /\ pc[c] = "update" /\ req' = req
          /\ Updated(c) = Effect(req[c], policy) /\ Updated(c) # NoRow
          /\ Now = policy /\ policy # NoRow
      BY <1>4, UpdatedIsEffect, PolicyConstants DEF Update, IInv, TypeOK
    <2>1. CASE policy' = Updated(c) /\ Serve(c, policy')
      <3>1. Now' = policy' /\ Now' = Effect(req[c], Now)
        BY <2>0, <2>1 DEF Now
      <3> QED
        BY <2>0, <2>1, <3>1, ServeAnswers
    <2>2. CASE policy' \in {policy, Updated(c)} /\ Fail(c)
      <3>1. Now' \in {Now, Effect(req[c], Now)}
        BY <2>0, <2>2 DEF Now
      <3> QED
        BY <2>0, <2>2, <3>1, FailRefuses DEF Fail
    <2> QED
      BY <1>4, <2>1, <2>2 DEF Update
  <1>5. ASSUME NEW c \in Client, Retry(c) PROVE Register!Repeat(c)
    <2> USE DEF Retry, IInv, TypeOK
    <2>1. \A d \in Client : Status(d)' = IF d = c THEN "pending" ELSE Status(d)
      BY <1>5 DEF Status
    <2>2. Status(c) = "error" /\ \A d \in Client : Told(d)' = Told(d)
      BY <1>5 DEF Status, Told
    <2> QED
      BY <1>5, <2>1, <2>2 DEF Register!Repeat, Now
  <1>6. ASSUME NEW c \in Client, Leave(c) PROVE Register!Leave(c)
    <2> USE DEF Leave, IInv, TypeOK
    <2>1. \A d \in Client : Status(d)' = IF d = c THEN "idle" ELSE Status(d)
      BY <1>6 DEF Status
    <2>2. Status(c) = "ok"
      BY <1>6 DEF Status
    <2>3. \A d \in Client : Told(d)' = IF d = c THEN NoRow ELSE Told(d)
      BY <1>6 DEF Told
    <2> QED
      BY <1>6, <2>1, <2>2, <2>3 DEF Register!Leave, Now
  <1>7. CASE UNCHANGED vars
    BY <1>7 DEF vars, Register!vars, Now, Status, Told
  <1> QED
    BY <1>1, <1>2, <1>3, <1>4, <1>5, <1>6, <1>7 DEF Next, Step, Register!Next

\* To its callers the service is a policy that exists from the start and that every
\* request reads or changes at one moment (policy_service.go:26-136,
\* policy_repo.go:80-161).
THEOREM OneMoment == Spec => ImplementsPolicyRegister
  <1>1. Init => Register!Init
    BY PolicyConstants
    DEF Init, Register!Init, Now, Status, Told, Request
  <1> QED
    BY <1>1, StepMaps, Invariance, PTL DEF Spec, ImplementsPolicyRegister, Register!Spec
=============================================================================
