------------------------- MODULE RefreshTokensProofs -------------------------
(***************************************************************************)
(* Proofs about RefreshTokens for every set of requests, every lifetime,   *)
(* clock bound and number of failures, under any overlap of the handlers.  *)
(***************************************************************************)
EXTENDS RefreshTokens, TLAPS

-----------------------------------------------------------------------------
(* The inductive invariant: what holds of a handler at each statement. *)

\* Which method a label belongs to, and what that method has established there.
\* A rotation past its SELECT presents an existing token.
Staged ==
    \A r \in Req :
        /\ pc[r] = "idle" => op[r] = "none"
        /\ pc[r] \in {"prepare", "session"} => op[r] = "issue"
        /\ pc[r] = "read" => op[r] \in {"refresh", "revoke"}
        /\ pc[r] \in {"replay", "expiry", "mark", "load"} => op[r] = "refresh"
        /\ pc[r] = "revoke" => op[r] = "revoke"
        /\ pc[r] \in {"insert", "reply"} => op[r] \in {"issue", "refresh"}
        /\ pc[r] \in {"replay", "expiry", "mark", "load", "revoke"} => arg[r] \in rows

\* A row is written by the last statement of its request.
RowsLast ==
    \A r \in Req :
        /\ r \in rows => pc[r] \in {"reply", "done"} /\ op[r] \in {"issue", "refresh"}
        /\ pc[r] = "reply" => r \in rows

\* The token a rotation replaces is used before the successor is built.
SpentBeforeDraft ==
    \A r \in Req :
        op[r] = "refresh" /\ (pc[r] \in {"load", "insert"} \/ r \in rows)
            => arg[r] \in used

\* The lineage of a token, from the moment it is built.
DraftLineage ==
    \A r \in Req :
        /\ pc[r] = "session" => token[r].family = r /\ token[r].session = r
        /\ pc[r] = "insert" \/ r \in rows =>
            /\ token[r].session \in sessions
            /\ token[r].session = token[r].family
            /\ op[r] = "issue" => token[r].family = r
            /\ op[r] = "refresh" => token[r].family = token[arg[r]].family
        /\ r \in rows => token[r].family \in rows

IInv ==
    /\ TypeOK
    /\ KnownIsPersisted
    /\ Staged
    /\ RowsLast
    /\ SpentBeforeDraft
    /\ DraftLineage

-----------------------------------------------------------------------------
\* The initial state satisfies the inductive invariant: there is no row and no
\* handler (migration 000001_init.up.sql creates both tables empty).
LEMMA InitIInv == Init => IInv
  BY ConstantsAssumption
  DEF Init, IInv, TypeOK, KnownIsPersisted, Staged, RowsLast, SpentBeforeDraft,
      DraftLineage, Token, Ops, Labels, Outcomes

\* No statement of any handler breaks a type: every step of auth_service.go
\* keeps the flags on existing rows and the columns in their domains.
LEMMA TypeStep == IInv /\ [Next]_vars => TypeOK'
  <1> SUFFICES ASSUME IInv, [Next]_vars PROVE TypeOK'
    OBVIOUS
  <1> USE ConstantsAssumption DEF IInv, TypeOK, Ops, Labels, Outcomes
  <1>1. ASSUME NEW r \in Req, BeginIssue(r) PROVE TypeOK'
    BY <1>1 DEF BeginIssue, Goto
  <1>2. ASSUME NEW r \in Req, NEW m \in {"refresh", "revoke"},
               NEW t \in known \cup {NoToken}, BeginPresent(r, m, t)
        PROVE  TypeOK'
    BY <1>2 DEF BeginPresent, Goto
  <1>3. ASSUME NEW r \in Req, RejectEmpty(r) PROVE TypeOK'
    BY <1>3 DEF RejectEmpty, Finish, Abort, Return, Fault
  <1>4. ASSUME NEW r \in Req, Prepare(r) PROVE TypeOK'
    <2>1. CASE token' = [token EXCEPT ![r] =
                            [family |-> r, session |-> r, expires |-> now + TTL]]
               /\ Goto(r, "session")
      <3>1. [family |-> r, session |-> r, expires |-> now + TTL] \in Token
        BY DEF Token
      <3> QED
        BY <1>4, <2>1, <3>1 DEF Prepare, Goto
    <2>2. CASE Abort(r, "error") /\ UNCHANGED token
      BY <1>4, <2>2 DEF Prepare, Abort, Return, Fault
    <2> QED
      BY <1>4, <2>1, <2>2 DEF Prepare
  <1>5. ASSUME NEW r \in Req, CreateSession(r) PROVE TypeOK'
    <2>1. CASE sessions' = sessions \cup {r} /\ Goto(r, "insert")
      BY <1>5, <2>1 DEF CreateSession, Goto
    <2>2. CASE sessions' \in {sessions, sessions \cup {r}} /\ Abort(r, "error")
      BY <1>5, <2>2 DEF CreateSession, Abort, Return, Fault
    <2> QED
      BY <1>5, <2>1, <2>2 DEF CreateSession
  <1>6. ASSUME NEW r \in Req, ReadToken(r) PROVE TypeOK'
    BY <1>6 DEF ReadToken, NotFound, Goto, Finish, Abort, Return, Fault
  <1>7. ASSUME NEW r \in Req, CheckExpiry(r) PROVE TypeOK'
    BY <1>7 DEF CheckExpiry, Goto, Finish, Abort, Return, Fault
  <1>8. ASSUME NEW r \in Req, RevokeOnReplay(r) PROVE TypeOK'
    BY <1>8 DEF RevokeOnReplay, Finish, Abort, Return, Fault, FamilyOf
  <1>9. ASSUME NEW r \in Req, RevokeFamily(r) PROVE TypeOK'
    BY <1>9 DEF RevokeFamily, Finish, Abort, Return, Fault, FamilyOf
  <1>10. ASSUME NEW r \in Req, MarkUsed(r) PROVE TypeOK'
    BY <1>10 DEF MarkUsed, Goto, Finish, Abort, Return, Fault, Staged
  <1>11. ASSUME NEW r \in Req, LoadAndSign(r) PROVE TypeOK'
    <2>1. arg[r] \in Req
      BY <1>11 DEF LoadAndSign, Staged
    <2>2. Successor(r) \in Token
      BY <2>1 DEF Successor, Token
    <2> QED
      BY <1>11, <2>2 DEF LoadAndSign, Goto, Finish, Abort, Return, Fault
  <1>12. ASSUME NEW r \in Req, CreateRefreshToken(r) PROVE TypeOK'
    BY <1>12 DEF CreateRefreshToken, Goto, Finish, Abort, Return, Fault
  <1>13. ASSUME NEW r \in Req, Reply(r) PROVE TypeOK'
    BY <1>13 DEF Reply, Finish, Abort, Return, Fault
  <1>14. CASE Crash
    BY <1>14 DEF Crash, Fault
  <1>15. CASE Tick
    BY <1>15 DEF Tick
  <1>16. CASE Rest \/ UNCHANGED vars
    BY <1>16 DEF Rest, vars
  <1> QED
    BY <1>1, <1>2, <1>3, <1>4, <1>5, <1>6, <1>7, <1>8, <1>9, <1>10, <1>11, <1>12,
       <1>13, <1>14, <1>15, <1>16 DEF Next, Arrive, Step

\* Control flow of the three methods (auth_service.go:195-338): every statement is
\* reached only from the statements before it in its own method.
LEMMA StagedStep == IInv /\ [Next]_vars => Staged'
  <1> SUFFICES ASSUME IInv, [Next]_vars PROVE Staged'
    OBVIOUS
  <1> USE ConstantsAssumption DEF IInv, TypeOK, Staged
  <1>1. ASSUME NEW r \in Req, BeginIssue(r) PROVE Staged'
    BY <1>1 DEF BeginIssue, Goto
  <1>2. ASSUME NEW r \in Req, NEW m \in {"refresh", "revoke"},
               NEW t \in known \cup {NoToken}, BeginPresent(r, m, t)
        PROVE  Staged'
    BY <1>2 DEF BeginPresent, Goto
  <1>3. ASSUME NEW r \in Req, RejectEmpty(r) PROVE Staged'
    BY <1>3 DEF RejectEmpty, Finish, Abort, Return, Fault
  <1>4. ASSUME NEW r \in Req, Prepare(r) PROVE Staged'
    BY <1>4 DEF Prepare, Goto, Finish, Abort, Return, Fault
  <1>5. ASSUME NEW r \in Req, CreateSession(r) PROVE Staged'
    BY <1>5 DEF CreateSession, Goto, Finish, Abort, Return, Fault
  <1>6. ASSUME NEW r \in Req, ReadToken(r) PROVE Staged'
    BY <1>6 DEF ReadToken, NotFound, Goto, Finish, Abort, Return, Fault
  <1>7. ASSUME NEW r \in Req, CheckExpiry(r) PROVE Staged'
    BY <1>7 DEF CheckExpiry, Goto, Finish, Abort, Return, Fault
  <1>8. ASSUME NEW r \in Req, RevokeOnReplay(r) PROVE Staged'
    BY <1>8 DEF RevokeOnReplay, Finish, Abort, Return, Fault
  <1>9. ASSUME NEW r \in Req, RevokeFamily(r) PROVE Staged'
    BY <1>9 DEF RevokeFamily, Finish, Abort, Return, Fault
  <1>10. ASSUME NEW r \in Req, MarkUsed(r) PROVE Staged'
    BY <1>10 DEF MarkUsed, Goto, Finish, Abort, Return, Fault
  <1>11. ASSUME NEW r \in Req, LoadAndSign(r) PROVE Staged'
    BY <1>11 DEF LoadAndSign, Goto, Finish, Abort, Return, Fault
  <1>12. ASSUME NEW r \in Req, CreateRefreshToken(r) PROVE Staged'
    BY <1>12 DEF CreateRefreshToken, Goto, Finish, Abort, Return, Fault
  <1>13. ASSUME NEW r \in Req, Reply(r) PROVE Staged'
    BY <1>13 DEF Reply, Finish, Abort, Return, Fault
  <1>14. CASE Crash
    BY <1>14 DEF Crash, InFlight, Fault
  <1>15. CASE Tick
    BY <1>15 DEF Tick
  <1>16. CASE Rest \/ UNCHANGED vars
    BY <1>16 DEF Rest, vars
  <1> QED
    BY <1>1, <1>2, <1>3, <1>4, <1>5, <1>6, <1>7, <1>8, <1>9, <1>10, <1>11, <1>12,
       <1>13, <1>14, <1>15, <1>16 DEF Next, Arrive, Step

\* A token has a row only when its request is at its reply or over
\* (auth_service.go:249-253, :328-332).
LEMMA RowsLastStep == IInv /\ [Next]_vars => (RowsLast /\ KnownIsPersisted)'
  <1> SUFFICES ASSUME IInv, [Next]_vars PROVE (RowsLast /\ KnownIsPersisted)'
    OBVIOUS
  <1> USE ConstantsAssumption DEF IInv, TypeOK, Staged, RowsLast, KnownIsPersisted
  <1>1. ASSUME NEW r \in Req, BeginIssue(r) PROVE (RowsLast /\ KnownIsPersisted)'
    BY <1>1 DEF BeginIssue, Goto
  <1>2. ASSUME NEW r \in Req, NEW m \in {"refresh", "revoke"},
               NEW t \in known \cup {NoToken}, BeginPresent(r, m, t)
        PROVE  (RowsLast /\ KnownIsPersisted)'
    BY <1>2 DEF BeginPresent, Goto
  <1>3. ASSUME NEW r \in Req, RejectEmpty(r) PROVE (RowsLast /\ KnownIsPersisted)'
    BY <1>3 DEF RejectEmpty, Finish, Abort, Return, Fault
  <1>4. ASSUME NEW r \in Req, Prepare(r) PROVE (RowsLast /\ KnownIsPersisted)'
    BY <1>4 DEF Prepare, Goto, Finish, Abort, Return, Fault
  <1>5. ASSUME NEW r \in Req, CreateSession(r) PROVE (RowsLast /\ KnownIsPersisted)'
    BY <1>5 DEF CreateSession, Goto, Finish, Abort, Return, Fault
  <1>6. ASSUME NEW r \in Req, ReadToken(r) PROVE (RowsLast /\ KnownIsPersisted)'
    BY <1>6 DEF ReadToken, NotFound, Goto, Finish, Abort, Return, Fault
  <1>7. ASSUME NEW r \in Req, CheckExpiry(r) PROVE (RowsLast /\ KnownIsPersisted)'
    BY <1>7 DEF CheckExpiry, Goto, Finish, Abort, Return, Fault
  <1>8. ASSUME NEW r \in Req, RevokeOnReplay(r) PROVE (RowsLast /\ KnownIsPersisted)'
    BY <1>8 DEF RevokeOnReplay, Finish, Abort, Return, Fault
  <1>9. ASSUME NEW r \in Req, RevokeFamily(r) PROVE (RowsLast /\ KnownIsPersisted)'
    BY <1>9 DEF RevokeFamily, Finish, Abort, Return, Fault
  <1>10. ASSUME NEW r \in Req, MarkUsed(r) PROVE (RowsLast /\ KnownIsPersisted)'
    BY <1>10 DEF MarkUsed, Goto, Finish, Abort, Return, Fault
  <1>11. ASSUME NEW r \in Req, LoadAndSign(r) PROVE (RowsLast /\ KnownIsPersisted)'
    BY <1>11 DEF LoadAndSign, Goto, Finish, Abort, Return, Fault
  <1>12. ASSUME NEW r \in Req, CreateRefreshToken(r) PROVE (RowsLast /\ KnownIsPersisted)'
    BY <1>12 DEF CreateRefreshToken, Goto, Finish, Abort, Return, Fault
  <1>13. ASSUME NEW r \in Req, Reply(r) PROVE (RowsLast /\ KnownIsPersisted)'
    BY <1>13 DEF Reply, Finish, Abort, Return, Fault
  <1>14. CASE Crash
    BY <1>14 DEF Crash, InFlight, Fault
  <1>15. CASE Tick
    BY <1>15 DEF Tick
  <1>16. CASE Rest \/ UNCHANGED vars
    BY <1>16 DEF Rest, vars
  <1> QED
    BY <1>1, <1>2, <1>3, <1>4, <1>5, <1>6, <1>7, <1>8, <1>9, <1>10, <1>11, <1>12,
       <1>13, <1>14, <1>15, <1>16 DEF Next, Arrive, Step

\* Marking comes before building, building before inserting
\* (auth_service.go:215-249).
LEMMA SpentStep == IInv /\ [Next]_vars => SpentBeforeDraft'
  <1> SUFFICES ASSUME IInv, [Next]_vars PROVE SpentBeforeDraft'
    OBVIOUS
  <1> USE ConstantsAssumption DEF IInv, TypeOK, Staged, RowsLast, SpentBeforeDraft
  <1>1. ASSUME NEW r \in Req, BeginIssue(r) PROVE SpentBeforeDraft'
    BY <1>1 DEF BeginIssue, Goto
  <1>2. ASSUME NEW r \in Req, NEW m \in {"refresh", "revoke"},
               NEW t \in known \cup {NoToken}, BeginPresent(r, m, t)
        PROVE  SpentBeforeDraft'
    BY <1>2 DEF BeginPresent, Goto
  <1>3. ASSUME NEW r \in Req, RejectEmpty(r) PROVE SpentBeforeDraft'
    BY <1>3 DEF RejectEmpty, Finish, Abort, Return, Fault
  <1>4. ASSUME NEW r \in Req, Prepare(r) PROVE SpentBeforeDraft'
    BY <1>4 DEF Prepare, Goto, Finish, Abort, Return, Fault
  <1>5. ASSUME NEW r \in Req, CreateSession(r) PROVE SpentBeforeDraft'
    BY <1>5 DEF CreateSession, Goto, Finish, Abort, Return, Fault
  <1>6. ASSUME NEW r \in Req, ReadToken(r) PROVE SpentBeforeDraft'
    BY <1>6 DEF ReadToken, NotFound, Goto, Finish, Abort, Return, Fault
  <1>7. ASSUME NEW r \in Req, CheckExpiry(r) PROVE SpentBeforeDraft'
    BY <1>7 DEF CheckExpiry, Goto, Finish, Abort, Return, Fault
  <1>8. ASSUME NEW r \in Req, RevokeOnReplay(r) PROVE SpentBeforeDraft'
    BY <1>8 DEF RevokeOnReplay, Finish, Abort, Return, Fault
  <1>9. ASSUME NEW r \in Req, RevokeFamily(r) PROVE SpentBeforeDraft'
    BY <1>9 DEF RevokeFamily, Finish, Abort, Return, Fault
  <1>10. ASSUME NEW r \in Req, MarkUsed(r) PROVE SpentBeforeDraft'
    BY <1>10 DEF MarkUsed, Goto, Finish, Abort, Return, Fault
  <1>11. ASSUME NEW r \in Req, LoadAndSign(r) PROVE SpentBeforeDraft'
    BY <1>11 DEF LoadAndSign, Goto, Finish, Abort, Return, Fault
  <1>12. ASSUME NEW r \in Req, CreateRefreshToken(r) PROVE SpentBeforeDraft'
    BY <1>12 DEF CreateRefreshToken, Goto, Finish, Abort, Return, Fault
  <1>13. ASSUME NEW r \in Req, Reply(r) PROVE SpentBeforeDraft'
    BY <1>13 DEF Reply, Finish, Abort, Return, Fault
  <1>14. CASE Crash
    BY <1>14 DEF Crash, InFlight, Fault
  <1>15. CASE Tick
    BY <1>15 DEF Tick
  <1>16. CASE Rest \/ UNCHANGED vars
    BY <1>16 DEF Rest, vars
  <1> QED
    BY <1>1, <1>2, <1>3, <1>4, <1>5, <1>6, <1>7, <1>8, <1>9, <1>10, <1>11, <1>12,
       <1>13, <1>14, <1>15, <1>16 DEF Next, Arrive, Step

\* A row that exists keeps its columns: only the handler that is still building
\* its own token writes token (auth_service.go:239-248, :318-327).
LEMMA RowsFixed ==
  ASSUME IInv, [Next]_vars
  PROVE  /\ rows \subseteq rows' /\ used \subseteq used' /\ revoked \subseteq revoked'
         /\ sessions \subseteq sessions'
         /\ \A t \in rows : /\ token'[t] = token[t] /\ op'[t] = op[t]
                            /\ arg'[t] = arg[t]
  <1> USE DEF IInv, TypeOK, Staged, RowsLast
  <1>1. ASSUME NEW r \in Req, Arrive(r)
        PROVE  /\ UNCHANGED <<rows, used, revoked, sessions, token>>
               /\ \A t \in rows : op'[t] = op[t] /\ arg'[t] = arg[t]
    BY <1>1 DEF Arrive, BeginIssue, BeginPresent, RejectEmpty
  <1>2. ASSUME NEW r \in Req, Step(r)
        PROVE  /\ rows \subseteq rows' /\ used \subseteq used' /\ revoked \subseteq revoked'
               /\ sessions \subseteq sessions' /\ UNCHANGED <<op, arg>>
    BY <1>2 DEF Step, Prepare, CreateSession, ReadToken, CheckExpiry, RevokeOnReplay,
        RevokeFamily, MarkUsed, LoadAndSign, CreateRefreshToken, Reply
  <1>3. ASSUME NEW r \in Req, Step(r), NEW t \in rows
        PROVE  token'[t] = token[t]
    BY <1>3 DEF Step, Prepare, CreateSession, ReadToken, CheckExpiry, RevokeOnReplay,
        RevokeFamily, MarkUsed, LoadAndSign, CreateRefreshToken, Reply
  <1>4. CASE Crash \/ Tick \/ Rest \/ UNCHANGED vars
    BY <1>4 DEF Crash, Tick, Rest, vars
  <1> QED
    BY <1>1, <1>2, <1>3, <1>4 DEF Next

\* A rotation copies family and session of the token it read; a login makes a
\* session first and a family of its own (auth_service.go:239-249, :302-328).
LEMMA LineageStep == IInv /\ [Next]_vars => DraftLineage'
  <1> SUFFICES ASSUME IInv, [Next]_vars PROVE DraftLineage'
    OBVIOUS
  <1> USE ConstantsAssumption
      DEF IInv, TypeOK, Staged, RowsLast, DraftLineage
  <1>0. \A s \in Req : /\ op[s] = "refresh" /\ (pc[s] = "insert" \/ s \in rows)
                         => arg[s] \in rows
    BY DEF SpentBeforeDraft
  <1>1. ASSUME NEW r \in Req, BeginIssue(r) PROVE DraftLineage'
    BY <1>1 DEF BeginIssue, Goto
  <1>2. ASSUME NEW r \in Req, NEW m \in {"refresh", "revoke"},
               NEW s \in known \cup {NoToken}, BeginPresent(r, m, s)
        PROVE  DraftLineage'
    BY <1>2 DEF BeginPresent, Goto
  <1>3. ASSUME NEW r \in Req, RejectEmpty(r) PROVE DraftLineage'
    BY <1>3 DEF RejectEmpty, Finish, Abort, Return, Fault
  <1>4. ASSUME NEW r \in Req, Prepare(r) PROVE DraftLineage'
    BY <1>0, <1>4 DEF Prepare, Goto, Finish, Abort, Return, Fault, Token
  <1>5. ASSUME NEW r \in Req, CreateSession(r) PROVE DraftLineage'
    BY <1>5 DEF CreateSession, Goto, Finish, Abort, Return, Fault
  <1>6. ASSUME NEW r \in Req, ReadToken(r) PROVE DraftLineage'
    BY <1>6 DEF ReadToken, NotFound, Goto, Finish, Abort, Return, Fault
  <1>7. ASSUME NEW r \in Req, CheckExpiry(r) PROVE DraftLineage'
    BY <1>7 DEF CheckExpiry, Goto, Finish, Abort, Return, Fault
  <1>8. ASSUME NEW r \in Req, RevokeOnReplay(r) PROVE DraftLineage'
    BY <1>8 DEF RevokeOnReplay, Finish, Abort, Return, Fault
  <1>9. ASSUME NEW r \in Req, RevokeFamily(r) PROVE DraftLineage'
    BY <1>9 DEF RevokeFamily, Finish, Abort, Return, Fault
  <1>10. ASSUME NEW r \in Req, MarkUsed(r) PROVE DraftLineage'
    BY <1>10 DEF MarkUsed, Goto, Finish, Abort, Return, Fault
  <1>11. ASSUME NEW r \in Req, LoadAndSign(r) PROVE DraftLineage'
    <2>1. arg[r] \in rows /\ r \notin rows /\ arg[r] # r
      BY <1>11 DEF LoadAndSign
    <2>2. /\ Successor(r).family = token[arg[r]].family
          /\ Successor(r).session = token[arg[r]].session
      BY <2>1 DEF Successor, Token
    <2> QED
      BY <1>0, <1>11, <2>1, <2>2 DEF LoadAndSign, Goto, Finish, Abort, Return, Fault
  <1>12. ASSUME NEW r \in Req, CreateRefreshToken(r) PROVE DraftLineage'
    <2>1. token[r].family \in rows \cup {r}
      BY <1>0, <1>12 DEF CreateRefreshToken
    <2> QED
      BY <1>12, <2>1 DEF CreateRefreshToken, Goto, Finish, Abort, Return, Fault
  <1>13. ASSUME NEW r \in Req, Reply(r) PROVE DraftLineage'
    BY <1>13 DEF Reply, Finish, Abort, Return, Fault
  <1>14. CASE Crash
    BY <1>14 DEF Crash, InFlight, Fault
  <1>15. CASE Tick
    BY <1>15 DEF Tick
  <1>16. CASE Rest \/ UNCHANGED vars
    BY <1>16 DEF Rest, vars
  <1> QED
    BY <1>1, <1>2, <1>3, <1>4, <1>5, <1>6, <1>7, <1>8, <1>9, <1>10, <1>11, <1>12,
       <1>13, <1>14, <1>15, <1>16 DEF Next, Arrive, Step

\* Every step preserves the inductive invariant.
LEMMA NextIInv == IInv /\ [Next]_vars => IInv'
  BY TypeStep, StagedStep, RowsLastStep, SpentStep, LineageStep DEF IInv

\* Every reachable state satisfies the inductive invariant.
LEMMA Inductive == Spec => []IInv
  BY InitIInv, NextIInv, PTL DEF Spec

-----------------------------------------------------------------------------
(* Safety, whatever overlaps and whatever fails. *)

\* Every reachable state is well typed (000001_init.up.sql:97-125).
THEOREM TypeCorrect == Spec => []TypeOK
  <1>1. IInv => TypeOK
    BY DEF IInv
  <1> QED
    BY <1>1, Inductive, PTL

\* A successor is in the table only after the token it replaces was spent
\* (auth_service.go:215 before :249).
THEOREM SpentFirst == Spec => []SpentBeforeSuccessor
  <1>1. IInv => SpentBeforeSuccessor
    BY DEF IInv, TypeOK, SpentBeforeDraft, SpentBeforeSuccessor
  <1> QED
    BY <1>1, Inductive, PTL

\* A token never leaves the family and the session of its login
\* (auth_service.go:239-248).
THEOREM LineageKept == Spec => []SuccessorKeepsLineage
  <1>1. IInv => SuccessorKeepsLineage
    BY DEF IInv, TypeOK, DraftLineage, SuccessorKeepsLineage
  <1> QED
    BY <1>1, Inductive, PTL

\* A client holds only tokens the table knows (auth_service.go:249-253).
THEOREM ClientsHoldRows == Spec => []KnownIsPersisted
  <1>1. IInv => KnownIsPersisted
    BY DEF IInv
  <1> QED
    BY <1>1, Inductive, PTL

-----------------------------------------------------------------------------
(* What a step may never do. *)

\* A step that adds a spender of t read t unspent (auth_service.go:201-211).
LEMMA SpendersStep ==
  ASSUME IInv, [Next]_vars, NEW t \in used \cup revoked
  PROVE  Spenders(t)' \subseteq Spenders(t)
  <1> USE ConstantsAssumption
      DEF IInv, TypeOK, Staged, RowsLast, SpentBeforeDraft, Spenders
  <1>1. ASSUME NEW r \in Req, BeginIssue(r) PROVE Spenders(t)' \subseteq Spenders(t)
    BY <1>1 DEF BeginIssue, Goto
  <1>2. ASSUME NEW r \in Req, NEW m \in {"refresh", "revoke"},
               NEW s \in known \cup {NoToken}, BeginPresent(r, m, s)
        PROVE  Spenders(t)' \subseteq Spenders(t)
    BY <1>2 DEF BeginPresent, Goto
  <1>3. ASSUME NEW r \in Req, RejectEmpty(r) PROVE Spenders(t)' \subseteq Spenders(t)
    BY <1>3 DEF RejectEmpty, Finish, Abort, Return, Fault
  <1>4. ASSUME NEW r \in Req, Prepare(r) PROVE Spenders(t)' \subseteq Spenders(t)
    BY <1>4 DEF Prepare, Goto, Finish, Abort, Return, Fault
  <1>5. ASSUME NEW r \in Req, CreateSession(r) PROVE Spenders(t)' \subseteq Spenders(t)
    BY <1>5 DEF CreateSession, Goto, Finish, Abort, Return, Fault
  <1>6. ASSUME NEW r \in Req, ReadToken(r) PROVE Spenders(t)' \subseteq Spenders(t)
    BY <1>6 DEF ReadToken, Goto, Finish, Abort, Return, Fault, Replayed
  <1>7. ASSUME NEW r \in Req, CheckExpiry(r) PROVE Spenders(t)' \subseteq Spenders(t)
    BY <1>7 DEF CheckExpiry, Goto, Finish, Abort, Return, Fault
  <1>8. ASSUME NEW r \in Req, RevokeOnReplay(r) PROVE Spenders(t)' \subseteq Spenders(t)
    BY <1>8 DEF RevokeOnReplay, Finish, Abort, Return, Fault
  <1>9. ASSUME NEW r \in Req, RevokeFamily(r) PROVE Spenders(t)' \subseteq Spenders(t)
    BY <1>9 DEF RevokeFamily, Finish, Abort, Return, Fault
  <1>10. ASSUME NEW r \in Req, MarkUsed(r) PROVE Spenders(t)' \subseteq Spenders(t)
    BY <1>10 DEF MarkUsed, Goto, Finish, Abort, Return, Fault
  <1>11. ASSUME NEW r \in Req, LoadAndSign(r) PROVE Spenders(t)' \subseteq Spenders(t)
    BY <1>11 DEF LoadAndSign, Goto, Finish, Abort, Return, Fault
  <1>12. ASSUME NEW r \in Req, CreateRefreshToken(r) PROVE Spenders(t)' \subseteq Spenders(t)
    BY <1>12 DEF CreateRefreshToken, Goto, Finish, Abort, Return, Fault
  <1>13. ASSUME NEW r \in Req, Reply(r) PROVE Spenders(t)' \subseteq Spenders(t)
    BY <1>13 DEF Reply, Finish, Abort, Return, Fault
  <1>14. CASE Crash
    BY <1>14 DEF Crash, InFlight, Fault
  <1>15. CASE Tick
    BY <1>15 DEF Tick
  <1>16. CASE Rest \/ UNCHANGED vars
    BY <1>16 DEF Rest, vars
  <1> QED
    BY <1>1, <1>2, <1>3, <1>4, <1>5, <1>6, <1>7, <1>8, <1>9, <1>10, <1>11, <1>12,
       <1>13, <1>14, <1>15, <1>16 DEF Next, Arrive, Step

\* Setting a flag closes a token to every handler that has not read it yet
\* (auth_service.go:201-215).
THEOREM NoLateSpender == Spec => SpentAdmitsNoOne
  <1>1. IInv /\ [Next]_vars => [\A t \in used \cup revoked : Spenders(t)' \subseteq Spenders(t)]_vars
    BY SpendersStep
  <1> QED
    BY <1>1, Inductive, PTL DEF Spec, SpentAdmitsNoOne

\* No statement revives a dead family: its rows stay unspendable, only a rotation
\* that read one of them before could add a row, and there is none
\* (auth_service.go:201-249).
LEMMA DeadStep ==
  ASSUME IInv, [Next]_vars, NEW f \in Req, DeadFamily(f)
  PROVE  DeadFamily(f)'
  <1> USE ConstantsAssumption DEF IInv, TypeOK
  <1>1. now <= now'
    BY DEF Next, Arrive, Step, BeginIssue, BeginPresent, RejectEmpty, Prepare,
       CreateSession, ReadToken, CheckExpiry, RevokeOnReplay, RevokeFamily, MarkUsed,
       LoadAndSign, CreateRefreshToken, Reply, Crash, Tick, Rest, vars
  <1>2. f \in rows'
    BY RowsFixed DEF DeadFamily
  <1>3. now' \in Nat /\ IInv'
    BY NextIInv
  <1>4. \A t \in rows : token[t].family = f => (Replayed(t) \/ Expired(t))'
    BY <1>1, <1>3, RowsFixed DEF DeadFamily, Replayed, Expired, Token
  <1>5. \A t \in rows' \ rows : token'[t].family # f
    <2> SUFFICES ASSUME NEW t \in rows', t \notin rows PROVE token'[t].family # f
      OBVIOUS
    <2>1. CreateRefreshToken(t)
      BY DEF Next, Arrive, Step, BeginIssue, BeginPresent, RejectEmpty, Prepare,
         CreateSession, ReadToken, CheckExpiry, RevokeOnReplay, RevokeFamily, MarkUsed,
         LoadAndSign, CreateRefreshToken, Reply, Crash, Tick, Rest, vars
    <2>2. pc[t] = "insert" /\ token'[t] = token[t] /\ t \in Req
      BY <1>3, <2>1 DEF CreateRefreshToken
    <2>3. CASE op[t] = "issue"
      BY <2>2, <2>3 DEF DraftLineage, DeadFamily
    <2>4. CASE op[t] = "refresh"
      BY <2>2, <2>4 DEF DraftLineage, SpentBeforeDraft, DeadFamily, Rotating
    <2> QED
      BY <2>2, <2>3, <2>4 DEF Staged
  <1>6. ~Rotating(f)'
    <2> SUFFICES ASSUME NEW r \in Req,
                        op'[r] = "refresh", arg'[r] \in rows', token'[arg'[r]].family = f,
                        \/ pc'[r] \in {"mark", "load", "insert"}
                        \/ pc'[r] = "expiry" /\ ~(now' > token'[arg'[r]].expires)
                 PROVE  FALSE
      BY DEF Rotating, Expired
    <2>1. arg'[r] \in rows /\ token'[arg'[r]] = token[arg'[r]]
      BY <1>5, RowsFixed
    <2>2. ~ \E s \in Req : Arrive(s) /\ s = r
      BY DEF Arrive, BeginIssue, BeginPresent, RejectEmpty, Goto, Finish, Abort, Return, Fault
    <2>3. op'[r] = op[r] /\ arg'[r] = arg[r]
      BY <2>2 DEF Next, Arrive, Step, BeginIssue, BeginPresent, RejectEmpty, Prepare,
         CreateSession, ReadToken, CheckExpiry, RevokeOnReplay, RevokeFamily, MarkUsed,
         LoadAndSign, CreateRefreshToken, Reply, Crash, Tick, Rest, vars
    <2>4. now' > token[arg[r]].expires \/ ~Expired(arg[r])
      BY <1>1, <1>3, <2>1, <2>3 DEF Expired, Token
    <2>5. CASE pc'[r] = pc[r]
      BY <2>1, <2>3, <2>4, <2>5 DEF DeadFamily, Rotating
    <2>6. CASE pc'[r] # pc[r]
      <3>1. Step(r)
        BY <2>2, <2>6 DEF Next, Arrive, Step, BeginIssue, BeginPresent, RejectEmpty,
           Prepare, CreateSession, ReadToken, CheckExpiry, RevokeOnReplay, RevokeFamily,
           MarkUsed, LoadAndSign, CreateRefreshToken, Reply, Crash, Tick, Rest, vars,
           Goto, Finish, Abort, Return, Fault, InFlight
      <3>2. CASE ReadToken(r)
        BY <2>1, <2>3, <2>4, <3>2 DEF ReadToken, Goto, Finish, Abort, Return, Fault, DeadFamily, Replayed
      <3>3. CASE CheckExpiry(r)
        BY <2>1, <2>3, <3>3 DEF CheckExpiry, Goto, Finish, Abort, Return, Fault, DeadFamily, Rotating
      <3>4. CASE MarkUsed(r) \/ LoadAndSign(r)
        BY <2>1, <2>3, <3>4 DEF MarkUsed, LoadAndSign, Goto, Finish, Abort, Return, Fault, DeadFamily, Rotating
      <3>5. CASE Prepare(r) \/ CreateSession(r)
        BY <2>3, <3>5 DEF Prepare, CreateSession, Staged
      <3>6. CASE RevokeOnReplay(r) \/ RevokeFamily(r) \/ CreateRefreshToken(r) \/ Reply(r)
        BY <3>6 DEF RevokeOnReplay, RevokeFamily, CreateRefreshToken, Reply, Goto, Finish, Abort, Return, Fault
      <3> QED
        BY <3>1, <3>2, <3>3, <3>4, <3>5, <3>6 DEF Step
    <2> QED
      BY <2>5, <2>6
  <1>7. (\A t \in rows : token[t].family = f => Replayed(t) \/ Expired(t))'
    BY <1>4, <1>5, RowsFixed
  <1> QED
    BY <1>2, <1>6, <1>7 DEF DeadFamily

\* A login that has no spendable token and no rotation under way never has one
\* again (architecture.md:171, for everything but the handlers already past
\* their SELECT).
THEOREM DeadForGood == Spec => DeadFamilyStaysDead
  <1>1. IInv /\ [Next]_vars => [\A f \in Req : DeadFamily(f) => DeadFamily(f)']_vars
    BY DeadStep
  <1> QED
    BY <1>1, Inductive, PTL DEF Spec, DeadFamilyStaysDead

-----------------------------------------------------------------------------
(***************************************************************************)
(* The order of requests.  before[r] was noted when r came with its token, *)
(* so two requests in flight at the same time overlap, and whether two     *)
(* requests overlap is settled once both have begun.                       *)
(***************************************************************************)

\* A request presents an existing token or none, and what it found over is over.
\* Only a rotation that reached its replay path answers so, and it has no row.
Ordered ==
    \A r \in Req :
        /\ arg[r] \in rows \cup {NoToken}
        /\ pc[r] = "idle" => arg[r] = NoToken /\ outcome[r] = "none"
        /\ op[r] \in {"none", "issue"} => arg[r] = NoToken
        /\ \A q \in before[r] : pc[q] = "done"
        /\ outcome[r] = "replay" => pc[r] = "done" /\ op[r] = "refresh" /\ r \notin rows

\* A handler writes to its own variables only.
LEMMA OwnStep ==
  ASSUME IInv, NEW s \in Req, Arrive(s) \/ Step(s), NEW r \in Req, r # s
  PROVE  /\ op'[r] = op[r] /\ arg'[r] = arg[r] /\ before'[r] = before[r]
         /\ pc'[r] = pc[r] /\ outcome'[r] = outcome[r]
  <1> USE DEF IInv, TypeOK
  <1>1. CASE Arrive(s)
    BY <1>1 DEF Arrive, BeginIssue, BeginPresent, RejectEmpty, Goto, Finish, Return
  <1>2. CASE Step(s)
    BY <1>2 DEF Step, Prepare, CreateSession, ReadToken, CheckExpiry, RevokeOnReplay,
       RevokeFamily, MarkUsed, LoadAndSign, CreateRefreshToken, Reply, Goto, Finish,
       Abort, Return
  <1> QED
    BY <1>1, <1>2

\* A request that has begun keeps its method, its argument and its place in the
\* order; an answer is final.
LEMMA Begun ==
  ASSUME IInv, [Next]_vars, NEW r \in Req
  PROVE  /\ pc[r] # "idle" =>
              /\ op'[r] = op[r] /\ arg'[r] = arg[r] /\ before'[r] = before[r]
              /\ pc'[r] # "idle"
         /\ pc[r] = "done" => pc'[r] = "done" /\ outcome'[r] = outcome[r]
  <1> USE DEF IInv, TypeOK
  <1>1. ASSUME NEW s \in Req, Arrive(s) PROVE pc[s] = "idle" /\ pc'[s] # "idle"
    BY <1>1 DEF Arrive, BeginIssue, BeginPresent, RejectEmpty, Goto, Finish, Return
  <1>2. ASSUME NEW s \in Req, Step(s)
        PROVE  /\ UNCHANGED <<op, arg, before>>
               /\ pc[s] \notin {"idle", "done"} /\ pc'[s] # "idle"
    BY <1>2 DEF Step, Prepare, CreateSession, ReadToken, CheckExpiry, RevokeOnReplay,
       RevokeFamily, MarkUsed, LoadAndSign, CreateRefreshToken, Reply, Goto, Finish,
       Abort, Return
  <1>3. CASE Crash
    BY <1>3 DEF Crash, InFlight
  <1>4. CASE Tick \/ Rest \/ UNCHANGED vars
    BY <1>4 DEF Tick, Rest, vars
  <1> QED
    BY <1>1, <1>2, <1>3, <1>4, OwnStep DEF Next

\* Requests come only with tokens that their clients hold (auth_handler.go:107-145).
LEMMA OrderedStep ==
  ASSUME IInv, Ordered, [Next]_vars
  PROVE  Ordered'
  <1> USE ConstantsAssumption
      DEF IInv, TypeOK, Staged, RowsLast, KnownIsPersisted, Ordered
  <1>1. ASSUME NEW r \in Req, BeginIssue(r) PROVE Ordered'
    BY <1>1 DEF BeginIssue, Goto
  <1>2. ASSUME NEW r \in Req, NEW m \in {"refresh", "revoke"},
               NEW s \in known \cup {NoToken}, BeginPresent(r, m, s)
        PROVE  Ordered'
    BY <1>2 DEF BeginPresent, Goto
  <1>3. ASSUME NEW r \in Req, RejectEmpty(r) PROVE Ordered'
    BY <1>3 DEF RejectEmpty, Finish, Return
  <1>4. ASSUME NEW r \in Req, Prepare(r) PROVE Ordered'
    BY <1>4 DEF Prepare, Goto, Abort, Return, Fault
  <1>5. ASSUME NEW r \in Req, CreateSession(r) PROVE Ordered'
    BY <1>5 DEF CreateSession, Goto, Abort, Return, Fault
  <1>6. ASSUME NEW r \in Req, ReadToken(r) PROVE Ordered'
    BY <1>6 DEF ReadToken, NotFound, Goto, Finish, Abort, Return, Fault
  <1>7. ASSUME NEW r \in Req, CheckExpiry(r) PROVE Ordered'
    BY <1>7 DEF CheckExpiry, Goto, Finish, Return
  <1>8. ASSUME NEW r \in Req, RevokeOnReplay(r) PROVE Ordered'
    BY <1>8 DEF RevokeOnReplay, Finish, Abort, Return, Fault
  <1>9. ASSUME NEW r \in Req, RevokeFamily(r) PROVE Ordered'
    BY <1>9 DEF RevokeFamily, Finish, Abort, Return, Fault
  <1>10. ASSUME NEW r \in Req, MarkUsed(r) PROVE Ordered'
    BY <1>10 DEF MarkUsed, Goto, Abort, Return, Fault
  <1>11. ASSUME NEW r \in Req, LoadAndSign(r) PROVE Ordered'
    BY <1>11 DEF LoadAndSign, Goto, Abort, Return, Fault
  <1>12. ASSUME NEW r \in Req, CreateRefreshToken(r) PROVE Ordered'
    BY <1>12 DEF CreateRefreshToken, Goto, Abort, Return, Fault
  <1>13. ASSUME NEW r \in Req, Reply(r) PROVE Ordered'
    BY <1>13 DEF Reply, Finish, Abort, Return, Fault
  <1>14. CASE Crash
    BY <1>14 DEF Crash, InFlight, Fault
  <1>15. CASE Tick
    BY <1>15 DEF Tick
  <1>16. CASE Rest \/ UNCHANGED vars
    BY <1>16 DEF Rest, vars
  <1> QED
    BY <1>1, <1>2, <1>3, <1>4, <1>5, <1>6, <1>7, <1>8, <1>9, <1>10, <1>11, <1>12,
       <1>13, <1>14, <1>15, <1>16 DEF Next, Arrive, Step

\* Whether two requests that have begun are apart never changes.
LEMMA ApartFixed ==
  ASSUME IInv, Ordered, [Next]_vars, NEW q \in Req, NEW r \in Req,
         pc[q] # "idle", pc[r] # "idle"
  PROVE  Apart(q, r)' <=> Apart(q, r)
  BY Begun DEF Apart

\* Two requests in flight overlap.
LEMMA InFlightOverlap ==
  ASSUME IInv, Ordered, NEW q \in Req, NEW r \in Req, pc[q] # "done", pc[r] # "done"
  PROVE  ~Apart(q, r)
  BY DEF Apart, Ordered, IInv, TypeOK

-----------------------------------------------------------------------------
(* Rotation exchanges a token for one token. *)

\* A request that came after a successor of its token was stored is not rotating
\* that token: it finds it used.
LateFindsUsed ==
    \A s \in rows, r \in Req :
        /\ op[s] = "refresh" /\ op[r] = "refresh" /\ arg[s] = arg[r] /\ s \in before[r]
        => pc[r] \notin {"expiry", "mark", "load", "insert"} /\ r \notin rows

\* The SELECT of a later request sees the flag that the successor's own request had
\* set before its INSERT (auth_service.go:201-215, :249).
LEMMA LateStep ==
  ASSUME IInv, Ordered, LateFindsUsed, [Next]_vars
  PROVE  LateFindsUsed'
  <1> USE ConstantsAssumption
      DEF IInv, TypeOK, Staged, RowsLast, SpentBeforeDraft, Ordered, LateFindsUsed
  <1>1. ASSUME NEW r \in Req, BeginIssue(r) PROVE LateFindsUsed'
    BY <1>1 DEF BeginIssue, Goto
  <1>2. ASSUME NEW r \in Req, NEW m \in {"refresh", "revoke"},
               NEW s \in known \cup {NoToken}, BeginPresent(r, m, s)
        PROVE  LateFindsUsed'
    BY <1>2 DEF BeginPresent, Goto
  <1>3. ASSUME NEW r \in Req, RejectEmpty(r) PROVE LateFindsUsed'
    BY <1>3 DEF RejectEmpty, Finish, Return
  <1>4. ASSUME NEW r \in Req, Prepare(r) PROVE LateFindsUsed'
    BY <1>4 DEF Prepare, Goto, Abort, Return, Fault
  <1>5. ASSUME NEW r \in Req, CreateSession(r) PROVE LateFindsUsed'
    BY <1>5 DEF CreateSession, Goto, Abort, Return, Fault
  <1>6. ASSUME NEW r \in Req, ReadToken(r) PROVE LateFindsUsed'
    BY <1>6 DEF ReadToken, NotFound, Replayed, Goto, Finish, Abort, Return, Fault
  <1>7. ASSUME NEW r \in Req, CheckExpiry(r) PROVE LateFindsUsed'
    BY <1>7 DEF CheckExpiry, Goto, Finish, Return
  <1>8. ASSUME NEW r \in Req, RevokeOnReplay(r) PROVE LateFindsUsed'
    BY <1>8 DEF RevokeOnReplay, Finish, Abort, Return, Fault
  <1>9. ASSUME NEW r \in Req, RevokeFamily(r) PROVE LateFindsUsed'
    BY <1>9 DEF RevokeFamily, Finish, Abort, Return, Fault
  <1>10. ASSUME NEW r \in Req, MarkUsed(r) PROVE LateFindsUsed'
    BY <1>10 DEF MarkUsed, Goto, Abort, Return, Fault
  <1>11. ASSUME NEW r \in Req, LoadAndSign(r) PROVE LateFindsUsed'
    BY <1>11 DEF LoadAndSign, Goto, Abort, Return, Fault
  <1>12. ASSUME NEW r \in Req, CreateRefreshToken(r) PROVE LateFindsUsed'
    BY <1>12 DEF CreateRefreshToken, Goto, Abort, Return, Fault
  <1>13. ASSUME NEW r \in Req, Reply(r) PROVE LateFindsUsed'
    BY <1>13 DEF Reply, Finish, Abort, Return, Fault
  <1>14. CASE Crash
    BY <1>14 DEF Crash, InFlight, Fault
  <1>15. CASE Tick
    BY <1>15 DEF Tick
  <1>16. CASE Rest \/ UNCHANGED vars
    BY <1>16 DEF Rest, vars
  <1> QED
    BY <1>1, <1>2, <1>3, <1>4, <1>5, <1>6, <1>7, <1>8, <1>9, <1>10, <1>11, <1>12,
       <1>13, <1>14, <1>15, <1>16 DEF Next, Arrive, Step

\* Every reachable state: the order of requests is as noted, and no late request
\* rotates a token that has a successor.
LEMMA OrderInductive == Spec => [](IInv /\ Ordered /\ LateFindsUsed)
  <1>1. Init => Ordered /\ LateFindsUsed
    BY DEF Init, Ordered, LateFindsUsed
  <1>2. IInv /\ Ordered /\ LateFindsUsed /\ [Next]_vars => Ordered' /\ LateFindsUsed'
    BY OrderedStep, LateStep
  <1> QED
    BY <1>1, <1>2, Inductive, PTL DEF Spec

\* Of two successors of one token neither's request came after the other's.
LEMMA OneSuccessorInv == IInv /\ Ordered /\ LateFindsUsed => AtMostOneSuccessor
  BY DEF IInv, TypeOK, LateFindsUsed, AtMostOneSuccessor, Apart

\* Only refreshes of one token that overlap give it two successors, whatever fails
\* and however often a client repeats (auth_service.go:201-249).
THEOREM OneSuccessor == Spec => []AtMostOneSuccessor
  BY OneSuccessorInv, OrderInductive, PTL

-----------------------------------------------------------------------------
(* Revocation takes a whole family, save what overlapped it. *)

\* Rotations of family f that have read their token unspent and may still insert.
Pending(f) ==
    {p \in Presenters(f) : op[p] = "refresh" /\ pc[p] \in {"expiry", "mark", "load", "insert"}}

\* What has escaped the revocation by v was under way at that time.
Contained(f, v) ==
    \/ Straddled(f, v)
    \/ FamilyRows(f) \subseteq revoked /\ \A p \in Pending(f) : ~Apart(p, v)

\* Every revoked family was revoked by somebody and contained; without failures so
\* was the family of every replay.
RevokedContained ==
    /\ \A f \in Req : FamilyRows(f) \cap revoked # {} =>
          \E v \in Revokers \cap Presenters(f) : pc[v] = "done" /\ Contained(f, v)
    /\ faults = 0 => \A f \in Req : \A v \in Presenters(f) :
          outcome[v] = "replay" => Contained(f, v)

\* A row that is new comes from its own request, which read a token of the family
\* before, or opens the family (auth_service.go:249, :328).
LEMMA NewRow ==
  ASSUME IInv, Ordered, [Next]_vars, NEW t \in rows', t \notin rows
  PROVE  /\ CreateRefreshToken(t) /\ rows' = rows \cup {t} /\ t \in Req /\ token' = token
         /\ pc[t] = "insert" /\ UNCHANGED <<used, revoked>> /\ t \notin revoked \cup used
         /\ \/ op[t] = "issue" /\ token[t].family = t
            \/ op[t] = "refresh" /\ t \in Pending(token[t].family)
  <1> USE DEF IInv, TypeOK
  <1>1. CreateRefreshToken(t)
    BY DEF Next, Arrive, Step, BeginIssue, BeginPresent, RejectEmpty, Prepare,
       CreateSession, ReadToken, CheckExpiry, RevokeOnReplay, RevokeFamily, MarkUsed,
       LoadAndSign, CreateRefreshToken, Reply, Crash, Tick, Rest, vars
  <1>2. /\ rows' = rows \cup {t} /\ t \in Req /\ token' = token /\ pc[t] = "insert"
        /\ UNCHANGED <<used, revoked>> /\ t \notin revoked \cup used
    BY <1>1, TypeStep DEF CreateRefreshToken
  <1>3. CASE op[t] = "issue"
    BY <1>1, <1>2, <1>3 DEF DraftLineage
  <1>4. CASE op[t] = "refresh"
    <2>1. arg[t] \in rows /\ token[t].family = token[arg[t]].family
      BY <1>2, <1>4 DEF DraftLineage, SpentBeforeDraft
    <2> QED
      BY <1>1, <1>2, <1>4, <2>1 DEF Pending, Presenters, FamilyRows
  <1> QED
    BY <1>1, <1>2, <1>3, <1>4 DEF Staged

\* A family that somebody presents a token of has its first row.
LEMMA PresentedFamily ==
  ASSUME IInv, NEW f \in Req, NEW v \in Presenters(f)
  PROVE  f \in rows /\ v \in Req /\ arg[v] \in FamilyRows(f)
  BY DEF IInv, TypeOK, DraftLineage, Presenters, FamilyRows

\* Who presents a token of a family keeps doing so.
LEMMA PresentersStay ==
  ASSUME IInv, Ordered, [Next]_vars, NEW f \in Req, NEW v \in Presenters(f)
  PROVE  /\ v \in Presenters(f)' /\ pc[v] # "idle" /\ pc'[v] # "idle"
         /\ op'[v] = op[v] /\ arg'[v] = arg[v] /\ FamilyRows(f) \subseteq FamilyRows(f)'
  <1>1. v \in Req /\ arg[v] \in rows /\ token[arg[v]].family = f
    BY DEF Presenters, FamilyRows
  <1>2. pc[v] # "idle"
    BY <1>1, ConstantsAssumption DEF Ordered, IInv, TypeOK
  <1>3. op'[v] = op[v] /\ arg'[v] = arg[v] /\ pc'[v] # "idle"
    BY <1>1, <1>2, Begun
  <1>4. FamilyRows(f) \subseteq FamilyRows(f)'
    BY RowsFixed DEF FamilyRows
  <1> QED
    BY <1>1, <1>2, <1>3, <1>4 DEF Presenters, FamilyRows

\* Who presents a token of a family did so before, or comes with it now.
LEMMA PresentersNew ==
  ASSUME IInv, Ordered, Ordered', [Next]_vars, NEW f \in Req, NEW v \in Presenters(f)',
         v \notin Presenters(f)
  PROVE  /\ pc[v] = "idle" /\ pc'[v] = "read" /\ outcome'[v] = "none"
         /\ \E m \in {"refresh", "revoke"} : BeginPresent(v, m, arg'[v])
         /\ arg'[v] \in FamilyRows(f)
  <1> USE DEF IInv, TypeOK
  <1>1. v \in Req /\ arg'[v] \in rows' /\ token'[arg'[v]].family = f
    BY DEF Presenters, FamilyRows
  <1>2. CASE pc[v] # "idle"
    <2>1. arg'[v] = arg[v]
      BY <1>1, <1>2, Begun
    <2>2. arg[v] \in rows
      BY <1>1, <2>1, TypeStep, ConstantsAssumption DEF Ordered
    <2>3. token'[arg[v]] = token[arg[v]]
      BY <2>2, RowsFixed
    <2> QED
      BY <1>1, <2>1, <2>2, <2>3 DEF Presenters, FamilyRows
  <1>3. CASE pc[v] = "idle"
    <2>1. arg[v] = NoToken /\ outcome[v] = "none" /\ arg'[v] # NoToken
      BY <1>1, <1>3, TypeStep, ConstantsAssumption DEF Ordered
    <2>2. PICK r \in Req, m \in {"refresh", "revoke"}, t \in known \cup {NoToken} :
             BeginPresent(r, m, t)
      BY <2>1, <1>1 DEF Next, Arrive, Step, BeginIssue, RejectEmpty, Prepare,
         CreateSession, ReadToken, CheckExpiry, RevokeOnReplay, RevokeFamily, MarkUsed,
         LoadAndSign, CreateRefreshToken, Reply, Crash, Tick, Rest, vars
    <2>3. r = v
      BY <1>1, <2>1, <2>2 DEF BeginPresent
    <2>4. t = arg'[v] /\ pc'[v] = "read" /\ outcome'[v] = "none" /\ UNCHANGED <<rows, token>>
      BY <1>1, <2>1, <2>2, <2>3 DEF BeginPresent, Goto
    <2> QED
      BY <1>1, <1>3, <2>2, <2>3, <2>4 DEF FamilyRows
  <1> QED
    BY <1>2, <1>3

\* A request that becomes a rotation of a family finds a row that is not revoked
\* (auth_service.go:206).
LEMMA PendingNew ==
  ASSUME IInv, Ordered, Ordered', [Next]_vars, NEW f \in Req, NEW p \in Pending(f)',
         p \notin Pending(f)
  PROVE  ~(FamilyRows(f) \subseteq revoked)
  <1> USE DEF IInv, TypeOK
  <1>1. /\ p \in Presenters(f)' /\ p \in Req /\ op'[p] = "refresh"
        /\ pc'[p] \in {"expiry", "mark", "load", "insert"}
    BY DEF Pending, Presenters
  <1>2. p \in Presenters(f)
    BY <1>1, PresentersNew
  <1>3. op[p] = "refresh" /\ pc[p] \notin {"expiry", "mark", "load", "insert"}
    BY <1>1, <1>2, PresentersStay DEF Pending
  <1>4. ReadToken(p)
    BY <1>1, <1>3 DEF Next, Arrive, Step, BeginIssue, BeginPresent, RejectEmpty, Prepare,
       CreateSession, ReadToken, CheckExpiry, RevokeOnReplay, RevokeFamily, MarkUsed,
       LoadAndSign, CreateRefreshToken, Reply, Crash, Tick, Rest, vars, Goto, Finish,
       Abort, Return, InFlight, Staged
  <1>5. arg[p] \notin revoked
    BY <1>1, <1>3, <1>4 DEF ReadToken, Replayed, NotFound, Goto, Finish, Abort, Return
  <1> QED
    BY <1>2, <1>5, PresentedFamily

\* What is contained stays contained: only what was pending can add a row.
LEMMA ContainedStays ==
  ASSUME IInv, Ordered, Ordered', [Next]_vars, NEW f \in Req, NEW v \in Presenters(f),
         Contained(f, v)
  PROVE  Contained(f, v)'
  <1> USE DEF IInv, TypeOK
  <1>1. /\ v \in Req /\ pc[v] # "idle" /\ f \in rows
        /\ FamilyRows(f) \subseteq FamilyRows(f)'
    BY PresentersStay, PresentedFamily
  <1>2. CASE Straddled(f, v)
    <2>1. PICK u \in FamilyRows(f) : op[u] = "refresh" /\ ~Apart(u, v)
      BY <1>2 DEF Straddled
    <2>2. u \in Req /\ u \in rows /\ pc[u] # "idle"
      BY <2>1 DEF FamilyRows, RowsLast
    <2>3. ~Apart(u, v)' /\ op'[u] = "refresh"
      BY <1>1, <2>1, <2>2, ApartFixed, RowsFixed
    <2> QED
      BY <1>1, <2>1, <2>3 DEF Contained, Straddled
  <1>3. CASE FamilyRows(f) \subseteq revoked /\ \A p \in Pending(f) : ~Apart(p, v)
    <2>1. ASSUME NEW t \in FamilyRows(f)', t \notin FamilyRows(f)
          PROVE  Straddled(f, v)'
      <3>1. t \in rows' /\ token'[t].family = f
        BY DEF FamilyRows
      <3>2. t \notin rows
        BY <2>1, <3>1, RowsFixed DEF FamilyRows
      <3>3. op[t] = "refresh" /\ t \in Pending(f) /\ t \in Req
        BY <1>1, <3>1, <3>2, NewRow
      <3>4. t \in Presenters(f) /\ ~Apart(t, v)
        BY <1>3, <3>3 DEF Pending
      <3>5. op'[t] = "refresh" /\ ~Apart(t, v)'
        BY <1>1, <3>3, <3>4, PresentersStay, ApartFixed
      <3> QED
        BY <2>1, <3>5 DEF Straddled
    <2>2. CASE FamilyRows(f)' \subseteq FamilyRows(f)
      <3>1. FamilyRows(f)' \subseteq revoked'
        BY <1>3, <2>2, RowsFixed
      <3>2. ASSUME NEW p \in Pending(f)' PROVE ~Apart(p, v)'
        <4>1. p \in Pending(f)
          BY <1>3, PendingNew
        <4>2. p \in Req /\ pc[p] # "idle" /\ ~Apart(p, v)
          BY <1>3, <4>1 DEF Pending, Presenters
        <4> QED
          BY <1>1, <4>2, ApartFixed
      <3> QED
        BY <3>1, <3>2 DEF Contained
    <2> QED
      BY <2>1, <2>2 DEF Contained
  <1> QED
    BY <1>2, <1>3 DEF Contained

\* An UPDATE of the whole family contains it: who could escape it is in flight
\* (refresh_token_repo.go:52-56).
LEMMA RevokeContains ==
  ASSUME IInv, Ordered, [Next]_vars, NEW f \in Req, NEW v \in Presenters(f),
         RevokeOnReplay(v) \/ RevokeFamily(v), revoked' = revoked \cup FamilyOf(arg[v])
  PROVE  Contained(f, v)'
  <1> USE DEF IInv, TypeOK
  <1>1. /\ v \in Req /\ pc[v] \in {"replay", "revoke"}
        /\ UNCHANGED <<rows, token, op, arg, before>>
        /\ \A p \in Req : p # v => pc'[p] = pc[p]
        /\ pc'[v] = "done"
    BY DEF RevokeOnReplay, RevokeFamily, Finish, Abort, Return, Presenters
  <1>2. FamilyRows(f)' \subseteq revoked'
    BY <1>1 DEF FamilyRows, FamilyOf, Presenters
  <1>3. ASSUME NEW p \in Pending(f)' PROVE ~Apart(p, v)'
    <2>1. p \in Req /\ p # v /\ pc[p] # "done"
      BY <1>1 DEF Pending, Presenters
    <2>2. ~Apart(p, v)
      BY <1>1, <2>1, InFlightOverlap
    <2> QED
      BY <1>1, <2>2 DEF Apart
  <1> QED
    BY <1>2, <1>3 DEF Contained

\* A step that revokes a row is the UPDATE of a request that presents a token of that
\* row's family.
LEMMA RevokedBy ==
  ASSUME IInv, [Next]_vars, NEW s \in revoked', s \notin revoked
  PROVE  \E v \in Presenters(token[s].family) :
            /\ RevokeOnReplay(v) \/ RevokeFamily(v)
            /\ revoked' = revoked \cup FamilyOf(arg[v]) /\ s \in rows
            /\ UNCHANGED <<rows, token, used>>
  <1> USE DEF IInv, TypeOK
  <1>1. PICK v \in Req : RevokeOnReplay(v) \/ RevokeFamily(v)
    BY DEF Next, Arrive, Step, BeginIssue, BeginPresent, RejectEmpty, Prepare,
       CreateSession, ReadToken, CheckExpiry, RevokeOnReplay, RevokeFamily, MarkUsed,
       LoadAndSign, CreateRefreshToken, Reply, Crash, Tick, Rest, vars
  <1>2. /\ arg[v] \in rows /\ revoked' = revoked \cup FamilyOf(arg[v])
        /\ UNCHANGED <<rows, token, used>>
    BY <1>1 DEF RevokeOnReplay, RevokeFamily, Staged
  <1>3. s \in rows /\ token[s].family = token[arg[v]].family
    BY <1>2 DEF FamilyOf
  <1> QED
    BY <1>1, <1>2, <1>3 DEF Presenters, FamilyRows

\* Every revocation is contained when it happens and stays so
\* (auth_service.go:206-209, :249, :271).
LEMMA ContainedStep ==
  ASSUME IInv, Ordered, Ordered', RevokedContained, [Next]_vars
  PROVE  RevokedContained'
  <1> USE DEF IInv, TypeOK
  <1>1. ASSUME NEW f \in Req, (FamilyRows(f) \cap revoked)' # {}
        PROVE  \E v \in (Revokers \cap Presenters(f))' : pc'[v] = "done" /\ Contained(f, v)'
    <2>1. CASE FamilyRows(f) \cap revoked # {}
      <3>1. PICK v \in Revokers \cap Presenters(f) : pc[v] = "done" /\ Contained(f, v)
        BY <2>1 DEF RevokedContained
      <3>2. v \in Req
        BY <3>1 DEF Presenters
      <3>3. /\ v \in Presenters(f)' /\ op'[v] = op[v] /\ Contained(f, v)'
            /\ pc'[v] = "done" /\ outcome'[v] = outcome[v]
        BY <3>1, <3>2, PresentersStay, ContainedStays, Begun
      <3> QED
        BY <3>1, <3>2, <3>3 DEF Revokers
    <2>2. CASE FamilyRows(f) \cap revoked = {}
      <3>1. PICK s \in revoked' : s \in rows' /\ token'[s].family = f
        BY <1>1 DEF FamilyRows
      <3>2. s \notin revoked
        BY <2>2, <3>1, RowsFixed DEF FamilyRows
      <3>3. s \in rows /\ token'[s] = token[s]
        BY <3>2, RevokedBy, RowsFixed
      <3>4. PICK v \in Presenters(f) : /\ RevokeOnReplay(v) \/ RevokeFamily(v)
                                       /\ revoked' = revoked \cup FamilyOf(arg[v])
        BY <3>1, <3>2, <3>3, RevokedBy
      <3>5. v \in Req /\ v \in Presenters(f)' /\ Contained(f, v)' /\ op'[v] = op[v]
        BY <3>4, RevokeContains, PresentersStay, PresentedFamily
      <3>6. pc'[v] = "done" /\ (op[v] = "revoke" \/ outcome'[v] = "replay")
        BY <3>4, <3>5 DEF RevokeOnReplay, RevokeFamily, Finish, Abort, Return, Staged
      <3> QED
        BY <3>5, <3>6 DEF Revokers
    <2> QED
      BY <2>1, <2>2
  <1>2. ASSUME faults' = 0, NEW f \in Req, NEW v \in Presenters(f)', outcome'[v] = "replay"
        PROVE  Contained(f, v)'
    <2>1. v \in Presenters(f)
      BY <1>2, PresentersNew
    <2>2. faults = 0 /\ v \in Req
      BY <1>2, <2>1 DEF Next, Arrive, Step, BeginIssue, BeginPresent, RejectEmpty, Prepare,
         CreateSession, ReadToken, CheckExpiry, RevokeOnReplay, RevokeFamily, MarkUsed,
         LoadAndSign, CreateRefreshToken, Reply, Crash, Tick, Rest, vars, Goto, Finish,
         Abort, Fault, Presenters
    <2>3. CASE outcome[v] = "replay"
      BY <2>1, <2>2, <2>3, ContainedStays DEF RevokedContained
    <2>4. CASE outcome[v] # "replay"
      <3>1. RevokeOnReplay(v) /\ revoked' = revoked \cup FamilyOf(arg[v])
        BY <1>2, <2>2, <2>4 DEF Next, Arrive, Step, BeginIssue, BeginPresent, RejectEmpty,
           Prepare, CreateSession, ReadToken, NotFound, CheckExpiry, RevokeOnReplay,
           RevokeFamily, MarkUsed, LoadAndSign, CreateRefreshToken, Reply, Crash, Tick,
           Rest, vars, Goto, Finish, Return, Abort, Fault
      <3> QED
        BY <2>1, <3>1, RevokeContains
    <2> QED
      BY <2>3, <2>4
  <1> QED
    BY <1>1, <1>2 DEF RevokedContained

\* Every reachable state: revocations are contained.
LEMMA ContainedInductive ==
  Spec => [](IInv /\ Ordered /\ LateFindsUsed /\ RevokedContained)
  <1>1. Init => RevokedContained
    BY DEF Init, RevokedContained, FamilyRows, Presenters
  <1>2. IInv /\ Ordered /\ Ordered' /\ RevokedContained /\ [Next]_vars => RevokedContained'
    BY ContainedStep
  <1> QED
    BY <1>1, <1>2, OrderInductive, PTL DEF Spec

\* What has not escaped is revoked.
LEMMA WholeFamilyInv == RevokedContained => FamilyAllOrNothing
  BY DEF RevokedContained, Contained, FamilyAllOrNothing

\* A revocation takes every row of a family but what goes back to a rotation that
\* overlapped it (architecture.md:171; auth_service.go:249).
THEOREM WholeFamily == Spec => []FamilyAllOrNothing
  BY WholeFamilyInv, ContainedInductive, PTL

\* Unless its UPDATE failed, a request that was refused as a replay has left its
\* family revoked for good, or a rotation overlapped it (auth_service.go:206-209).
THEOREM ReplayRevokes == Spec => []OnlyOverlapEscapesReplay
  <1>1. RevokedContained => OnlyOverlapEscapesReplay
    BY DEF RevokedContained, Contained, OnlyOverlapEscapesReplay
  <1> QED
    BY <1>1, ContainedInductive, PTL

-----------------------------------------------------------------------------
(* A login that nobody revoked can be continued, and by one token unless refreshes *)
(* of one token overlapped.                                                        *)

\* The unspent token of a login is with its client, on its way to it, or being made.
Alive ==
    faults = 0 => \A f \in rows : op[f] = "issue" /\ f \notin revoked =>
        \/ \E t \in rows : /\ token[t].family = f /\ t \notin used
                           /\ t \in known \/ pc[t] = "reply"
        \/ \E r \in Req : /\ op[r] = "refresh" /\ pc[r] \in {"load", "insert"}
                          /\ arg[r] \in rows /\ token[arg[r]].family = f

\* Every statement of a rotation hands the login on to the next one
\* (auth_service.go:215-258).
LEMMA AliveStep ==
  ASSUME IInv, Alive, [Next]_vars
  PROVE  Alive'
  <1> USE ConstantsAssumption
      DEF IInv, TypeOK, Staged, RowsLast, Alive
  <1>1. ASSUME NEW r \in Req, BeginIssue(r) PROVE Alive'
    BY <1>1 DEF BeginIssue, Goto
  <1>2. ASSUME NEW r \in Req, NEW m \in {"refresh", "revoke"},
               NEW s \in known \cup {NoToken}, BeginPresent(r, m, s)
        PROVE  Alive'
    BY <1>2 DEF BeginPresent, Goto
  <1>3. ASSUME NEW r \in Req, RejectEmpty(r) PROVE Alive'
    BY <1>3 DEF RejectEmpty, Finish, Abort, Return, Fault
  <1>4. ASSUME NEW r \in Req, Prepare(r) PROVE Alive'
    BY <1>4 DEF Prepare, Goto, Finish, Abort, Return, Fault
  <1>5. ASSUME NEW r \in Req, CreateSession(r) PROVE Alive'
    BY <1>5 DEF CreateSession, Goto, Finish, Abort, Return, Fault
  <1>6. ASSUME NEW r \in Req, ReadToken(r) PROVE Alive'
    BY <1>6 DEF ReadToken, NotFound, Goto, Finish, Abort, Return, Fault
  <1>7. ASSUME NEW r \in Req, CheckExpiry(r) PROVE Alive'
    BY <1>7 DEF CheckExpiry, Goto, Finish, Abort, Return, Fault
  <1>8. ASSUME NEW r \in Req, RevokeOnReplay(r) PROVE Alive'
    BY <1>8 DEF RevokeOnReplay, Finish, Abort, Return, Fault, FamilyOf
  <1>9. ASSUME NEW r \in Req, RevokeFamily(r) PROVE Alive'
    BY <1>9 DEF RevokeFamily, Finish, Abort, Return, Fault, FamilyOf
  <1>10. ASSUME NEW r \in Req, MarkUsed(r) PROVE Alive'
    BY <1>10 DEF MarkUsed, Goto, Finish, Abort, Return, Fault
  <1>11. ASSUME NEW r \in Req, LoadAndSign(r) PROVE Alive'
    BY <1>11 DEF LoadAndSign, Goto, Finish, Abort, Return, Fault
  <1>12. ASSUME NEW r \in Req, CreateRefreshToken(r) PROVE Alive'
    BY <1>12 DEF CreateRefreshToken, Goto, Finish, Abort, Return, Fault, DraftLineage, SpentBeforeDraft
  <1>13. ASSUME NEW r \in Req, Reply(r) PROVE Alive'
    BY <1>13 DEF Reply, Goto, Finish, Abort, Return, Fault
  <1>14. CASE Crash
    BY <1>14 DEF Crash, InFlight, Fault
  <1>15. CASE Tick
    BY <1>15 DEF Tick
  <1>16. CASE Rest \/ UNCHANGED vars
    BY <1>16 DEF Rest, vars
  <1> QED
    BY <1>1, <1>2, <1>3, <1>4, <1>5, <1>6, <1>7, <1>8, <1>9, <1>10, <1>11, <1>12,
       <1>13, <1>14, <1>15, <1>16 DEF Next, Arrive, Step

\* The ends of a family's chains: rows without a successor.
Tip(t) == \A u \in rows : op[u] = "refresh" => arg[u] # t

\* A family has one end, or it was forked.
OneTip ==
    \A f \in Req : Forked(f) \/ \A s, t \in FamilyRows(f) : Tip(s) /\ Tip(t) => s = t

\* A fork remains.
LEMMA ForkedStays ==
  ASSUME IInv, Ordered, [Next]_vars, NEW f \in Req, Forked(f)
  PROVE  Forked(f)'
  <1>1. PICK u \in rows, w \in rows :
           /\ token[u].family = f /\ op[u] = "refresh" /\ op[w] = "refresh"
           /\ arg[u] = arg[w] /\ u # w /\ ~Apart(u, w)
    BY DEF Forked
  <1>2. u \in Req /\ w \in Req /\ pc[u] # "idle" /\ pc[w] # "idle"
    BY DEF IInv, TypeOK, RowsLast
  <1>3. ~Apart(u, w)'
    BY <1>1, <1>2, ApartFixed
  <1>4. /\ u \in rows' /\ w \in rows' /\ token'[u] = token[u]
        /\ op'[u] = op[u] /\ op'[w] = op[w] /\ arg'[u] = arg[u] /\ arg'[w] = arg[w]
    BY RowsFixed
  <1> QED
    BY <1>1, <1>3, <1>4 DEF Forked

\* The INSERT of a rotation moves the end of the chain, or it is the second successor of
\* its token (auth_service.go:249).
LEMMA TipStep ==
  ASSUME IInv, Ordered, AtMostOneSuccessor', OneTip, [Next]_vars
  PROVE  OneTip'
  <1> USE DEF IInv, TypeOK
  <1>0. SUFFICES ASSUME NEW f \in Req, ~Forked(f)'
                 PROVE  \A s, t \in FamilyRows(f)' : Tip(s)' /\ Tip(t)' => s = t
    BY DEF OneTip
  <1>1. \A s, t \in FamilyRows(f) : Tip(s) /\ Tip(t) => s = t
    BY <1>0, ForkedStays DEF OneTip
  <1>2. CASE rows' = rows
    <2>1. FamilyRows(f)' = FamilyRows(f)
      BY <1>2, RowsFixed DEF FamilyRows
    <2>2. ASSUME NEW s \in FamilyRows(f), Tip(s)' PROVE Tip(s)
      BY <1>2, <2>2, RowsFixed DEF Tip
    <2> QED
      BY <1>1, <2>1, <2>2
  <1>3. ASSUME NEW r \in rows', r \notin rows
        PROVE  \A s, t \in FamilyRows(f)' : Tip(s)' /\ Tip(t)' => s = t
    <2>1. /\ rows' = rows \cup {r} /\ r \in Req /\ token' = token /\ pc[r] = "insert"
          /\ \/ op[r] = "issue" /\ token[r].family = r
             \/ op[r] = "refresh" /\ r \in Pending(token[r].family)
      BY <1>3, NewRow
    <2>2. op'[r] = op[r] /\ arg'[r] = arg[r]
      BY <2>1, Begun
    <2>3. \A s \in rows : Tip(s)' => Tip(s)
      BY <2>1, RowsFixed DEF Tip
    <2>4. CASE token[r].family # f
      <3>1. FamilyRows(f)' = FamilyRows(f)
        BY <2>1, <2>4 DEF FamilyRows
      <3> QED
        BY <1>1, <2>3, <3>1 DEF FamilyRows
    <2>5. CASE token[r].family = f /\ op[r] = "issue"
      <3>1. FamilyRows(f)' = {r}
        BY <1>3, <2>1, <2>5 DEF FamilyRows, DraftLineage
      <3> QED
        BY <3>1
    <2>6. CASE token[r].family = f /\ op[r] = "refresh"
      <3>1. arg[r] \in FamilyRows(f) /\ ~Tip(arg[r])'
        BY <2>1, <2>2, <2>6 DEF Pending, Presenters, Tip
      <3>2. Tip(arg[r])
        <4> SUFFICES ASSUME NEW u \in rows, op[u] = "refresh", arg[u] = arg[r]
                     PROVE  FALSE
          BY DEF Tip
        <4>1. u \in rows' /\ u # r /\ op'[u] = "refresh" /\ arg'[u] = arg'[r]
          BY <1>3, <2>1, <2>2, RowsFixed
        <4>2. ~Apart(u, r)'
          BY <1>3, <2>2, <2>6, <4>1 DEF AtMostOneSuccessor
        <4>3. token'[u].family = f
          BY <2>1, <3>1 DEF DraftLineage, FamilyRows
        <4> QED
          BY <1>0, <1>3, <2>2, <2>6, <4>1, <4>2, <4>3 DEF Forked
      <3>3. \A s \in FamilyRows(f)' : Tip(s)' => s = r
        <4> SUFFICES ASSUME NEW s \in FamilyRows(f)', Tip(s)', s # r PROVE FALSE
          OBVIOUS
        <4>1. s \in FamilyRows(f) /\ s \in rows
          BY <2>1 DEF FamilyRows
        <4>2. s = arg[r]
          BY <1>1, <2>3, <3>1, <3>2, <4>1
        <4> QED
          BY <1>3, <2>2, <2>6, <4>2 DEF Tip
      <3> QED
        BY <3>3
    <2> QED
      BY <2>1, <2>4, <2>5, <2>6
  <1> QED
    BY <1>2, <1>3, RowsFixed

\* Every reachable state: one end per family, and a live login is with its client or
\* in a handler.
LEMMA TipInductive ==
  Spec => [](IInv /\ Ordered /\ LateFindsUsed /\ RevokedContained /\ OneTip /\ Alive)
  <1>1. Init => OneTip /\ Alive
    BY DEF Init, OneTip, FamilyRows, Alive
  <1>2. IInv /\ Ordered /\ OneTip /\ Alive /\ AtMostOneSuccessor' /\ [Next]_vars
          => OneTip' /\ Alive'
    BY TipStep, AliveStep
  <1> QED
    BY <1>1, <1>2, OneSuccessor, ContainedInductive, PTL DEF Spec

\* An unspent row is an end of its chain (auth_service.go:215 before :249).
LEMMA UnspentIsTip ==
  ASSUME IInv, NEW t \in rows, t \notin used
  PROVE  Tip(t)
  BY DEF Tip, IInv, TypeOK, SpentBeforeDraft

\* A login that nobody revoked is lost only in a failure and forked only in a race
\* (auth_service.go:201-258).
THEOREM LiveToken == Spec => []OneLiveToken
  <1>1. IInv /\ OneTip /\ Alive => OneLiveToken
    <2> SUFFICES ASSUME IInv, OneTip, Alive, InFlight = {},
                        NEW f \in rows \ revoked, op[f] = "issue"
                 PROVE  LET unspent == {s \in rows : token[s].family = f /\ s \notin used}
                        IN  /\ faults = 0 => unspent \cap known # {}
                            /\ ~Forked(f) => \A s, t \in unspent : s = t
      BY DEF OneLiveToken
    <2> DEFINE unspent == {s \in rows : token[s].family = f /\ s \notin used}
    <2>1. \A r \in Req : pc[r] \in {"idle", "done"}
      BY DEF InFlight
    <2>2. ASSUME faults = 0 PROVE unspent \cap known # {}
      <3>1. PICK t \in rows : token[t].family = f /\ t \notin used /\ t \in known
        BY <2>1, <2>2 DEF Alive, IInv, TypeOK
      <3> QED
        BY <3>1
    <2>3. ASSUME ~Forked(f) PROVE \A s, t \in unspent : s = t
      <3>1. f \in Req
        BY DEF IInv, TypeOK
      <3>2. \A s \in unspent : s \in FamilyRows(f) /\ Tip(s)
        BY UnspentIsTip DEF FamilyRows
      <3> QED
        BY <2>3, <3>1, <3>2 DEF OneTip
    <2> QED
      BY <2>2, <2>3
  <1> QED
    BY <1>1, TipInductive, PTL

-----------------------------------------------------------------------------
(***************************************************************************)
(* The two tables implement TokenFamily.  As long as a family is not       *)
(* contended its requests come one after the other, so what one of them    *)
(* has read is still so when it writes.  MarkRefreshTokenUsed spends the   *)
(* current token, CreateRefreshToken opens a family, renews it or adds to  *)
(* a contended one, RevokeRefreshTokenFamily closes it, the arrival of a   *)
(* request may contend it, and every other step leaves it as it was.       *)
(***************************************************************************)

\* What a rotation has read is still true when it acts on it.
ReadStillHolds ==
    \A f \in Req : ~Contended(f) => \A r \in Pending(f) :
        /\ pc[r] \in {"expiry", "mark"} => arg[r] \notin used \cup revoked
        /\ pc[r] \in {"load", "insert"} =>
              FamilyRows(f) \cap revoked = {} /\ FamilyRows(f) \subseteq used

RefInv ==
    IInv /\ Ordered /\ LateFindsUsed /\ RevokedContained /\ OneTip /\ ReadStillHolds

\* Two overlapping requests contend a family.
LEMMA ContendedBy ==
  ASSUME NEW f \in Req, NEW q \in Presenters(f), NEW r \in Presenters(f), q # r,
         op[q] = "refresh", ~Apart(q, r)
  PROVE  Contended(f)
  BY DEF Contended

\* A contended family stays contended.
LEMMA ContendedStays ==
  ASSUME IInv, Ordered, [Next]_vars, NEW f \in Req, Contended(f)
  PROVE  Contended(f)'
  <1>1. PICK q \in Presenters(f), r \in Presenters(f) :
           q # r /\ op[q] = "refresh" /\ ~Apart(q, r)
    BY DEF Contended
  <1>2. /\ q \in Presenters(f)' /\ r \in Presenters(f)' /\ op'[q] = "refresh"
        /\ pc[q] # "idle" /\ pc[r] # "idle" /\ q \in Req /\ r \in Req
    BY <1>1, PresentersStay, PresentedFamily
  <1>3. ~Apart(q, r)'
    BY <1>1, <1>2, ApartFixed
  <1> QED
    BY <1>1, <1>2, <1>3 DEF Contended

\* Only the arrival of a request contends a family.
LEMMA ContendedSame ==
  ASSUME IInv, Ordered, Ordered', [Next]_vars, NEW f \in Req,
         \A r \in Req, m \in {"refresh", "revoke"} :
            \A t \in FamilyRows(f) : ~BeginPresent(r, m, t)
  PROVE  Contended(f)' <=> Contended(f)
  <1>1. ASSUME Contended(f)' PROVE Contended(f)
    <2>1. PICK q \in Presenters(f)', r \in Presenters(f)' :
             q # r /\ op'[q] = "refresh" /\ ~Apart(q, r)'
      BY <1>1 DEF Contended
    <2>2. q \in Presenters(f) /\ r \in Presenters(f)
      <3>1. ASSUME NEW v \in Presenters(f)', v \notin Presenters(f) PROVE FALSE
        <4>1. v \in Req
          BY DEF Presenters
        <4> QED
          BY <3>1, <4>1, PresentersNew
      <3> QED
        BY <3>1
    <2>3. /\ op[q] = "refresh" /\ pc[q] # "idle" /\ pc[r] # "idle"
          /\ q \in Req /\ r \in Req
      BY <2>1, <2>2, PresentersStay, PresentedFamily
    <2>4. ~Apart(q, r)
      BY <2>1, <2>3, ApartFixed
    <2> QED
      BY <2>1, <2>2, <2>3, <2>4 DEF Contended
  <1> QED
    BY <1>1, ContendedStays

\* While a refresh is under way in a family that is not contended, no other request
\* of the family is.
LEMMA Alone ==
  ASSUME IInv, Ordered, NEW f \in Req, ~Contended(f),
         NEW p \in Presenters(f), op[p] = "refresh", pc[p] # "done",
         NEW r \in Presenters(f), pc[r] # "done"
  PROVE  r = p
  <1>1. p \in Req /\ r \in Req
    BY DEF Presenters
  <1> QED
    BY <1>1, InFlightOverlap, ContendedBy

\* A family that is not contended is revoked as a whole or not at all.
LEMMA WholeOrNot ==
  ASSUME IInv, RevokedContained, Ordered, NEW f \in Req, ~Contended(f)
  PROVE  FamilyRows(f) \cap revoked = {} \/ FamilyRows(f) \subseteq revoked
  <1> SUFFICES ASSUME FamilyRows(f) \cap revoked # {}
               PROVE  FamilyRows(f) \subseteq revoked
    OBVIOUS
  <1>1. PICK v \in Revokers \cap Presenters(f) : pc[v] = "done" /\ Contained(f, v)
    BY DEF RevokedContained
  <1>2. ~Straddled(f, v)
    <2> SUFFICES ASSUME NEW u \in FamilyRows(f), op[u] = "refresh", ~Apart(u, v)
                 PROVE  FALSE
      BY DEF Straddled
    <2>1. u \in rows /\ u \in Req /\ token[u].family = f
      BY DEF FamilyRows, IInv, TypeOK
    <2>2. u \in Presenters(f)
      BY <2>1 DEF Presenters, FamilyRows, IInv, TypeOK, DraftLineage, SpentBeforeDraft
    <2>3. u # v
      BY <1>1, <2>1 DEF Revokers, Ordered
    <2> QED
      BY <1>1, <2>2, <2>3, ContendedBy
  <1> QED
    BY <1>1, <1>2 DEF Contained

\* A family that is not contended has at most one unspent row.
LEMMA OneUnspent ==
  ASSUME IInv, OneTip, NEW f \in Req, ~Contended(f),
         NEW s \in FamilyRows(f) \ used, NEW t \in FamilyRows(f) \ used
  PROVE  s = t
  <1>1. ~Forked(f)
    <2> SUFFICES ASSUME NEW u \in rows, NEW w \in rows,
                        token[u].family = f, op[u] = "refresh", op[w] = "refresh",
                        arg[u] = arg[w], u # w, ~Apart(u, w)
                 PROVE  FALSE
      BY DEF Forked
    <2>1. u \in Presenters(f) /\ w \in Presenters(f)
      BY DEF Presenters, FamilyRows, IInv, TypeOK, DraftLineage, SpentBeforeDraft
    <2> QED
      BY <2>1, ContendedBy
  <1>2. Tip(s) /\ Tip(t)
    BY UnspentIsTip DEF FamilyRows
  <1> QED
    BY <1>1, <1>2 DEF OneTip

\* A rotation starts from a row that it found unspent, and goes on as long as nobody
\* else writes to its family (auth_service.go:201-249).
LEMMA ReadStep ==
  ASSUME IInv, Ordered, Ordered', RevokedContained, OneTip, ReadStillHolds, [Next]_vars
  PROVE  ReadStillHolds'
  <1> USE DEF IInv, TypeOK
  <1> SUFFICES ASSUME NEW f \in Req, ~Contended(f)', NEW r \in Pending(f)'
               PROVE  /\ pc'[r] \in {"expiry", "mark"} => arg'[r] \notin used' \cup revoked'
                      /\ pc'[r] \in {"load", "insert"} =>
                           (FamilyRows(f) \cap revoked)' = {} /\ FamilyRows(f)' \subseteq used'
    BY DEF ReadStillHolds
  <1>1. /\ r \in Req /\ op'[r] = "refresh" /\ pc'[r] \in {"expiry", "mark", "load", "insert"}
        /\ ~Contended(f)
    BY ContendedStays DEF Pending, Presenters
  <1>2. r \in Presenters(f) /\ op[r] = "refresh" /\ arg'[r] = arg[r] /\ f \in rows
    <2>1. r \in Presenters(f)
      BY <1>1, PresentersNew DEF Pending
    <2> QED
      BY <1>1, <2>1, PresentersStay, PresentedFamily
  <1>3. pc[r] # "done" /\ pc[r] # "idle"
    BY <1>1, <1>2, Begun, PresentersStay
  <1>4. \A s \in Presenters(f) : pc[s] # "done" => s = r
    BY <1>1, <1>2, <1>3, Alone
  <1>5. FamilyRows(f)' = FamilyRows(f)
    <2> SUFFICES ASSUME NEW t \in rows', t \notin rows, token'[t].family = f PROVE FALSE
      BY RowsFixed DEF FamilyRows
    <2>1. /\ CreateRefreshToken(t) /\ token' = token /\ pc[t] = "insert" /\ t \in Req
          /\ t = f \/ t \in Pending(f)
      BY NewRow
    <2>2. t = r
      BY <1>2, <1>4, <2>1 DEF Pending
    <2> QED
      BY <1>1, <2>1, <2>2 DEF CreateRefreshToken, Goto, Abort, Return
  <1>6. FamilyRows(f) \cap revoked' \subseteq revoked
    <2> SUFFICES ASSUME NEW s \in revoked', s \notin revoked, s \in FamilyRows(f)
                 PROVE  FALSE
      OBVIOUS
    <2>1. PICK v \in Presenters(f) : RevokeOnReplay(v) \/ RevokeFamily(v)
      BY RevokedBy DEF FamilyRows
    <2>2. v = r
      BY <1>4, <2>1 DEF RevokeOnReplay, RevokeFamily
    <2> QED
      BY <1>1, <2>1, <2>2 DEF RevokeOnReplay, RevokeFamily, Finish, Abort, Return
  <1>7. ASSUME arg[r] \in used', arg[r] \notin used PROVE MarkUsed(r)
    <2>1. PICK s \in Req : MarkUsed(s) /\ used' = used \cup {arg[s]}
      BY <1>7 DEF Next, Arrive, Step, BeginIssue, BeginPresent, RejectEmpty, Prepare,
         CreateSession, ReadToken, CheckExpiry, RevokeOnReplay, RevokeFamily, MarkUsed,
         LoadAndSign, CreateRefreshToken, Reply, Crash, Tick, Rest, vars
    <2>2. s \in Presenters(f) /\ pc[s] = "mark"
      BY <1>2, <1>7, <2>1 DEF MarkUsed, Presenters
    <2> QED
      BY <1>4, <2>1, <2>2
  <1>8. arg[r] \in FamilyRows(f) /\ used \subseteq used'
    BY <1>2, PresentedFamily, RowsFixed
  <1>9. CASE pc'[r] = pc[r]
    <2>1. r \in Pending(f)
      BY <1>1, <1>2, <1>9 DEF Pending
    <2>2. /\ pc[r] \in {"expiry", "mark"} => arg[r] \notin used \cup revoked
          /\ pc[r] \in {"load", "insert"} =>
               FamilyRows(f) \cap revoked = {} /\ FamilyRows(f) \subseteq used
      BY <1>1, <2>1 DEF ReadStillHolds
    <2>3. ~MarkUsed(r)
      BY <1>1, <1>9 DEF MarkUsed, Goto, Abort, Return
    <2> QED
      BY <1>2, <1>5, <1>6, <1>7, <1>8, <1>9, <2>2, <2>3
  <1>10. CASE pc'[r] # pc[r]
    <2>0. \A s \in Req : Arrive(s) => pc'[s] = pc[s] \/ pc[s] = "idle"
      BY DEF Arrive, BeginIssue, BeginPresent, RejectEmpty
    <2>1. Step(r)
      BY <1>1, <1>3, <1>10, <2>0, OwnStep DEF Next, Crash, Tick, Rest, vars, InFlight
    <2>2. CASE ReadToken(r)
      BY <1>1, <1>2, <1>8, <2>2 DEF ReadToken, Replayed, NotFound, Goto, Finish, Abort, Return
    <2>3. CASE CheckExpiry(r)
      <3>1. pc[r] = "expiry" /\ pc'[r] = "mark" /\ UNCHANGED <<used, revoked>>
        BY <1>1, <2>3 DEF CheckExpiry, Goto, Finish, Return
      <3>2. arg[r] \notin used \cup revoked
        BY <1>1, <1>2, <3>1 DEF ReadStillHolds, Pending
      <3> QED
        BY <1>2, <3>1, <3>2
    <2>4. CASE MarkUsed(r)
      <3>1. /\ pc[r] = "mark" /\ pc'[r] = "load" /\ used' = used \cup {arg[r]}
            /\ UNCHANGED revoked
        BY <1>1, <2>4 DEF MarkUsed, Goto, Abort, Return
      <3>2. arg[r] \notin used \cup revoked
        BY <1>1, <1>2, <3>1 DEF ReadStillHolds, Pending
      <3>3. FamilyRows(f) \cap revoked = {}
        BY <1>1, <1>8, <3>2, WholeOrNot
      <3>4. FamilyRows(f) \subseteq used'
        BY <1>1, <1>8, <3>1, <3>2, OneUnspent
      <3> QED
        BY <1>5, <3>1, <3>3, <3>4
    <2>5. CASE LoadAndSign(r)
      <3>1. pc[r] = "load" /\ pc'[r] = "insert" /\ UNCHANGED <<used, revoked>>
        BY <1>1, <2>5 DEF LoadAndSign, Goto, Abort, Return
      <3>2. FamilyRows(f) \cap revoked = {} /\ FamilyRows(f) \subseteq used
        BY <1>1, <1>2, <3>1 DEF ReadStillHolds, Pending
      <3> QED
        BY <1>5, <3>1, <3>2
    <2>6. CASE Prepare(r) \/ CreateSession(r)
      BY <1>1, <1>2, <2>6 DEF Prepare, CreateSession, Staged
    <2>7. CASE \/ RevokeOnReplay(r) \/ RevokeFamily(r) \/ CreateRefreshToken(r) \/ Reply(r)
      BY <1>1, <2>7 DEF RevokeOnReplay, RevokeFamily, CreateRefreshToken, Reply, Goto,
         Finish, Abort, Return
    <2> QED
      BY <2>1, <2>2, <2>3, <2>4, <2>5, <2>6, <2>7 DEF Step
  <1> QED
    BY <1>9, <1>10

\* Every reachable state: what a rotation has read still holds in a family that is not
\* contended.
LEMMA RefInductive == Spec => []RefInv
  <1>1. Init => ReadStillHolds
    BY DEF Init, ReadStillHolds, Pending, Presenters, FamilyRows
  <1>2. /\ IInv /\ Ordered /\ Ordered' /\ RevokedContained /\ OneTip /\ ReadStillHolds
        /\ [Next]_vars
        => ReadStillHolds'
    BY ReadStep
  <1>3. /\ IInv /\ Ordered /\ LateFindsUsed /\ RevokedContained /\ OneTip /\ ReadStillHolds
        => RefInv
    BY DEF RefInv
  <1> QED
    BY <1>1, <1>2, <1>3, TipInductive, PTL DEF Spec

\* The abstract state of a family depends on its rows, their flags and on whether it is
\* contended only.
LEMMA SameFamily ==
  ASSUME NEW f \in Req, FamilyRows(f)' = FamilyRows(f),
         FamilyUnused(f)' = FamilyUnused(f),
         (FamilyRows(f) \cap revoked)' = FamilyRows(f) \cap revoked,
         Contended(f)' <=> Contended(f)
  PROVE  FamilyStatus(f)' = FamilyStatus(f) /\ FamilyCurrent(f)' = FamilyCurrent(f)
  <1>1. FamilyStatus(f)' = FamilyStatus(f)
    BY DEF FamilyStatus
  <1> QED
    BY <1>1 DEF FamilyCurrent

\* A contended family has no current token.
LEMMA ContendedStatus ==
  ASSUME IInv, NEW f \in Req, Contended(f)
  PROVE  FamilyStatus(f) = "contended" /\ FamilyCurrent(f) = NoToken
  <1>1. FamilyRows(f) # {}
    BY DEF Contended, Presenters
  <1>2. FamilyStatus(f) = "contended"
    BY <1>1 DEF FamilyStatus
  <1> QED
    BY <1>2 DEF FamilyCurrent

\* The current token of a live family is its only unspent one.
LEMMA CurrentIs ==
  ASSUME NEW f \in Req, NEW t, FamilyUnused(f) = {t}, FamilyRows(f) \cap revoked = {},
         ~Contended(f)
  PROVE  FamilyStatus(f) = "live" /\ FamilyCurrent(f) = t
  <1>1. FamilyRows(f) # {}
    BY DEF FamilyUnused
  <1>2. FamilyStatus(f) = "live"
    BY <1>1 DEF FamilyStatus
  <1>3. (CHOOSE u \in {t} : TRUE) = t
    OBVIOUS
  <1> QED
    BY <1>2, <1>3 DEF FamilyCurrent

\* A step that writes only to rows of one family g and is no arrival leaves the state of
\* every other family as it was, and contends none.
LEMMA OneFamily ==
  ASSUME IInv, Ordered, Ordered', [Next]_vars, NEW g \in Req,
         \A t \in rows' \ rows : token'[t].family = g,
         \A t \in (used' \ used) \cup (revoked' \ revoked) :
            t \in rows /\ token[t].family = g,
         \A r \in Req, m \in {"refresh", "revoke"} :
            \A t \in rows : token[t].family # g => ~BeginPresent(r, m, t)
  PROVE  /\ [f \in Req |-> FamilyStatus(f)']
              = [[f \in Req |-> FamilyStatus(f)] EXCEPT ![g] = FamilyStatus(g)']
         /\ [f \in Req |-> FamilyCurrent(f)']
              = [[f \in Req |-> FamilyCurrent(f)] EXCEPT ![g] = FamilyCurrent(g)']
  <1>1. ASSUME NEW f \in Req, f # g
        PROVE  FamilyStatus(f)' = FamilyStatus(f) /\ FamilyCurrent(f)' = FamilyCurrent(f)
    <2>1. FamilyRows(f)' = FamilyRows(f)
      BY <1>1, RowsFixed DEF FamilyRows
    <2>2. FamilyUnused(f)' = FamilyUnused(f)
      BY <1>1, <2>1, RowsFixed DEF FamilyUnused, FamilyRows
    <2>3. (FamilyRows(f) \cap revoked)' = FamilyRows(f) \cap revoked
      BY <1>1, <2>1, RowsFixed DEF FamilyRows
    <2>4. \A r \in Req, m \in {"refresh", "revoke"} :
             \A t \in FamilyRows(f) : ~BeginPresent(r, m, t)
      BY <1>1 DEF FamilyRows
    <2>5. Contended(f)' <=> Contended(f)
      BY <2>4, ContendedSame
    <2> QED
      BY <2>1, <2>2, <2>3, <2>5, SameFamily
  <1> QED
    BY <1>1

\* A step that writes neither rows nor flags stutters, unless a request arrives that
\* contends its family.
LEMMA QuietStep ==
  ASSUME RefInv, Ordered', [Next]_vars, UNCHANGED <<rows, used, revoked>>
  PROVE  Family!Next \/ UNCHANGED Family!vars
  <1> USE DEF RefInv
  <1>1. ASSUME NEW f \in Req
        PROVE  /\ FamilyRows(f)' = FamilyRows(f) /\ FamilyUnused(f)' = FamilyUnused(f)
               /\ (FamilyRows(f) \cap revoked)' = FamilyRows(f) \cap revoked
    <2>1. FamilyRows(f)' = FamilyRows(f)
      BY RowsFixed DEF FamilyRows
    <2> QED
      BY <2>1 DEF FamilyUnused
  <1>2. CASE \A f \in Req : Contended(f)' <=> Contended(f)
    BY <1>1, <1>2, SameFamily DEF Family!vars
  <1>3. ASSUME NEW g \in Req, ~(Contended(g)' <=> Contended(g))
        PROVE  Family!Next
    <2>1. Contended(g)' /\ ~Contended(g)
      BY <1>3, ContendedStays
    <2>2. PICK r \in Req, m \in {"refresh", "revoke"} :
             \E t \in FamilyRows(g) : BeginPresent(r, m, t)
      BY <1>3, ContendedSame
    <2>3. PICK t \in FamilyRows(g) : BeginPresent(r, m, t)
      BY <2>2
    <2>4. \A q \in Req, n \in {"refresh", "revoke"} :
             \A s \in rows : token[s].family # g => ~BeginPresent(q, n, s)
      <3> SUFFICES ASSUME NEW q \in Req, NEW n \in {"refresh", "revoke"}, NEW s \in rows,
                          BeginPresent(q, n, s), token[s].family # g
                   PROVE  FALSE
        OBVIOUS
      <3>1. q = r
        <4>1. pc[r] = "idle" /\ pc'[r] = "read" /\ pc' = [pc EXCEPT ![q] = "read"]
          BY <2>3 DEF BeginPresent, Goto, IInv, TypeOK
        <4> QED
          BY <4>1 DEF IInv, TypeOK
      <3>2. arg'[r] = t /\ arg'[q] = s
        BY <2>3 DEF BeginPresent, IInv, TypeOK
      <3> QED
        BY <3>1, <3>2 DEF FamilyRows
    <2>5. /\ [f \in Req |-> FamilyStatus(f)']
              = [[f \in Req |-> FamilyStatus(f)] EXCEPT ![g] = FamilyStatus(g)']
          /\ [f \in Req |-> FamilyCurrent(f)']
              = [[f \in Req |-> FamilyCurrent(f)] EXCEPT ![g] = FamilyCurrent(g)']
      BY <2>4, OneFamily
    <2>6. FamilyStatus(g) \in {"live", "spent", "revoked"}
      BY <2>1, <2>3 DEF FamilyStatus
    <2>7. FamilyStatus(g)' = "contended" /\ FamilyCurrent(g)' = NoToken
      <3>1. FamilyRows(g)' # {}
        BY <1>1, <2>3
      <3>2. FamilyStatus(g)' = "contended"
        BY <2>1, <3>1 DEF FamilyStatus
      <3> QED
        BY <3>2 DEF FamilyCurrent
    <2>8. Family!Contend(g)
      BY <2>5, <2>6, <2>7 DEF Family!Contend
    <2> QED
      BY <2>8 DEF Family!Next
  <1> QED
    BY <1>2, <1>3

\* In a contended family a flag is not seen.
LEMMA ContendedStep ==
  ASSUME IInv, IInv', Ordered, Ordered', [Next]_vars, NEW g \in Req, Contended(g), rows' = rows,
         \A t \in (used' \ used) \cup (revoked' \ revoked) :
            t \in rows /\ token[t].family = g,
         \A r \in Req, m \in {"refresh", "revoke"} :
            \A t \in rows : ~BeginPresent(r, m, t)
  PROVE  UNCHANGED Family!vars
  <1>1. /\ FamilyStatus(g)' = FamilyStatus(g) /\ FamilyCurrent(g)' = FamilyCurrent(g)
    <2>1. Contended(g)'
      BY ContendedStays
    <2>2. FamilyStatus(g)' = "contended" /\ FamilyCurrent(g)' = NoToken
      <3>1. FamilyRows(g)' # {}
        BY <2>1 DEF Contended, Presenters
      <3>2. FamilyStatus(g)' = "contended"
        BY <2>1, <3>1 DEF FamilyStatus
      <3> QED
        BY <3>2 DEF FamilyCurrent
    <2> QED
      BY <2>2, ContendedStatus
  <1>2. /\ [f \in Req |-> FamilyStatus(f)']
             = [[f \in Req |-> FamilyStatus(f)] EXCEPT ![g] = FamilyStatus(g)']
        /\ [f \in Req |-> FamilyCurrent(f)']
             = [[f \in Req |-> FamilyCurrent(f)] EXCEPT ![g] = FamilyCurrent(g)']
    <2>1. \A t \in rows' \ rows : token'[t].family = g
      OBVIOUS
    <2>2. \A r \in Req, m \in {"refresh", "revoke"} :
             \A t \in rows : token[t].family # g => ~BeginPresent(r, m, t)
      OBVIOUS
    <2> QED
      BY <2>1, <2>2, OneFamily
  <1> QED
    BY <1>1, <1>2 DEF Family!vars

\* UPDATE ... SET used: the family's current token is spent (auth_service.go:215).
LEMMA SpendStep ==
  ASSUME RefInv, IInv', Ordered', [Next]_vars, NEW r \in Req, MarkUsed(r), used' # used
  PROVE  Family!Next \/ UNCHANGED Family!vars
  <1> USE DEF RefInv
  <1>1. /\ op[r] = "refresh" /\ arg[r] \in rows /\ pc[r] = "mark" /\ pc'[r] # "read"
        /\ used' = used \cup {arg[r]} /\ UNCHANGED <<rows, revoked, token, arg, before, op>>
    BY DEF MarkUsed, IInv, TypeOK, Staged, Goto, Abort, Return
  <1>2. PICK g \in Req : g = token[arg[r]].family
    BY <1>1 DEF IInv, TypeOK, DraftLineage
  <1>3. r \in Pending(g)
    BY <1>1, <1>2 DEF Pending, Presenters, FamilyRows
  <1>4. \A q \in Req, m \in {"refresh", "revoke"} : \A t \in rows : ~BeginPresent(q, m, t)
    <2> SUFFICES ASSUME NEW q \in Req, NEW m \in {"refresh", "revoke"}, NEW t \in rows,
                        BeginPresent(q, m, t)
                 PROVE  FALSE
      OBVIOUS
    <2>1. pc[q] = "idle" /\ op' = [op EXCEPT ![q] = m]
      BY DEF BeginPresent
    <2> QED
      BY <1>1, <2>1 DEF IInv, TypeOK, Staged
  <1>5. CASE Contended(g)
    BY <1>1, <1>2, <1>4, <1>5, ContendedStep
  <1>6. CASE ~Contended(g)
    <2>1. arg[r] \notin used \cup revoked /\ arg[r] \in FamilyRows(g)
      BY <1>1, <1>2, <1>3, <1>6 DEF ReadStillHolds, FamilyRows
    <2>2. FamilyRows(g) \cap revoked = {}
      BY <1>6, <2>1, WholeOrNot
    <2>3. FamilyUnused(g) = {arg[r]}
      BY <1>6, <2>1, OneUnspent DEF FamilyUnused
    <2>4. FamilyStatus(g) = "live"
      BY <1>1, <1>6, <2>2, <2>3, CurrentIs
    <2>5. FamilyRows(g)' # {} /\ FamilyUnused(g)' = {} /\ (FamilyRows(g) \cap revoked)' = {}
      BY <1>1, <2>1, <2>2, <2>3 DEF FamilyUnused, FamilyRows
    <2>6. ~Contended(g)'
      BY <1>4, <1>6, ContendedSame DEF FamilyRows
    <2>7. FamilyStatus(g)' = "spent" /\ FamilyCurrent(g)' = NoToken
      BY <2>5, <2>6 DEF FamilyStatus, FamilyCurrent
    <2>8. /\ [f \in Req |-> FamilyStatus(f)']
              = [[f \in Req |-> FamilyStatus(f)] EXCEPT ![g] = FamilyStatus(g)']
          /\ [f \in Req |-> FamilyCurrent(f)']
              = [[f \in Req |-> FamilyCurrent(f)] EXCEPT ![g] = FamilyCurrent(g)']
      <3>1. \A t \in rows' \ rows : token'[t].family = g
        BY <1>1, <1>2, <1>4
      <3>2. \A t \in (used' \ used) \cup (revoked' \ revoked) :
               t \in rows /\ token[t].family = g
        BY <1>1, <1>2, <1>4
      <3>3. \A q \in Req, m \in {"refresh", "revoke"} :
               \A t \in rows : token[t].family # g => ~BeginPresent(q, m, t)
        BY <1>1, <1>2, <1>4
      <3> QED
        BY <3>1, <3>2, <3>3, OneFamily
    <2>9. Family!Spend(g)
      BY <1>1, <2>4, <2>7, <2>8 DEF Family!Spend
    <2> QED
      BY <2>9 DEF Family!Next
  <1> QED
    BY <1>5, <1>6

\* UPDATE ... SET revoked: the family is closed, or was closed before
\* (refresh_token_repo.go:52-56).
LEMMA CloseStep ==
  ASSUME RefInv, IInv', Ordered', [Next]_vars, NEW r \in Req,
         RevokeOnReplay(r) \/ RevokeFamily(r), revoked' # revoked
  PROVE  Family!Next \/ UNCHANGED Family!vars
  <1> USE DEF RefInv
  <1>1. /\ arg[r] \in rows /\ revoked' = revoked \cup FamilyOf(arg[r])
        /\ UNCHANGED <<rows, used, token, op>>
    BY DEF RevokeOnReplay, RevokeFamily, IInv, TypeOK, Staged
  <1>2. PICK g \in Req : g = token[arg[r]].family
    BY <1>1 DEF IInv, TypeOK, DraftLineage
  <1>3. revoked' = revoked \cup FamilyRows(g)
    BY <1>1, <1>2 DEF FamilyOf, FamilyRows
  <1>4. \A q \in Req, m \in {"refresh", "revoke"} : \A t \in rows : ~BeginPresent(q, m, t)
    <2> SUFFICES ASSUME NEW q \in Req, NEW m \in {"refresh", "revoke"}, NEW t \in rows,
                        BeginPresent(q, m, t)
                 PROVE  FALSE
      OBVIOUS
    <2>1. pc[q] = "idle" /\ op' = [op EXCEPT ![q] = m]
      BY DEF BeginPresent
    <2> QED
      BY <1>1, <2>1 DEF IInv, TypeOK, Staged
  <1>5. \A t \in revoked' \ revoked : t \in rows /\ token[t].family = g
    BY <1>3 DEF FamilyRows
  <1>6. CASE Contended(g)
    BY <1>1, <1>4, <1>5, <1>6, ContendedStep
  <1>7. CASE ~Contended(g)
    <2>1. FamilyRows(g) \cap revoked = {} /\ FamilyRows(g) # {}
      BY <1>1, <1>2, <1>3, <1>7, WholeOrNot DEF FamilyRows
    <2>2. FamilyStatus(g) \in {"live", "spent"}
      BY <1>7, <2>1 DEF FamilyStatus
    <2>3. FamilyRows(g)' # {} /\ (FamilyRows(g) \cap revoked)' # {}
      BY <1>1, <1>3, <2>1 DEF FamilyRows
    <2>4. ~Contended(g)'
      BY <1>4, <1>7, ContendedSame DEF FamilyRows
    <2>5. FamilyStatus(g)' = "revoked" /\ FamilyCurrent(g)' = NoToken
      BY <2>3, <2>4 DEF FamilyStatus, FamilyCurrent
    <2>6. /\ [f \in Req |-> FamilyStatus(f)']
              = [[f \in Req |-> FamilyStatus(f)] EXCEPT ![g] = FamilyStatus(g)']
          /\ [f \in Req |-> FamilyCurrent(f)']
              = [[f \in Req |-> FamilyCurrent(f)] EXCEPT ![g] = FamilyCurrent(g)']
      <3>1. \A t \in rows' \ rows : token'[t].family = g
        BY <1>1, <1>4, <1>5
      <3>2. \A t \in (used' \ used) \cup (revoked' \ revoked) :
               t \in rows /\ token[t].family = g
        BY <1>1, <1>4, <1>5
      <3>3. \A q \in Req, m \in {"refresh", "revoke"} :
               \A t \in rows : token[t].family # g => ~BeginPresent(q, m, t)
        BY <1>1, <1>4, <1>5
      <3> QED
        BY <3>1, <3>2, <3>3, OneFamily
    <2>7. Family!Close(g)
      BY <1>1, <2>2, <2>5, <2>6 DEF Family!Close
    <2> QED
      BY <2>7 DEF Family!Next
  <1> QED
    BY <1>6, <1>7

\* INSERT: a login opens a family, a rotation renews one or adds to a contended one
\* (auth_service.go:249, :328).
LEMMA InsertStep ==
  ASSUME RefInv, IInv', Ordered', [Next]_vars, NEW r \in rows', r \notin rows
  PROVE  Family!Next
  <1> USE DEF RefInv
  <1>1. /\ CreateRefreshToken(r) /\ rows' = rows \cup {r} /\ r \in Req /\ token' = token
        /\ pc[r] = "insert" /\ UNCHANGED <<used, revoked>> /\ r \notin revoked \cup used
        /\ \/ op[r] = "issue" /\ token[r].family = r
           \/ op[r] = "refresh" /\ r \in Pending(token[r].family)
    BY NewRow
  <1>2. PICK g \in Req : g = token[r].family
    BY <1>1 DEF Pending, Presenters, FamilyRows, IInv, TypeOK, DraftLineage, SpentBeforeDraft
  <1>3. \A q \in Req, m \in {"refresh", "revoke"} : \A t \in rows : ~BeginPresent(q, m, t)
    <2> SUFFICES ASSUME NEW q \in Req, NEW m \in {"refresh", "revoke"}, NEW t \in rows,
                        BeginPresent(q, m, t)
                 PROVE  FALSE
      OBVIOUS
    <2> QED
      BY <1>1 DEF BeginPresent
  <1>4. FamilyRows(g)' = FamilyRows(g) \cup {r} /\ r \notin FamilyRows(g)
    BY <1>1, <1>2 DEF FamilyRows
  <1>5. Contended(g)' <=> Contended(g)
    BY <1>3, ContendedSame DEF FamilyRows
  <1>6. /\ [f \in Req |-> FamilyStatus(f)']
             = [[f \in Req |-> FamilyStatus(f)] EXCEPT ![g] = FamilyStatus(g)']
        /\ [f \in Req |-> FamilyCurrent(f)']
             = [[f \in Req |-> FamilyCurrent(f)] EXCEPT ![g] = FamilyCurrent(g)']
    <2>1. \A t \in rows' \ rows : token'[t].family = g
      BY <1>1, <1>2, <1>3
    <2>2. \A t \in (used' \ used) \cup (revoked' \ revoked) :
             t \in rows /\ token[t].family = g
      BY <1>1, <1>2, <1>3
    <2>3. \A q \in Req, m \in {"refresh", "revoke"} :
             \A t \in rows : token[t].family # g => ~BeginPresent(q, m, t)
      BY <1>1, <1>2, <1>3
    <2> QED
      BY <2>1, <2>2, <2>3, OneFamily
  <1>7. ASSUME FamilyRows(g) \cap revoked = {}, FamilyUnused(g) = {}, ~Contended(g)
        PROVE  FamilyStatus(g)' = "live" /\ FamilyCurrent(g)' = r
    <2>1. FamilyUnused(g)' = {r} /\ (FamilyRows(g) \cap revoked)' = {} /\ FamilyRows(g)' # {}
      BY <1>1, <1>4, <1>7 DEF FamilyUnused
    <2>2. FamilyStatus(g)' = "live"
      BY <1>5, <1>7, <2>1 DEF FamilyStatus
    <2>3. (CHOOSE u \in {r} : TRUE) = r
      OBVIOUS
    <2> QED
      BY <2>1, <2>2, <2>3 DEF FamilyCurrent
  <1>8. CASE op[r] = "issue"
    <2>1. g = r /\ FamilyRows(g) = {}
      BY <1>1, <1>2, <1>8 DEF FamilyRows, IInv, TypeOK, DraftLineage, Pending
    <2>2. ~Contended(g) /\ FamilyUnused(g) = {}
      BY <2>1 DEF Contended, Presenters, FamilyUnused
    <2>3. FamilyStatus(g) = "absent"
      BY <2>1 DEF FamilyStatus
    <2>4. Family!Open(g)
      BY <1>1, <1>6, <1>7, <2>1, <2>2, <2>3 DEF Family!Open
    <2> QED
      BY <2>4 DEF Family!Next
  <1>9. CASE op[r] = "refresh"
    <2>1. r \in Pending(g) /\ FamilyRows(g) # {}
      BY <1>1, <1>2, <1>9 DEF Pending, Presenters
    <2>2. CASE Contended(g)
      <3>1. FamilyStatus(g)' = "contended" /\ FamilyCurrent(g)' = NoToken
        <4>1. FamilyStatus(g)' = "contended"
          BY <1>4, <1>5, <2>2 DEF FamilyStatus
        <4> QED
          BY <4>1 DEF FamilyCurrent
      <3>2. /\ [f \in Req |-> FamilyStatus(f)'] = [f \in Req |-> FamilyStatus(f)]
            /\ [f \in Req |-> FamilyCurrent(f)'] = [f \in Req |-> FamilyCurrent(f)]
        BY <1>6, <2>2, <3>1, ContendedStatus
      <3>3. Family!Branch(g)
        BY <1>1, <2>2, <3>2, ContendedStatus DEF Family!Branch
      <3> QED
        BY <3>3 DEF Family!Next
    <2>3. CASE ~Contended(g)
      <3>1. FamilyRows(g) \cap revoked = {} /\ FamilyUnused(g) = {}
        BY <1>1, <2>1, <2>3 DEF ReadStillHolds, FamilyUnused
      <3>2. FamilyStatus(g) = "spent"
        BY <2>1, <2>3, <3>1 DEF FamilyStatus
      <3>3. Family!Renew(g)
        BY <1>1, <1>6, <1>7, <2>3, <3>1, <3>2 DEF Family!Renew
      <3> QED
        BY <3>3 DEF Family!Next
    <2> QED
      BY <2>2, <2>3
  <1> QED
    BY <1>1, <1>8, <1>9

\* Every step of the handlers is a step of TokenFamily or a stutter.
LEMMA RefinementStep ==
  ASSUME RefInv, IInv', Ordered', [Next]_vars
  PROVE  [Family!Next]_(Family!vars)
  <1>1. CASE UNCHANGED <<rows, used, revoked>>
    BY <1>1, QuietStep
  <1>2. CASE ~UNCHANGED <<rows, used, revoked>>
    <2>1. \E r \in Req : \/ MarkUsed(r) /\ used' # used
                         \/ (RevokeOnReplay(r) \/ RevokeFamily(r)) /\ revoked' # revoked
                         \/ CreateRefreshToken(r) /\ r \in rows' /\ r \notin rows
      BY <1>2 DEF Next, Arrive, Step, BeginIssue, BeginPresent, RejectEmpty, Prepare,
         CreateSession, ReadToken, CheckExpiry, RevokeOnReplay, RevokeFamily, MarkUsed,
         LoadAndSign, CreateRefreshToken, Reply, Crash, Tick, Rest, vars
    <2> QED
      BY <2>1, SpendStep, CloseStep, InsertStep
  <1> QED
    BY <1>1, <1>2

\* The tables keep the promise of TokenFamily to every login whose own requests do not
\* overlap, with other requests, failures, lost responses and restarts anywhere
\* (architecture.md:156-171).
THEOREM FamiliesAreTokenFamilies == Spec => ImplementsTokenFamily
  <1>1. Init => Family!Init
    BY DEF Init, Family!Init, FamilyStatus, FamilyCurrent, FamilyRows, FamilyUnused
  <1>2. RefInv /\ RefInv' /\ [Next]_vars => [Family!Next]_(Family!vars)
    <2>1. RefInv' => IInv' /\ Ordered'
      BY DEF RefInv
    <2> QED
      BY <2>1, RefinementStep
  <1> QED
    BY <1>1, <1>2, RefInductive, PTL DEF Spec, ImplementsTokenFamily, Family!Spec
=============================================================================
