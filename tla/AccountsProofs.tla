--------------------------- MODULE AccountsProofs ---------------------------
(***************************************************************************)
(* Proofs about Accounts for every number of clients, every set of         *)
(* addresses and Google accounts, and any failures.                        *)
(***************************************************************************)
EXTENDS Accounts, TLAPS

-----------------------------------------------------------------------------
(* The inductive invariant: TypeOK and what a handler knows between two statements. *)

RegisterLabels == {"lookup", "credential"}
LoginLabels == {"find", "check", "log_failure"}
GoogleLabels == {"exchange", "connection", "load", "by_email", "link", "link_existing"}

\* A handler is at a statement of its method, and a request has an answer when it is done.
AtOwnStatement ==
    /\ pc \in [Client -> RegisterLabels \cup LoginLabels \cup GoogleLabels
                           \cup {"create", "log_success", "issue", "idle", "done"}]
    /\ \A c \in Client :
        /\ pc[c] \in RegisterLabels => op[c] = "register"
        /\ pc[c] \in LoginLabels => op[c] = "login"
        /\ pc[c] \in GoogleLabels => op[c] = "oauth"
        /\ pc[c] = "create" => op[c] \in {"register", "oauth"}
        /\ pc[c] = "log_success" => op[c] \in {"login", "oauth"}
        /\ pc[c] # "done" => answer[c] = "none"
        /\ pc[c] = "idle" <=> op[c] = "none"

\* A request has the address, or the Google account, that its method works with.
Addressed ==
    \A c \in Client :
        /\ op[c] \in {"register", "login"} => mail[c] \in Address
        /\ op[c] = "oauth" => sub[c] \in Sub
        /\ op[c] = "oauth" /\ pc[c] \notin {"exchange", "done"} => mail[c] \in Address

\* A handler that goes on to use a row of users has one.
HasUser ==
    \A c \in Client :
        pc[c] \in {"credential", "check", "load", "link", "link_existing"} => user[c] \in users

\* The addresses of the table are in lower case.
LowerCased == \A u \in users : Lower[u] = u

\* A row that still gets its password was made by the one request that gives it.
OneMaker ==
    \A c \in Client : pc[c] = "credential" =>
        /\ user[c] = Email(c)
        /\ cred[user[c]] = Nothing
        /\ \A d \in Client \ {c} : pc[d] = "credential" => user[d] # user[c]

\* The password of a sign-up is stored before its tokens are issued.
PasswordStored ==
    \A c \in Client : op[c] = "register" /\ (pc[c] = "issue" \/ answer[c] = "tokens") =>
        cred[Email(c)] = PasswordOf[c]

\* A sign-in with Google goes on for the user its connection names.
Connected ==
    \A c \in Client :
        op[c] = "oauth" /\ (pc[c] \in {"load", "log_success", "issue"} \/ answer[c] = "tokens") =>
            conn[sub[c]] # Nothing /\ user[c] = conn[sub[c]]

IInv ==
    /\ TypeOK /\ AtOwnStatement /\ Addressed /\ HasUser /\ LowerCased
    /\ OneMaker /\ PasswordStored /\ Connected

-----------------------------------------------------------------------------
\* Nobody has called anything at the start.
LEMMA InitIInv == Init => IInv
  BY AccountsConstants DEF Init, IInv, EventLogs, TypeOK, AtOwnStatement, Addressed, HasUser, LowerCased, OneMaker,
     PasswordStored, Connected, RegisterLabels, LoginLabels, GoogleLabels

\* A login event is one more event of its client.
LEMMA LoggedIsEvents ==
    ASSUME TypeOK, NEW c \in Client, NEW type \in {"login_success", "login_failure"}
    PROVE  /\ Logged(c, type) \in EventLogs
           /\ Refused(c) => Logged(c, type) = events
           /\ ~Refused(c) =>
                /\ \A d \in Client \ {c} : Logged(c, type)[d] = events[d]
                /\ Len(Logged(c, type)[c]) = Len(events[c]) + 1
                /\ events[c] = <<>> => Logged(c, type)[c] = <<type>>
  <1>1. events \in [Client -> Seq({"login_success", "login_failure"})]
    BY DEF TypeOK, EventLogs
  <1>2. /\ Append(events[c], type) \in Seq({"login_success", "login_failure"})
        /\ Len(Append(events[c], type)) = Len(events[c]) + 1
    BY <1>1
  <1>3. events[c] = <<>> => Append(events[c], type) = <<type>>
    OBVIOUS
  <1> QED
    BY <1>1, <1>2, <1>3 DEF Logged, EventLogs

\* Every step keeps the invariant.
LEMMA StepIInv == IInv /\ [Next]_vars => IInv'
  <1> SUFFICES ASSUME IInv, [Next]_vars PROVE IInv'
    OBVIOUS
  <1> USE AccountsConstants DEF Goto, Return, Finish, Fault, Abort, Ignore, WorkOn, Email, request,
          IInv, TypeOK, AtOwnStatement, Addressed, HasUser, LowerCased, OneMaker,
          PasswordStored, Connected, RegisterLabels, LoginLabels, GoogleLabels
  <1>1. ASSUME NEW c \in Client, Begin(c) PROVE IInv'
    <2>1. ASSUME NEW m \in Typed, NEW o \in {"register", "login"}, Call(c, o, m, Nothing)
          PROVE  IInv'
      <3>1. CASE o = "register"
        BY <2>1, <3>1 DEF Call, Entry
      <3>2. CASE o = "login"
        BY <2>1, <3>2 DEF Call, Entry
      <3> QED
        BY <3>1, <3>2
    <2>2. ASSUME NEW g \in Sub, Call(c, "oauth", Nothing, g)
          PROVE  IInv'
      BY <2>2 DEF Call, Entry
    <2> QED
      BY <1>1, <2>1, <2>2 DEF Begin
  <1>2. ASSUME NEW c \in Client, Retry(c) PROVE IInv'
    <2>1. CASE op[c] = "register"
      BY <1>2, <2>1 DEF Retry, Entry
    <2>2. CASE op[c] = "login"
      BY <1>2, <2>2 DEF Retry, Entry
    <2>3. CASE op[c] = "oauth"
      BY <1>2, <2>3 DEF Retry, Entry
    <2> QED
      BY <1>2, <2>1, <2>2, <2>3 DEF Retry
  <1>3. ASSUME NEW c \in Client, Lookup(c) PROVE IInv'
    BY <1>3 DEF Lookup
  <1>4. ASSUME NEW c \in Client, CreateUser(c) PROVE IInv'
    BY <1>4 DEF CreateUser
  <1>5. ASSUME NEW c \in Client, CreateCredential(c) PROVE IInv'
    <2>1. CASE pc'[c] = "issue"
      BY <1>5, <2>1, SMTT(20) DEF CreateCredential
    <2>2. CASE pc'[c] = "done"
      BY <1>5, <2>2, SMTT(20) DEF CreateCredential
    <2> QED
      BY <1>5, <2>1, <2>2 DEF CreateCredential
  <1>6. ASSUME NEW c \in Client, FindUser(c) PROVE IInv'
    BY <1>6 DEF FindUser
  <1>7. ASSUME NEW c \in Client, CheckPassword(c) PROVE IInv'
    BY <1>7 DEF CheckPassword
  <1>8. ASSUME NEW c \in Client, LogFailure(c) PROVE IInv'
    <2>1. events' \in EventLogs
      BY <1>8, LoggedIsEvents DEF LogFailure
    <2> QED
      BY <1>8, <2>1 DEF LogFailure
  <1>9. ASSUME NEW c \in Client, LogSuccess(c) PROVE IInv'
    <2>1. events' \in EventLogs
      BY <1>9, LoggedIsEvents DEF LogSuccess
    <2> QED
      BY <1>9, <2>1 DEF LogSuccess
  <1>10. ASSUME NEW c \in Client, Exchange(c) PROVE IInv'
    BY <1>10 DEF Exchange
  <1>11. ASSUME NEW c \in Client, FindConnection(c) PROVE IInv'
    <2>1. CASE pc'[c] = "load"
      BY <1>11, <2>1 DEF FindConnection
    <2>2. CASE pc'[c] = "by_email"
      BY <1>11, <2>2 DEF FindConnection
    <2> QED
      BY <1>11, <2>1, <2>2 DEF FindConnection
  <1>12. ASSUME NEW c \in Client, LoadUser(c) PROVE IInv'
    BY <1>12 DEF LoadUser
  <1>13. ASSUME NEW c \in Client, FindByEmail(c) PROVE IInv'
    BY <1>13 DEF FindByEmail
  <1>14. ASSUME NEW c \in Client, Link(c) PROVE IInv'
    <2>1. op[c] = "oauth" /\ sub[c] \in Sub /\ user[c] \in users /\ user[c] # Nothing
      BY <1>14 DEF Link
    <2>2. CASE pc'[c] = "log_success"
      BY <1>14, <2>1, <2>2 DEF Link, Linked
    <2>3. CASE pc'[c] = "issue"
      BY <1>14, <2>1, <2>3 DEF Link, Linked
    <2>4. CASE pc'[c] = "done"
      BY <1>14, <2>1, <2>4 DEF Link, Linked
    <2> QED
      BY <1>14, <2>2, <2>3, <2>4 DEF Link, Linked
  <1>15. ASSUME NEW c \in Client, Issue(c) PROVE IInv'
    BY <1>15 DEF Issue
  <1>16. ASSUME UNCHANGED vars PROVE IInv'
    BY <1>16 DEF vars
  <1> QED
    BY <1>1, <1>2, <1>3, <1>4, <1>5, <1>6, <1>7, <1>8, <1>9, <1>10, <1>11, <1>12, <1>13,
       <1>14, <1>15, <1>16 DEF Next, Step, Rest

\* The invariant holds in every state of every behaviour.
THEOREM Invariant == Spec => []IInv
  BY InitIInv, StepIInv, PTL DEF Spec

\* Every variable has its type; passwords and connections belong to existing users.
THEOREM TypeCorrect == Spec => []TypeOK
  <1>1. IInv => TypeOK
    BY DEF IInv
  <1> QED
    BY <1>1, Invariant, PTL

\* An address has one account, however it is spelled (auth_service.go:82, :92, :156, :172).
THEOREM OneAccount == Spec => []OneAccountPerAddress
  <1>1. IInv => OneAccountPerAddress
    BY DEF IInv, LowerCased, OneAccountPerAddress
  <1> QED
    BY <1>1, Invariant, PTL

\* Who was given tokens for signing up can log in with the password of that request
\* (auth_service.go:82-101).
THEOREM SignUpIsGood == Spec => []RegisteredCanLogIn
  <1>1. IInv => RegisteredCanLogIn
    BY DEF IInv, PasswordStored, RegisteredCanLogIn
  <1> QED
    BY <1>1, Invariant, PTL

\* A Google account leads to one user for good (auth_service.go:147-191).
THEOREM OneUserOfGoogle == Spec => []GoogleAccountIsOneUser
  <1>1. IInv => GoogleAccountIsOneUser
    BY DEF IInv, Connected, GoogleAccountIsOneUser
  <1> QED
    BY <1>1, Invariant, PTL

-----------------------------------------------------------------------------
(* Login events.  How many a client has left is fixed by the statement it is at, up *)
(* to the failures; without failures so are the events.  No other request writes in  *)
(* its name.                                                                         *)

Unlogged == LoginLabels \cup {"log_success"}

Verdict(c) == IF answer[c] = "tokens" THEN "login_success" ELSE "login_failure"

\* An attempt that was answered with an error failed after its event was written, so
\* that the next one may leave its own.
Counted ==
    \A c \in Client : op[c] = "login" /\ ~Refused(c) =>
        /\ pc[c] \in Unlogged => Len(events[c]) \in (0 - faults)..faults
        /\ pc[c] = "issue" => Len(events[c]) \in (1 - faults)..(1 + faults)
        /\ pc[c] = "done" /\ answer[c] # "error" =>
               Len(events[c]) \in (1 - faults)..(1 + faults)
        /\ pc[c] = "done" /\ answer[c] = "error" => Len(events[c]) \in (2 - faults)..faults

EventsSoFar ==
    faults = 0 => \A c \in Client :
        /\ op[c] = "none" => events[c] = <<>>
        /\ op[c] = "login" /\ ~Refused(c) =>
            /\ pc[c] \in Unlogged => events[c] = <<>>
            /\ pc[c] = "issue" => events[c] = <<"login_success">>
            /\ pc[c] = "done" => events[c] = <<Verdict(c)>> /\ answer[c] # "error"

\* A client that has called nothing has left nothing.
Silent == \A c \in Client : op[c] = "none" => events[c] = <<>>

\* There are no events at the start.
LEMMA InitEvents == Init => Silent /\ Counted /\ EventsSoFar
  BY DEF Init, Silent, Counted, EventsSoFar

\* A step of one request leaves the events of the others alone.
LEMMA StepEvents ==
    IInv /\ Silent /\ Counted /\ EventsSoFar /\ [Next]_vars => (Silent /\ Counted /\ EventsSoFar)'
  <1> SUFFICES ASSUME IInv, Silent, Counted, EventsSoFar, [Next]_vars
               PROVE  (Silent /\ Counted /\ EventsSoFar)'
    OBVIOUS
  <1>0. /\ TypeOK /\ AtOwnStatement /\ faults \in Nat
        /\ \A c \in Client : Len(events[c]) \in Nat
    BY AccountsConstants DEF IInv, TypeOK, EventLogs
  <1> USE <1>0 DEF Goto, Return, Finish, Fault, Abort, Ignore, WorkOn, request,
          AtOwnStatement, RegisterLabels, LoginLabels, GoogleLabels, Unlogged, Verdict,
          Silent, Counted, EventsSoFar, Refused, BadAddress
  <1>1. ASSUME NEW c \in Client, Begin(c) PROVE (Silent /\ Counted /\ EventsSoFar)'
    <2>1. PICK o \in {"register", "login", "oauth"} :
              /\ pc[c] = "idle"
              /\ op' = [op EXCEPT ![c] = o]
              /\ pc' = [pc EXCEPT ![c] = Entry(o)]
              /\ \A d \in Client \ {c} : mail'[d] = mail[d]
              /\ UNCHANGED <<events, faults, answer>>
      BY <1>1 DEF Begin, Call, TypeOK
    <2>2. op[c] = "none" /\ events[c] = <<>> /\ Len(events[c]) = 0
      BY <2>1
    <2>3. Entry(o) \in {"lookup", "find", "exchange"}
      BY DEF Entry
    <2> QED
      BY <2>1, <2>2, <2>3 DEF TypeOK
  <1>2. ASSUME NEW c \in Client, Retry(c) PROVE (Silent /\ Counted /\ EventsSoFar)'
    BY <1>2 DEF Retry, Entry, TypeOK
  <1>3. ASSUME NEW c \in Client, Lookup(c) PROVE (Silent /\ Counted /\ EventsSoFar)'
    BY <1>3 DEF Lookup, TypeOK
  <1>4. ASSUME NEW c \in Client, CreateUser(c) PROVE (Silent /\ Counted /\ EventsSoFar)'
    BY <1>4 DEF CreateUser, TypeOK
  <1>5. ASSUME NEW c \in Client, CreateCredential(c) PROVE (Silent /\ Counted /\ EventsSoFar)'
    BY <1>5 DEF CreateCredential, TypeOK
  <1>6. ASSUME NEW c \in Client, FindUser(c) PROVE (Silent /\ Counted /\ EventsSoFar)'
    BY <1>6 DEF FindUser, TypeOK
  <1>7. ASSUME NEW c \in Client, CheckPassword(c) PROVE (Silent /\ Counted /\ EventsSoFar)'
    BY <1>7 DEF CheckPassword, TypeOK
  <1>8. ASSUME NEW c \in Client, LogFailure(c) PROVE (Silent /\ Counted /\ EventsSoFar)'
    <2>1. /\ Refused(c) => Logged(c, "login_failure") = events
          /\ ~Refused(c) =>
               /\ \A d \in Client \ {c} : Logged(c, "login_failure")[d] = events[d]
               /\ Len(Logged(c, "login_failure")[c]) = Len(events[c]) + 1
               /\ events[c] = <<>> => Logged(c, "login_failure")[c] = <<"login_failure">>
      BY LoggedIsEvents
    <2>2. CASE events' = events /\ faults' = faults + 1
      BY <1>8, <2>2 DEF LogFailure, TypeOK
    <2>3. CASE Refused(c) /\ events' = events
      BY <1>8, <2>3 DEF LogFailure, TypeOK
    <2>4. CASE ~Refused(c) /\ events' = Logged(c, "login_failure")
      <3>1. /\ \A d \in Client \ {c} : events'[d] = events[d]
            /\ Len(events'[c]) = Len(events[c]) + 1
            /\ events[c] = <<>> => events'[c] = <<"login_failure">>
        BY <2>1, <2>4
      <3> QED
        BY <1>8, <2>4, <3>1 DEF LogFailure, TypeOK
    <2> QED
      BY <1>8, <2>1, <2>2, <2>3, <2>4 DEF LogFailure, TypeOK
  <1>9. ASSUME NEW c \in Client, LogSuccess(c) PROVE (Silent /\ Counted /\ EventsSoFar)'
    <2>1. /\ Refused(c) => Logged(c, "login_success") = events
          /\ ~Refused(c) =>
               /\ \A d \in Client \ {c} : Logged(c, "login_success")[d] = events[d]
               /\ Len(Logged(c, "login_success")[c]) = Len(events[c]) + 1
               /\ events[c] = <<>> => Logged(c, "login_success")[c] = <<"login_success">>
      BY LoggedIsEvents
    <2>2. CASE events' = events /\ faults' = faults + 1
      BY <1>9, <2>2 DEF LogSuccess, TypeOK
    <2>3. CASE Refused(c) /\ events' = events
      BY <1>9, <2>3 DEF LogSuccess, TypeOK
    <2>4. CASE ~Refused(c) /\ events' = Logged(c, "login_success")
      <3>1. /\ \A d \in Client \ {c} : events'[d] = events[d]
            /\ Len(events'[c]) = Len(events[c]) + 1
            /\ events[c] = <<>> => events'[c] = <<"login_success">>
        BY <2>1, <2>4
      <3>2. /\ pc' = [pc EXCEPT ![c] = "issue"] /\ faults' \in {faults, faults + 1}
            /\ UNCHANGED <<request, answer>> /\ pc[c] = "log_success"
        BY <1>9 DEF LogSuccess
      <3>3. Silent'
        BY <2>4, <3>1, <3>2 DEF TypeOK
      <3>4. Counted'
        BY <2>4, <3>1, <3>2, SMTT(20) DEF TypeOK
      <3>5. EventsSoFar'
        BY <2>4, <3>1, <3>2 DEF TypeOK
      <3> QED
        BY <3>3, <3>4, <3>5
    <2> QED
      BY <1>9, <2>1, <2>2, <2>3, <2>4 DEF LogSuccess, TypeOK
  <1>10. ASSUME NEW c \in Client, Exchange(c) PROVE (Silent /\ Counted /\ EventsSoFar)'
    BY <1>10 DEF Exchange, TypeOK
  <1>11. ASSUME NEW c \in Client, FindConnection(c) PROVE (Silent /\ Counted /\ EventsSoFar)'
    BY <1>11 DEF FindConnection, TypeOK
  <1>12. ASSUME NEW c \in Client, LoadUser(c) PROVE (Silent /\ Counted /\ EventsSoFar)'
    BY <1>12 DEF LoadUser, TypeOK
  <1>13. ASSUME NEW c \in Client, FindByEmail(c) PROVE (Silent /\ Counted /\ EventsSoFar)'
    BY <1>13 DEF FindByEmail, TypeOK
  <1>14. ASSUME NEW c \in Client, Link(c) PROVE (Silent /\ Counted /\ EventsSoFar)'
    BY <1>14 DEF Link, Linked, TypeOK
  <1>15. ASSUME NEW c \in Client, Issue(c) PROVE (Silent /\ Counted /\ EventsSoFar)'
    BY <1>15 DEF Issue, TypeOK
  <1>16. ASSUME UNCHANGED vars PROVE (Silent /\ Counted /\ EventsSoFar)'
    BY <1>16 DEF vars
  <1> QED
    BY <1>1, <1>2, <1>3, <1>4, <1>5, <1>6, <1>7, <1>8, <1>9, <1>10, <1>11, <1>12, <1>13,
       <1>14, <1>15, <1>16 DEF Next, Step, Rest

\* A login that was answered with tokens or a refusal has left one event, up to those
\* that failures lost or doubled; without failures it is the one that says what it was
\* answered (auth_service.go:103-129, :340-357).
THEOREM OneEventPerLogin == Spec => []LoginsAreLogged
  <1>1. Counted /\ EventsSoFar => LoginsAreLogged
    BY DEF Counted, EventsSoFar, Verdict, LoginsAreLogged
  <1> QED
    BY <1>1, Invariant, InitEvents, StepEvents, PTL DEF Spec

-----------------------------------------------------------------------------
(* Ways in.  Without failures, a row of users without one is still being worked on *)
(* by the request that made it, or was given up for a Google account that is linked *)
(* to another row. *)

GivesUp(u) == \E g \in Sub : conn[g] # Nothing /\ \E m \in GoogleMail[g] : u = Lower[m]

KeyOrMaker ==
    faults = 0 => \A u \in users :
        \/ cred[u] # Nothing
        \/ \E g \in Sub : conn[g] = u
        \/ GivesUp(u)
        \/ \E c \in Client : pc[c] \in {"credential", "link"} /\ user[c] = u

\* A sign-in with Google works with an address of the account.
Mailed ==
    \A c \in Client :
        /\ op[c] = "oauth" /\ pc[c] \notin {"exchange", "done"} => mail[c] \in GoogleMail[sub[c]]
        /\ pc[c] = "link" => user[c] = Email(c)

\* There are no rows at the start.
LEMMA InitKeys == Init => KeyOrMaker /\ Mailed
  BY DEF Init, KeyOrMaker, Mailed

\* Every step keeps what is known of the addresses users were created with.
LEMMA StepMailed == IInv /\ Mailed /\ [Next]_vars => Mailed'
  <1> SUFFICES ASSUME IInv, Mailed, [Next]_vars PROVE Mailed'
    OBVIOUS
  <1> USE AccountsConstants DEF Goto, Return, Finish, Fault, Abort, Ignore, WorkOn, request,
          IInv, TypeOK, AtOwnStatement, RegisterLabels, LoginLabels, GoogleLabels,
          Addressed, Mailed, Email
  <1>1. ASSUME NEW c \in Client, Begin(c) PROVE Mailed'
    BY <1>1 DEF Begin, Call, Entry
  <1>2. ASSUME NEW c \in Client, Retry(c) PROVE Mailed'
    BY <1>2 DEF Retry, Entry
  <1>3. ASSUME NEW c \in Client, Lookup(c) PROVE Mailed'
    BY <1>3 DEF Lookup
  <1>4. ASSUME NEW c \in Client, CreateUser(c) PROVE Mailed'
    BY <1>4 DEF CreateUser
  <1>5. ASSUME NEW c \in Client, CreateCredential(c) PROVE Mailed'
    BY <1>5 DEF CreateCredential
  <1>6. ASSUME NEW c \in Client, FindUser(c) PROVE Mailed'
    BY <1>6 DEF FindUser
  <1>7. ASSUME NEW c \in Client, CheckPassword(c) PROVE Mailed'
    BY <1>7 DEF CheckPassword
  <1>8. ASSUME NEW c \in Client, LogFailure(c) PROVE Mailed'
    BY <1>8 DEF LogFailure
  <1>9. ASSUME NEW c \in Client, LogSuccess(c) PROVE Mailed'
    BY <1>9 DEF LogSuccess
  <1>10. ASSUME NEW c \in Client, Exchange(c) PROVE Mailed'
    BY <1>10 DEF Exchange
  <1>11. ASSUME NEW c \in Client, FindConnection(c) PROVE Mailed'
    BY <1>11 DEF FindConnection
  <1>12. ASSUME NEW c \in Client, LoadUser(c) PROVE Mailed'
    BY <1>12 DEF LoadUser
  <1>13. ASSUME NEW c \in Client, FindByEmail(c) PROVE Mailed'
    BY <1>13 DEF FindByEmail
  <1>14. ASSUME NEW c \in Client, Link(c) PROVE Mailed'
    BY <1>14 DEF Link, Linked
  <1>15. ASSUME NEW c \in Client, Issue(c) PROVE Mailed'
    BY <1>15 DEF Issue
  <1>16. ASSUME UNCHANGED vars PROVE Mailed'
    BY <1>16 DEF vars
  <1> QED
    BY <1>1, <1>2, <1>3, <1>4, <1>5, <1>6, <1>7, <1>8, <1>9, <1>10, <1>11, <1>12, <1>13,
       <1>14, <1>15, <1>16 DEF Next, Step, Rest

\* Every step leaves each user a way in, or the request that is making it one.
LEMMA StepKeys == IInv /\ Mailed /\ KeyOrMaker /\ [Next]_vars => KeyOrMaker'
  <1> SUFFICES ASSUME IInv, Mailed, KeyOrMaker, [Next]_vars PROVE KeyOrMaker'
    OBVIOUS
  <1> USE AccountsConstants DEF Goto, Return, Finish, Fault, Abort, Ignore, WorkOn, request,
          IInv, TypeOK, AtOwnStatement, RegisterLabels, LoginLabels, GoogleLabels,
          Addressed, HasUser, Mailed, Email, KeyOrMaker, GivesUp
  <1>1. ASSUME NEW c \in Client, Begin(c) PROVE KeyOrMaker'
    BY <1>1 DEF Begin, Call, Entry
  <1>2. ASSUME NEW c \in Client, Retry(c) PROVE KeyOrMaker'
    BY <1>2 DEF Retry, Entry
  <1>3. ASSUME NEW c \in Client, Lookup(c) PROVE KeyOrMaker'
    BY <1>3 DEF Lookup
  <1>4. ASSUME NEW c \in Client, CreateUser(c) PROVE KeyOrMaker'
    BY <1>4 DEF CreateUser
  <1>5. ASSUME NEW c \in Client, CreateCredential(c) PROVE KeyOrMaker'
    BY <1>5 DEF CreateCredential
  <1>6. ASSUME NEW c \in Client, FindUser(c) PROVE KeyOrMaker'
    BY <1>6 DEF FindUser
  <1>7. ASSUME NEW c \in Client, CheckPassword(c) PROVE KeyOrMaker'
    BY <1>7 DEF CheckPassword
  <1>8. ASSUME NEW c \in Client, LogFailure(c) PROVE KeyOrMaker'
    BY <1>8 DEF LogFailure
  <1>9. ASSUME NEW c \in Client, LogSuccess(c) PROVE KeyOrMaker'
    BY <1>9 DEF LogSuccess
  <1>10. ASSUME NEW c \in Client, Exchange(c) PROVE KeyOrMaker'
    BY <1>10 DEF Exchange
  <1>11. ASSUME NEW c \in Client, FindConnection(c) PROVE KeyOrMaker'
    BY <1>11 DEF FindConnection
  <1>12. ASSUME NEW c \in Client, LoadUser(c) PROVE KeyOrMaker'
    BY <1>12 DEF LoadUser
  <1>13. ASSUME NEW c \in Client, FindByEmail(c) PROVE KeyOrMaker'
    BY <1>13 DEF FindByEmail
  <1>14. ASSUME NEW c \in Client, Link(c) PROVE KeyOrMaker'
    BY <1>14 DEF Link, Linked
  <1>15. ASSUME NEW c \in Client, Issue(c) PROVE KeyOrMaker'
    BY <1>15 DEF Issue
  <1>16. ASSUME UNCHANGED vars PROVE KeyOrMaker'
    BY <1>16 DEF vars
  <1> QED
    BY <1>1, <1>2, <1>3, <1>4, <1>5, <1>6, <1>7, <1>8, <1>9, <1>10, <1>11, <1>12, <1>13,
       <1>14, <1>15, <1>16 DEF Next, Step, Rest

\* Nobody is shut out by two requests that met: without failures, when nothing is
\* running, every account has a way in or was given up for the one its Google account
\* is linked to (auth_service.go:92-99, :172-188).
THEOREM NobodyShutOut == Spec => []EveryAccountHasAKey
  <1>1. IInv /\ KeyOrMaker => EveryAccountHasAKey
    BY DEF KeyOrMaker, GivesUp, EveryAccountHasAKey
  <1> QED
    BY <1>1, Invariant, InitKeys, StepMailed, StepKeys, PTL DEF Spec

-----------------------------------------------------------------------------
(* The account directory: each statement is one of its steps or is not seen. *)

\* A sign-up or a login goes on for an existing user whose password is the one it
\* gave (auth_service.go:97-101, :109-129).
KeyedIn ==
    \A c \in Client :
        op[c] \in {"register", "login"} /\ pc[c] \in {"log_success", "issue"} =>
            user[c] \in users /\ cred[user[c]] = PasswordOf[c]

\* Every step keeps what is known of the password of a request.
LEMMA StepKeyedIn == IInv /\ KeyedIn /\ [Next]_vars => KeyedIn'
  <1> SUFFICES ASSUME IInv, KeyedIn, [Next]_vars PROVE KeyedIn'
    OBVIOUS
  <1> USE AccountsConstants DEF Goto, Return, Finish, Fault, Abort, Ignore, WorkOn, request,
          IInv, TypeOK, AtOwnStatement, RegisterLabels, LoginLabels, GoogleLabels,
          HasUser, OneMaker, KeyedIn
  <1>1. ASSUME NEW c \in Client, Begin(c) PROVE KeyedIn'
    BY <1>1 DEF Begin, Call, Entry
  <1>2. ASSUME NEW c \in Client, Retry(c) PROVE KeyedIn'
    BY <1>2 DEF Retry, Entry
  <1>3. ASSUME NEW c \in Client, Lookup(c) PROVE KeyedIn'
    BY <1>3 DEF Lookup
  <1>4. ASSUME NEW c \in Client, CreateUser(c) PROVE KeyedIn'
    BY <1>4 DEF CreateUser
  <1>5. ASSUME NEW c \in Client, CreateCredential(c) PROVE KeyedIn'
    BY <1>5 DEF CreateCredential
  <1>6. ASSUME NEW c \in Client, FindUser(c) PROVE KeyedIn'
    BY <1>6 DEF FindUser
  <1>7. ASSUME NEW c \in Client, CheckPassword(c) PROVE KeyedIn'
    BY <1>7 DEF CheckPassword
  <1>8. ASSUME NEW c \in Client, LogFailure(c) PROVE KeyedIn'
    BY <1>8 DEF LogFailure
  <1>9. ASSUME NEW c \in Client, LogSuccess(c) PROVE KeyedIn'
    BY <1>9 DEF LogSuccess
  <1>10. ASSUME NEW c \in Client, Exchange(c) PROVE KeyedIn'
    BY <1>10 DEF Exchange
  <1>11. ASSUME NEW c \in Client, FindConnection(c) PROVE KeyedIn'
    BY <1>11 DEF FindConnection
  <1>12. ASSUME NEW c \in Client, LoadUser(c) PROVE KeyedIn'
    BY <1>12 DEF LoadUser
  <1>13. ASSUME NEW c \in Client, FindByEmail(c) PROVE KeyedIn'
    BY <1>13 DEF FindByEmail
  <1>14. ASSUME NEW c \in Client, Link(c) PROVE KeyedIn'
    BY <1>14 DEF Link, Linked
  <1>15. ASSUME NEW c \in Client, Issue(c) PROVE KeyedIn'
    BY <1>15 DEF Issue
  <1>16. ASSUME UNCHANGED vars PROVE KeyedIn'
    BY <1>16 DEF vars
  <1> QED
    BY <1>1, <1>2, <1>3, <1>4, <1>5, <1>6, <1>7, <1>8, <1>9, <1>10, <1>11, <1>12, <1>13,
       <1>14, <1>15, <1>16 DEF Next, Step, Rest

\* A step that gives nobody tokens is not seen in the directory's admissions, whatever
\* it does to the request of the client that makes it.
LEMMA NobodyAdmitted ==
    ASSUME IInv, NEW c \in Client, answer[c] # "tokens", answer'[c] # "tokens",
           \A d \in Client \ {c} :
               op'[d] = op[d] /\ sub'[d] = sub[d] /\ user'[d] = user[d] /\ answer'[d] = answer[d]
    PROVE  [d \in Client |-> Admission(d)]' = [d \in Client |-> Admission(d)]
  <1>1. \A d \in Client : Admission(d)' = Admission(d)
    BY DEF Admission
  <1> QED
    BY <1>1

\* A statement that writes neither a user, a password nor a connection, and gives
\* nobody tokens, is not seen.
LEMMA Unseen ==
    ASSUME IInv, NEW c \in Client, answer[c] # "tokens", answer'[c] # "tokens",
           UNCHANGED <<users, cred, conn>>,
           \A d \in Client \ {c} :
               op'[d] = op[d] /\ sub'[d] = sub[d] /\ user'[d] = user[d] /\ answer'[d] = answer[d]
    PROVE  UNCHANGED Directory!vars
  BY NobodyAdmitted DEF Directory!vars

\* A row is made for an address that has none (auth_service.go:92, :172).
LEMMA CreateUserOpens ==
    ASSUME IInv, NEW c \in Client, CreateUser(c)
    PROVE  Directory!Next \/ UNCHANGED Directory!vars
  <1> USE DEF Goto, Return, Finish, Fault, Abort, WorkOn, request
  <1>1. /\ answer[c] # "tokens" /\ answer'[c] # "tokens"
        /\ UNCHANGED <<cred, conn>>
        /\ \A d \in Client \ {c} :
             op'[d] = op[d] /\ sub'[d] = sub[d] /\ user'[d] = user[d] /\ answer'[d] = answer[d]
    BY DEF CreateUser, IInv, TypeOK, AtOwnStatement
  <1>2. CASE users' = users
    BY <1>1, <1>2, Unseen
  <1>3. CASE users' # users
    <2>1. users' = users \cup {Email(c)} /\ Email(c) \notin users
      BY <1>3 DEF CreateUser
    <2>2. Email(c) \in Address
      BY AccountsConstants DEF CreateUser, IInv, AtOwnStatement, Addressed, Email
    <2>3. Directory!Open(Email(c))
      BY <1>1, <2>1, NobodyAdmitted DEF Directory!Open
    <2> QED
      BY <2>2, <2>3 DEF Directory!Next
  <1> QED
    BY <1>2, <1>3

\* A password is set for a row that has none (auth_service.go:97-99).
LEMMA CreateCredentialSets ==
    ASSUME IInv, NEW c \in Client, CreateCredential(c)
    PROVE  Directory!Next \/ UNCHANGED Directory!vars
  <1> USE DEF Goto, Return, Finish, Fault, Abort, WorkOn, request
  <1>1. /\ answer[c] # "tokens" /\ answer'[c] # "tokens"
        /\ UNCHANGED <<users, conn>>
        /\ \A d \in Client \ {c} :
             op'[d] = op[d] /\ sub'[d] = sub[d] /\ user'[d] = user[d] /\ answer'[d] = answer[d]
    BY DEF CreateCredential, IInv, TypeOK, AtOwnStatement
  <1>2. CASE cred' = cred
    BY <1>1, <1>2, Unseen
  <1>3. CASE cred' # cred
    <2>1. cred' = [cred EXCEPT ![user[c]] = PasswordOf[c]]
      BY <1>3 DEF CreateCredential
    <2>2. user[c] \in users /\ user[c] \in Address /\ cred[user[c]] = Nothing
          /\ PasswordOf[c] \in Password
      BY AccountsConstants DEF CreateCredential, IInv, TypeOK, HasUser, OneMaker
    <2>3. Directory!SetPassword(user[c], PasswordOf[c])
      BY <1>1, <2>1, <2>2, NobodyAdmitted DEF Directory!SetPassword
    <2> QED
      BY <2>2, <2>3 DEF Directory!Next
  <1> QED
    BY <1>2, <1>3

\* A Google account without a connection gets one (auth_service.go:156-188).
LEMMA LinkConnects ==
    ASSUME IInv, NEW c \in Client, Link(c)
    PROVE  Directory!Next \/ UNCHANGED Directory!vars
  <1> USE DEF Goto, Return, Finish, Fault, Abort, WorkOn, request
  <1>1. /\ answer[c] # "tokens" /\ answer'[c] # "tokens"
        /\ UNCHANGED <<users, cred>>
        /\ \A d \in Client \ {c} :
             op'[d] = op[d] /\ sub'[d] = sub[d] /\ user'[d] = user[d] /\ answer'[d] = answer[d]
    BY DEF Link, IInv, TypeOK, AtOwnStatement
  <1>2. CASE conn' = conn
    BY <1>1, <1>2, Unseen
  <1>3. CASE conn' # conn
    <2>1. sub[c] \in Sub /\ user[c] \in users /\ user[c] \in Address
      BY DEF Link, IInv, TypeOK, AtOwnStatement, Addressed, HasUser, GoogleLabels
    <2>2. conn[sub[c]] = Nothing /\ conn' = [conn EXCEPT ![sub[c]] = user[c]]
      BY <1>3, <2>1 DEF Link, IInv, TypeOK
    <2>3. Directory!Connect(sub[c], user[c])
      BY <1>1, <2>1, <2>2, NobodyAdmitted DEF Directory!Connect
    <2> QED
      BY <2>1, <2>3 DEF Directory!Next
  <1> QED
    BY <1>2, <1>3

\* Tokens are for the account whose key the request had (auth_service.go:101, :129,
\* :153, :169, :191).
LEMMA IssueAdmits ==
    ASSUME IInv, KeyedIn, NEW c \in Client, Issue(c)
    PROVE  Directory!Next \/ UNCHANGED Directory!vars
  <1> USE DEF Goto, Return, Finish, Fault, Abort, request
  <1>1. /\ answer[c] = "none" /\ UNCHANGED <<users, cred, conn, op, sub, user>>
        /\ \A d \in Client \ {c} : answer'[d] = answer[d]
    BY DEF Issue, IInv, TypeOK, AtOwnStatement
  <1>2. CASE answer'[c] # "tokens"
    BY <1>1, <1>2, Unseen
  <1>3. CASE answer'[c] = "tokens"
    <2> DEFINE k == IF op[c] = "oauth" THEN sub[c] ELSE PasswordOf[c]
    <2>1. /\ op[c] = "oauth" => sub[c] \in Sub
          /\ op[c] = "oauth" => user[c] \in users /\ conn[sub[c]] = user[c]
      BY DEF Issue, IInv, TypeOK, Addressed, Connected
    <2>2. op[c] # "oauth" => user[c] \in users /\ cred[user[c]] = PasswordOf[c]
      BY DEF Issue, IInv, TypeOK, AtOwnStatement, KeyedIn
    <2>3. PasswordOf[c] \in Password /\ users \subseteq Address
      BY AccountsConstants DEF IInv, TypeOK
    <2>4. k \in Directory!Keys(user[c]) /\ k \in Password \cup Sub
          /\ user[c] \in users /\ user[c] \in Address
      BY <2>1, <2>2, <2>3 DEF Directory!Keys
    <2>5. \A d \in Client : Admission(d)' =
            IF d = c THEN [account |-> user[c], key |-> k] ELSE Admission(d)
      BY <1>1, <1>3 DEF Admission
    <2>6. Admission(c) = Nothing
      BY <1>1 DEF Admission
    <2>7. Directory!Admit(c, user[c], k)
      BY <1>1, <2>4, <2>5, <2>6 DEF Directory!Admit
    <2> QED
      BY <2>4, <2>7 DEF Directory!Next
  <1> QED
    BY <1>2, <1>3

\* Every step is one of the directory's or is not seen.
LEMMA StepMaps == IInv /\ KeyedIn /\ [Next]_vars => [Directory!Next]_(Directory!vars)
  <1> SUFFICES ASSUME IInv, KeyedIn, [Next]_vars
               PROVE  Directory!Next \/ UNCHANGED Directory!vars
    BY Zenon
  <1>1. ASSUME NEW c \in Client,
               \/ Begin(c) \/ Retry(c) \/ Lookup(c) \/ FindUser(c) \/ CheckPassword(c)
               \/ LogFailure(c) \/ LogSuccess(c) \/ Exchange(c) \/ FindConnection(c)
               \/ LoadUser(c) \/ FindByEmail(c)
        PROVE  UNCHANGED Directory!vars
    <2> USE DEF Goto, Return, Finish, Fault, Abort, Ignore, WorkOn, request,
            IInv, TypeOK, AtOwnStatement
    <2>1. /\ answer[c] # "tokens" /\ answer'[c] # "tokens"
          /\ UNCHANGED <<users, cred, conn>>
      BY <1>1 DEF Begin, Call, Retry, Lookup, FindUser, CheckPassword, LogFailure,
         LogSuccess, Exchange, FindConnection, LoadUser, FindByEmail
    <2>2. \A d \in Client \ {c} :
            op'[d] = op[d] /\ sub'[d] = sub[d] /\ user'[d] = user[d] /\ answer'[d] = answer[d]
      BY <1>1 DEF Begin, Call, Retry, Lookup, FindUser, CheckPassword, LogFailure,
         LogSuccess, Exchange, FindConnection, LoadUser, FindByEmail
    <2> QED
      BY <2>1, <2>2, Unseen
  <1>2. CASE UNCHANGED vars
    BY <1>2 DEF vars, request, Directory!vars, Admission
  <1> QED
    BY <1>1, <1>2, CreateUserOpens, CreateCredentialSets, LinkConnects, IssueAdmits
    DEF Next, Step, Rest

\* The accounts of a tenant are a directory in which no password is replaced, no Google
\* account moves, and nobody is let in without a key of the account
\* (auth_service.go:76-192).
THEOREM AccountsAreADirectory == Spec => ImplementsDirectory
  <1>1. Init => Directory!Init /\ KeyedIn
    BY DEF Init, Directory!Init, Admission, KeyedIn
  <1> QED
    BY <1>1, StepKeyedIn, StepMaps, Invariant, PTL
    DEF Spec, ImplementsDirectory, Directory!Spec
=============================================================================
