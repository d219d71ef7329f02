------------------------------ MODULE Accounts ------------------------------
(***************************************************************************)
(* Accounts of one tenant in auth-service: Register, Login and OAuthGoogle *)
(* of internal/service/auth_service.go over users, user_credentials,       *)
(* oauth_connections and login_events.                                     *)
(*                                                                         *)
(* Each handler runs its statements one after the other, each in its own   *)
(* transaction, so handlers interleave between them and a failure in the   *)
(* middle leaves what was written.  issueAuthResponse is one step here; it *)
(* is the subject of RefreshTokens.                                        *)
(*                                                                         *)
(* Rows of users are never deleted and never change their address, and the *)
(* address is unique, so it also names the row.                            *)
(***************************************************************************)
EXTENDS Integers, Sequences

CONSTANTS
    Client,         \* callers; each makes one request, and may repeat it
    Calls,          \* Calls[c]: the methods c may call
    Address,        \* e-mail addresses as they are spelled
    Typed,          \* those that clients give to sign up and to log in
    Lower,          \* strings.ToLower of an address
    Password,
    PasswordOf,     \* PasswordOf[c]: the password c signs up and logs in with
    Forwarded,      \* clients whose requests come with an X-Forwarded-For list
    Unquotable,     \* addresses with a character that %q writes as JSON does not
    Sub,            \* Google accounts
    GoogleMail,     \* GoogleMail[g]: the addresses g may have, now or later
    Nothing,        \* no row
    MaxFaults       \* bound on failed statements and lost answers

ASSUME AccountsConstants ==
    /\ Lower \in [Address -> Address]
    /\ \A a \in Address : Lower[Lower[a]] = Lower[a]
    /\ Calls \in [Client -> SUBSET {"register", "login", "oauth"}]
    /\ Typed \subseteq Address
    /\ PasswordOf \in [Client -> Password]
    /\ Forwarded \subseteq Client
    /\ Unquotable \subseteq Address
    /\ GoogleMail \in [Sub -> SUBSET Address]
    /\ Nothing \notin Address \cup Password \cup Sub
    /\ MaxFaults \in Nat

VARIABLES
    users,      \* addresses that have a row in users
    cred,       \* cred[u]: the password of u's row in user_credentials
    conn,       \* conn[g]: the user g's row in oauth_connections names
    events,     \* events[c]: the types of the login events c's requests have left
    op,         \* op[c]: the method c calls
    mail,       \* mail[c]: the address c gives, or Google gives for it
    sub,        \* sub[c]: c's Google account
    user,       \* user[c]: the row of users the handler works with
    pc,         \* pc[c]: the next statement
    answer,     \* answer[c]: what c was told last
    faults      \* failures so far

EventLogs == [Client -> Seq({"login_success", "login_failure"})]

request == <<op, mail, sub>>
vars == <<users, cred, conn, events, request, user, pc, answer, faults>>

Init ==
    /\ users = {}
    /\ cred = [u \in Address |-> Nothing]
    /\ conn = [g \in Sub |-> Nothing]
    /\ events = [c \in Client |-> <<>>]
    /\ op = [c \in Client |-> "none"]
    /\ mail = [c \in Client |-> Nothing]
    /\ sub = [c \in Client |-> Nothing]
    /\ user = [c \in Client |-> Nothing]
    /\ pc = [c \in Client |-> "idle"]
    /\ answer = [c \in Client |-> "none"]
    /\ faults = 0

-----------------------------------------------------------------------------
(* Control flow of a handler. *)

Goto(c, l) == pc' = [pc EXCEPT ![c] = l] /\ UNCHANGED <<answer, faults>>

Return(c, a) ==
    /\ pc' = [pc EXCEPT ![c] = "done"]
    /\ answer' = [answer EXCEPT ![c] = a]

Finish(c, a) == Return(c, a) /\ UNCHANGED faults

Fault == faults < MaxFaults /\ faults' = faults + 1
Abort(c) == Fault /\ Return(c, "error")

\* A statement fails and the handler goes on at l all the same.
Ignore(c, l) == Fault /\ pc' = [pc EXCEPT ![c] = l] /\ UNCHANGED answer

WorkOn(c, u) == user' = [user EXCEPT ![c] = u]

\* The address in the form the table has it.
Email(c) == Lower[mail[c]]

\* First statement of each method.
Entry(o) == CASE o = "register" -> "lookup" [] o = "login" -> "find" [] o = "oauth" -> "exchange"

-----------------------------------------------------------------------------
(* Requests. *)

Call(c, o, m, g) ==
    /\ pc[c] = "idle" /\ o \in Calls[c]
    /\ op' = [op EXCEPT ![c] = o]
    /\ mail' = [mail EXCEPT ![c] = m]
    /\ sub' = [sub EXCEPT ![c] = g]
    /\ Goto(c, Entry(o))
    /\ UNCHANGED <<users, cred, conn, events, user>>

Begin(c) ==
    \/ \E m \in Typed, o \in {"register", "login"} : Call(c, o, m, Nothing)
    \/ \E g \in Sub : Call(c, "oauth", Nothing, g)

\* A client that was answered with an error calls the same method again.
Retry(c) ==
    /\ pc[c] = "done" /\ answer[c] = "error"
    /\ pc' = [pc EXCEPT ![c] = Entry(op[c])]
    /\ answer' = [answer EXCEPT ![c] = "none"]
    /\ WorkOn(c, Nothing)
    /\ UNCHANGED <<users, cred, conn, events, request, faults>>

-----------------------------------------------------------------------------
(* Register. *)

\* GetUserByEmail.  Its error is dropped: a failed look-up is no user.
Lookup(c) ==
    /\ pc[c] = "lookup"
    /\ \/ Email(c) \in users /\ Finish(c, "email_exists")
       \/ Email(c) \notin users /\ Goto(c, "create")
       \/ Ignore(c, "create")
    /\ UNCHANGED <<users, cred, conn, events, request, user>>

\* Mutants: the address is stored as it was spelled; an existing row is taken for
\* the one just made.
CreateUserAsSpelled(c) ==
    /\ pc[c] = "create"
    /\ users' = users \cup {mail[c]}
    /\ WorkOn(c, mail[c])
    /\ Goto(c, IF op[c] = "register" THEN "credential" ELSE "link")
    /\ UNCHANGED <<cred, conn, events, request>>

CreateUserUnchecked(c) ==
    /\ pc[c] = "create"
    /\ users' \in {users, users \cup {Email(c)}}
    /\ WorkOn(c, Email(c))
    /\ Goto(c, IF op[c] = "register" THEN "credential" ELSE "link")
    /\ UNCHANGED <<cred, conn, events, request>>

\* CreateUser, of Register and of OAuthGoogle.  uq_users_tenant_email refuses an
\* address that has a row; a write that fails may have been committed.
CreateUser(c) ==
    /\ pc[c] = "create"
    /\ \/ /\ Email(c) \notin users
          /\ users' = users \cup {Email(c)}
          /\ WorkOn(c, Email(c))
          /\ Goto(c, IF op[c] = "register" THEN "credential" ELSE "link")
       \/ /\ Email(c) \in users
          /\ Finish(c, "error")
          /\ UNCHANGED <<users, user>>
       \/ /\ users' \in {users, users \cup {Email(c)}}
          /\ Abort(c)
          /\ UNCHANGED user
    /\ UNCHANGED <<cred, conn, events, request>>

\* Mutant: the tokens are issued whether or not the password was stored.
CreateCredentialUnchecked(c) ==
    /\ pc[c] = "credential"
    /\ cred' \in {cred, [cred EXCEPT ![user[c]] = PasswordOf[c]]}
    /\ Goto(c, "issue")
    /\ UNCHANGED <<users, conn, events, request, user>>

\* CreateCredential, for the row that was just made.
CreateCredential(c) ==
    /\ pc[c] = "credential"
    /\ \/ cred' = [cred EXCEPT ![user[c]] = PasswordOf[c]] /\ Goto(c, "issue")
       \/ cred' \in {cred, [cred EXCEPT ![user[c]] = PasswordOf[c]]} /\ Abort(c)
    /\ UNCHANGED <<users, conn, events, request, user>>

-----------------------------------------------------------------------------
(* Login. *)

\* GetUserByEmail; an error is taken for an unknown user.
FindUser(c) ==
    /\ pc[c] = "find"
    /\ \/ Email(c) \in users /\ WorkOn(c, Email(c)) /\ Goto(c, "check")
       \/ Email(c) \notin users /\ Goto(c, "log_failure") /\ UNCHANGED user
       \/ Ignore(c, "log_failure") /\ UNCHANGED user
    /\ UNCHANGED <<users, cred, conn, events, request>>

\* Mutant: an account without a password is refused at once.
CheckPasswordFirst(c) ==
    /\ pc[c] = "check"
    /\ \/ cred[user[c]] = PasswordOf[c] /\ Goto(c, "log_success")
       \/ cred[user[c]] = Nothing /\ Finish(c, "invalid_credentials")
       \/ cred[user[c]] \notin {PasswordOf[c], Nothing} /\ Goto(c, "log_failure")
    /\ UNCHANGED <<users, cred, conn, events, request, user>>

\* GetCredentialByUserID and verifyPassword; an error is taken for no credential.
CheckPassword(c) ==
    /\ pc[c] = "check"
    /\ \/ cred[user[c]] = PasswordOf[c] /\ Goto(c, "log_success")
       \/ cred[user[c]] # PasswordOf[c] /\ Goto(c, "log_failure")
       \/ Ignore(c, "log_failure")
    /\ UNCHANGED <<users, cred, conn, events, request, user>>

\* Login takes the whole X-Forwarded-For for the client's address.  The INET
\* columns of login_events and sessions refuse a list.
BadAddress(c) == op[c] = "login" /\ c \in Forwarded

\* The metadata of an event has the address as it was given, quoted with %q; JSONB
\* refuses what is not JSON.
Refused(c) == BadAddress(c) \/ mail[c] \in Unquotable

\* The rows the INSERT of c's login event leaves if nothing fails.
Logged(c, type) ==
    IF Refused(c) THEN events ELSE [events EXCEPT ![c] = Append(@, type)]

\* logLoginEvent drops its error; a write that fails may have been committed.
LogFailure(c) ==
    /\ pc[c] = "log_failure"
    /\ \/ events' = Logged(c, "login_failure") /\ Finish(c, "invalid_credentials")
       \/ /\ events' \in {events, Logged(c, "login_failure")}
          /\ Fault /\ Return(c, "invalid_credentials")
    /\ UNCHANGED <<users, cred, conn, request, user>>

LogSuccess(c) ==
    /\ pc[c] = "log_success"
    /\ \/ events' = Logged(c, "login_success") /\ Goto(c, "issue")
       \/ events' \in {events, Logged(c, "login_success")} /\ Ignore(c, "issue")
    /\ UNCHANGED <<users, cred, conn, request, user>>

-----------------------------------------------------------------------------
(* OAuthGoogle. *)

\* The tenant is read and Google exchanges the code for the account's address.
Exchange(c) ==
    /\ pc[c] = "exchange"
    /\ \/ \E m \in GoogleMail[sub[c]] :
              mail' = [mail EXCEPT ![c] = m] /\ Goto(c, "connection")
       \/ Abort(c) /\ UNCHANGED mail
    /\ UNCHANGED <<users, cred, conn, events, op, sub, user>>

\* GetOAuthConnection; an error is taken for no connection.
FindConnection(c) ==
    /\ pc[c] = "connection"
    /\ \/ /\ conn[sub[c]] # Nothing
          /\ WorkOn(c, conn[sub[c]])
          /\ Goto(c, "load")
       \/ conn[sub[c]] = Nothing /\ Goto(c, "by_email") /\ UNCHANGED user
       \/ Ignore(c, "by_email") /\ UNCHANGED user
    /\ UNCHANGED <<users, cred, conn, events, request>>

\* GetUserByID of the connection's user: the foreign key says that it is there.
LoadUser(c) ==
    /\ pc[c] = "load"
    /\ Goto(c, "issue") \/ Abort(c)
    /\ UNCHANGED <<users, cred, conn, events, request, user>>

\* Mutant: an address that has an account is not linked to it.
RefuseKnownEmail(c) ==
    /\ pc[c] = "by_email"
    /\ \/ Email(c) \in users /\ Finish(c, "error")
       \/ Email(c) \notin users /\ Goto(c, "create")
    /\ UNCHANGED <<users, cred, conn, events, request, user>>

\* GetUserByEmail; an error is taken for no user.
FindByEmail(c) ==
    /\ pc[c] = "by_email"
    /\ \/ Email(c) \in users /\ WorkOn(c, Email(c)) /\ Goto(c, "link_existing")
       \/ Email(c) \notin users /\ Goto(c, "create") /\ UNCHANGED user
       \/ Ignore(c, "create") /\ UNCHANGED user
    /\ UNCHANGED <<users, cred, conn, events, request>>

Linked(c) == IF pc[c] = "link" THEN "log_success" ELSE "issue"

\* Mutants: a connection that is already there is good enough; a new user needs none.
LinkIfAbsent(c) ==
    /\ pc[c] \in {"link", "link_existing"}
    /\ conn' = [conn EXCEPT ![sub[c]] = IF @ = Nothing THEN user[c] ELSE @]
    /\ Goto(c, Linked(c))
    /\ UNCHANGED <<users, cred, events, request, user>>

LinkExistingOnly(c) ==
    /\ pc[c] \in {"link", "link_existing"}
    /\ IF pc[c] = "link_existing" /\ conn[sub[c]] = Nothing
         THEN conn' = [conn EXCEPT ![sub[c]] = user[c]]
         ELSE UNCHANGED conn
    /\ Goto(c, Linked(c))
    /\ UNCHANGED <<users, cred, events, request, user>>

\* CreateOAuthConnection, for the user found or the user made.
\* uq_oauth_tenant_provider_uid refuses a Google account that has a row.
Link(c) ==
    /\ pc[c] \in {"link", "link_existing"}
    /\ \/ /\ conn[sub[c]] = Nothing
          /\ conn' = [conn EXCEPT ![sub[c]] = user[c]]
          /\ Goto(c, Linked(c))
       \/ conn[sub[c]] # Nothing /\ Finish(c, "error") /\ UNCHANGED conn
       \/ /\ conn' \in {conn, [conn EXCEPT ![sub[c]] = IF @ = Nothing THEN user[c] ELSE @]}
          /\ Abort(c)
    /\ UNCHANGED <<users, cred, events, request, user>>

-----------------------------------------------------------------------------
\* issueAuthResponse for user[c]; the answer may be lost.
Issue(c) ==
    /\ pc[c] = "issue"
    /\ \/ ~BadAddress(c) /\ Finish(c, "tokens")
       \/ BadAddress(c) /\ Finish(c, "error")
       \/ Abort(c)
    /\ UNCHANGED <<users, cred, conn, events, request, user>>

Step(c) ==
    \/ Lookup(c) \/ CreateUser(c) \/ CreateCredential(c)
    \/ FindUser(c) \/ CheckPassword(c) \/ LogFailure(c) \/ LogSuccess(c)
    \/ Exchange(c) \/ FindConnection(c) \/ LoadUser(c) \/ FindByEmail(c) \/ Link(c)
    \/ Issue(c)

Rest ==
    /\ \A c \in Client : pc[c] = "done" /\ answer[c] # "error"
    /\ UNCHANGED vars

Next == (\E c \in Client : Begin(c) \/ Step(c) \/ Retry(c)) \/ Rest

Spec == Init /\ [][Next]_vars

\* A handler has its own goroutine and every statement returns; a client that was
\* told of an error tries again.
FairSpec == Spec /\ \A c \in Client : WF_vars(Step(c)) /\ WF_vars(Retry(c))

-----------------------------------------------------------------------------
(* Properties. *)

\* Every variable has its type; passwords and connections belong to existing users,
\* as the foreign keys of 000001_init.up.sql demand.
TypeOK ==
    /\ users \subseteq Address
    /\ cred \in [Address -> Password \cup {Nothing}]
    /\ conn \in [Sub -> users \cup {Nothing}]
    /\ \A u \in Address : cred[u] # Nothing => u \in users
    /\ events \in EventLogs
    /\ op \in [Client -> {"none", "register", "login", "oauth"}]
    /\ mail \in [Client -> Address \cup {Nothing}]
    /\ sub \in [Client -> Sub \cup {Nothing}]
    /\ user \in [Client -> users \cup {Nothing}]
    /\ answer \in [Client -> {"none", "tokens", "error", "email_exists",
                              "invalid_credentials"}]
    /\ faults \in 0..MaxFaults

\* However an address is spelled, and whichever of the two ways of signing up race,
\* it has one account (auth_service.go:82, :92, :156, :172).
OneAccountPerAddress ==
    \A u, v \in users : Lower[u] = Lower[v] => u = v

\* Who was given tokens for signing up has an account with the password of that
\* request, even when other requests sign up under the same address meanwhile
\* (auth_service.go:82-101).
RegisteredCanLogIn ==
    \A c \in Client : op[c] = "register" /\ answer[c] = "tokens" =>
        cred[Email(c)] = PasswordOf[c]

\* A Google account leads to one account of the tenant for good: all its sign-ins
\* that were answered with tokens, concurrent or repeated after a failure or under
\* a changed address, are for the user its connection names (auth_service.go:147-191).
GoogleAccountIsOneUser ==
    \A c \in Client : op[c] = "oauth" /\ answer[c] = "tokens" =>
        user[c] = conn[sub[c]]

\* Nobody is shut out: without failures, when no request is running, every account
\* has a password or a Google account to sign in with, save one made under a new
\* address of a Google account that had another one before (auth_service.go:92-99,
\* :172-188).
EveryAccountHasAKey ==
    faults = 0 /\ (\A c \in Client : pc[c] \in {"idle", "done"}) =>
        \A u \in users :
            \/ cred[u] # Nothing
            \/ \E g \in Sub : conn[g] = u
            \/ \E g \in Sub : conn[g] # Nothing /\ u \in {Lower[m] : m \in GoogleMail[g]}

\* Whatever requests meet or fail half way, the three tables are an AccountDirectory:
\* a second sign-up never replaces a password, a Google account is never moved, and
\* tokens are for the account whose key the request had (auth_service.go:76-192).
Admission(c) ==
    IF answer[c] = "tokens"
    THEN [account |-> user[c], key |-> IF op[c] = "oauth" THEN sub[c] ELSE PasswordOf[c]]
    ELSE Nothing

Directory ==
    INSTANCE AccountDirectory WITH
        Name <- Address, Secret <- Password,
        accounts <- users, password <- cred, owner <- conn,
        admitted <- [c \in Client |-> Admission(c)]

ImplementsDirectory == Directory!Spec

\* The risk engine and the metrics count login events.  A login whose row can be stored
\* and that was answered with tokens or a refusal has left one, save that each failure
\* may have lost one or doubled one: a lost write, a lost answer that is repeated.
\* Without failures it is the one that says what the answer said (auth_service.go:
\* 103-129, :340-357).
LoginsAreLogged ==
    \A c \in Client :
        op[c] = "login" /\ pc[c] = "done" /\ answer[c] # "error" /\ ~Refused(c) =>
            /\ Len(events[c]) \in (1 - faults)..(1 + faults)
            /\ faults = 0 =>
                   events[c] = <<IF answer[c] = "tokens" THEN "login_success"
                                                         ELSE "login_failure">>

\* "Login Attempt -> Auth Service processes login -> Insert into login_events table"
\* (architecture.md:205-207): without failures every login that was answered has left
\* an event.
LoginAttemptsInserted ==
    faults = 0 =>
        \A c \in Client : op[c] = "login" /\ pc[c] = "done" => events[c] # <<>>

\* Signing in with Google heals what an earlier attempt left half done: a client that
\* repeats it is signed in in the end (auth_service.go:156-170).
GoogleSignInHeals ==
    \A c \in Client : op[c] = "oauth" ~> op[c] = "oauth" /\ answer[c] = "tokens"
=============================================================================
