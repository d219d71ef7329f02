---------------------------- MODULE SigningKeys ----------------------------
(***************************************************************************)
(* Signing keys of auth-service: GenerateAccessToken, EnsureSigningKey and *)
(* GetJWKS of internal/jwt/manager.go over the table signing_keys.         *)
(*                                                                         *)
(* A request for an access token looks for an active key, makes one if the *)
(* look-up returns any error at all, looks again and signs.  No key is     *)
(* ever deactivated.  A key is named by the request that generated it.     *)
(***************************************************************************)
EXTENDS Naturals, FiniteSets

CONSTANTS
    Req,        \* requests that issue an access token or fetch the JWKS
    Tenant,
    NoKey,      \* no key was read
    MaxFaults   \* bound on failed statements

ASSUME SigningConstants ==
    /\ NoKey \notin Req
    /\ MaxFaults \in Nat

VARIABLES
    tenant,     \* tenant[r]: the tenant request r is for
    pc,         \* pc[r]: the next step of request r
    keys,       \* rows of signing_keys, all with is_active = true
    createdAt,  \* createdAt[k]: when the key pair k was generated; 0 if it was not
    clock,      \* the next creation time
    kid,        \* kid[r]: the key that signed the token r was answered with
    jwks,       \* jwks[r]: the keys r was answered with
    faults,     \* failed statements so far
    before      \* before[r]: the requests that were over when r asked for a token; a
                \* record of their order, which no guard reads

vars == <<tenant, pc, keys, createdAt, clock, kid, jwks, faults, before>>

Init ==
    /\ tenant \in [Req -> Tenant]
    /\ pc = [r \in Req |-> "idle"]
    /\ keys = {}
    /\ createdAt = [r \in Req |-> 0]
    /\ clock = 1
    /\ kid = [r \in Req |-> NoKey]
    /\ jwks = [r \in Req |-> {}]
    /\ faults = 0
    /\ before = [r \in Req |-> {}]

-----------------------------------------------------------------------------
\* A request is over when it was answered.
Over == {"token", "jwks", "failed"}

KeysOf(t) == {k \in keys : tenant[k] = t}

\* Mutant: the SELECT forgets the tenant.
NewestOfAll(t) == {k \in keys : \A j \in keys : createdAt[j] <= createdAt[k]}

\* GetActiveSigningKey: ORDER BY created_at DESC LIMIT 1, none if there is no row.
ActiveKey(t) == {k \in KeysOf(t) : \A j \in KeysOf(t) : createdAt[j] <= createdAt[k]}

\* GetAllActiveKeys.
AllActiveKeys(t) == KeysOf(t)

\* A step that goes as it should, and one whose statement fails.
Jump(r, l) == pc' = [pc EXCEPT ![r] = l]
Goto(r, l) == Jump(r, l) /\ UNCHANGED faults
Fault(r, l) == faults < MaxFaults /\ faults' = faults + 1 /\ Jump(r, l)

-----------------------------------------------------------------------------
\* issueAuthResponse and RefreshToken call GenerateAccessToken.
BeginToken(r) ==
    /\ pc[r] = "idle"
    /\ before' = [before EXCEPT ![r] = {q \in Req : pc[q] \in Over}]
    /\ Goto(r, "ensure")
    /\ UNCHANGED <<tenant, keys, createdAt, clock, kid, jwks>>

\* Mutant: a key is generated for every token.
EnsureAlways(r) ==
    /\ pc[r] = "ensure"
    /\ Goto(r, "generate")
    /\ UNCHANGED <<tenant, keys, createdAt, clock, kid, jwks, before>>

\* EnsureSigningKey's SELECT, whose LIMIT 1 returns a row where there is one.  A
\* failed statement is taken for a missing key.
Ensure(r) ==
    /\ pc[r] = "ensure"
    /\ \/ KeysOf(tenant[r]) # {} /\ Goto(r, "select")
       \/ KeysOf(tenant[r]) = {} /\ Goto(r, "generate")
       \/ Fault(r, "generate")
    /\ UNCHANGED <<tenant, keys, createdAt, clock, kid, jwks, before>>

\* rsa.GenerateKey takes its time; then the row is built with time.Now().
GenerateKey(r) ==
    /\ pc[r] = "generate"
    /\ createdAt' = [createdAt EXCEPT ![r] = clock]
    /\ clock' = clock + 1
    /\ Goto(r, "insert")
    /\ UNCHANGED <<tenant, keys, kid, jwks, before>>

\* CreateSigningKey.
CreateSigningKey(r) ==
    /\ pc[r] = "insert"
    /\ \/ keys' = keys \cup {r} /\ Goto(r, "select")
       \/ keys' \in {keys, keys \cup {r}} /\ Fault(r, "failed")
    /\ UNCHANGED <<tenant, createdAt, clock, kid, jwks, before>>

\* GenerateAccessToken's own SELECT, and the signature with the key it returned.
\* There is a row: the step before found or made one and no row is ever removed.
Sign(r) ==
    /\ pc[r] = "select"
    /\ \/ \E k \in ActiveKey(tenant[r]) :
            kid' = [kid EXCEPT ![r] = k] /\ Goto(r, "token")
       \/ Fault(r, "failed") /\ UNCHANGED kid
    /\ UNCHANGED <<tenant, keys, createdAt, clock, jwks, before>>

\* GET /auth/jwks.
ServeJWKS(r) ==
    /\ pc[r] = "idle"
    /\ \/ jwks' = [jwks EXCEPT ![r] = AllActiveKeys(tenant[r])] /\ Goto(r, "jwks")
       \/ Fault(r, "failed") /\ UNCHANGED jwks
    /\ UNCHANGED <<tenant, keys, createdAt, clock, kid, before>>

\* Nothing is left to do in the bounded instance.
Rest == (\A r \in Req : pc[r] \in Over) /\ UNCHANGED vars

Next ==
    \/ \E r \in Req :
        \/ BeginToken(r) \/ Ensure(r) \/ GenerateKey(r) \/ CreateSigningKey(r)
        \/ Sign(r) \/ ServeJWKS(r)
    \/ Rest

Spec == Init /\ [][Next]_vars

-----------------------------------------------------------------------------
(* Properties. *)

\* Every variable has its type; only generated keys have a row
\* (manager.go:146-166).
TypeOK ==
    /\ tenant \in [Req -> Tenant]
    /\ pc \in [Req -> {"idle", "ensure", "generate", "insert", "select",
                       "token", "jwks", "failed"}]
    /\ keys \subseteq {k \in Req : createdAt[k] > 0}
    /\ createdAt \in [Req -> Nat]
    /\ clock \in Nat \ {0}
    /\ kid \in [Req -> Req \cup {NoKey}]
    /\ jwks \in [Req -> SUBSET Req]
    /\ faults \in 0..MaxFaults
    /\ before \in [Req -> SUBSET Req]

\* "Old keys remain in JWKS for token verification until all issued tokens expire"
\* (architecture.md:188): whatever keys concurrent or failing requests add, the key
\* set served now verifies every token ever issued for the tenant, and holds no
\* other tenant's key.
TokensVerifiable ==
    \A r \in Req : pc[r] = "token" =>
        /\ kid[r] \in AllActiveKeys(tenant[r])
        /\ tenant[kid[r]] = tenant[r]

\* A client that meets an unknown kid fetches the key set again.  Whatever was
\* created in the meantime, the key set it is answered with holds the key of every
\* token issued for the tenant until then (manager.go:113-137).
FreshKeySetVerifies ==
    [][\A r, s \in Req :
        /\ pc[r] = "idle" /\ pc'[r] = "jwks"
        /\ pc[s] = "token" /\ tenant[s] = tenant[r]
        => kid[s] \in jwks'[r]]_vars

\* One of the two requests was over when the other began.
Apart(j, k) == j \in before[k] \/ k \in before[j]

\* A tenant needs one key.  Any number of requests that run at the same time may each
\* make one, and so may a request whose look-up fails and is taken for "no key"; but of
\* keys whose requests came one after the other a tenant has at most one more than
\* statements failed (manager.go:140-166).
KeysAreAccountedFor ==
    \A t \in Tenant : \A ks \in SUBSET KeysOf(t) :
        (\A j, k \in ks : j # k => Apart(j, k)) => Cardinality(ks) <= 1 + faults
=============================================================================
