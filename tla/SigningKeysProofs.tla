------------------------- MODULE SigningKeysProofs -------------------------
(***************************************************************************)
(* Proofs about SigningKeys for every number of requests and tenants and   *)
(* any number of failing statements.                                       *)
(***************************************************************************)
EXTENDS SigningKeys, FiniteSetTheorems, TLAPS

-----------------------------------------------------------------------------
(* The inductive invariant. *)

\* A key pair is dated before its row is inserted, and no date lies ahead of the
\* clock.
Dated ==
    /\ \A r \in Req : pc[r] = "insert" => createdAt[r] > 0
    /\ \A k \in Req : createdAt[k] < clock

IInv == TypeOK /\ Dated /\ TokensVerifiable

-----------------------------------------------------------------------------
\* No key, token or request is there at the start.
LEMMA InitIInv == Init => IInv
  BY SigningConstants DEF Init, IInv, TypeOK, Dated, TokensVerifiable

\* A key that was read is a row of its tenant (signing_key_repo.go:21-36).
LEMMA ActiveKeyIsRow ==
    ASSUME NEW t \in Tenant, NEW k \in ActiveKey(t)
    PROVE  k \in keys /\ tenant[k] = t
  BY DEF ActiveKey, KeysOf

\* Every step of manager.go keeps the invariant.
LEMMA StepIInv == IInv /\ [Next]_vars => IInv'
  <1> SUFFICES ASSUME IInv, [Next]_vars PROVE IInv'
    OBVIOUS
  <1> USE SigningConstants DEF IInv, TypeOK, Dated, TokensVerifiable, AllActiveKeys,
        KeysOf, Goto, Fault, Jump
  <1>1. ASSUME NEW r \in Req, BeginToken(r) PROVE IInv'
    BY <1>1 DEF BeginToken
  <1>2. ASSUME NEW r \in Req, Ensure(r) PROVE IInv'
    BY <1>2 DEF Ensure
  <1>3. ASSUME NEW r \in Req, GenerateKey(r) PROVE IInv'
    BY <1>3 DEF GenerateKey
  <1>4. ASSUME NEW r \in Req, CreateSigningKey(r) PROVE IInv'
    BY <1>4 DEF CreateSigningKey
  <1>5. ASSUME NEW r \in Req, Sign(r) PROVE IInv'
    <2>1. ASSUME NEW k \in ActiveKey(tenant[r]), kid' = [kid EXCEPT ![r] = k],
                 Goto(r, "token")
          PROVE  IInv'
      <3>1. k \in keys /\ tenant[k] = tenant[r] /\ k \in Req
        BY ActiveKeyIsRow
      <3> QED
        BY <1>5, <2>1, <3>1 DEF Sign
    <2>2. CASE Fault(r, "failed") /\ UNCHANGED kid
      BY <1>5, <2>2 DEF Sign
    <2> QED
      BY <1>5, <2>1, <2>2 DEF Sign
  <1>6. ASSUME NEW r \in Req, ServeJWKS(r) PROVE IInv'
    BY <1>6 DEF ServeJWKS
  <1>7. CASE Rest \/ UNCHANGED vars
    BY <1>7 DEF Rest, vars
  <1> QED
    BY <1>1, <1>2, <1>3, <1>4, <1>5, <1>6, <1>7 DEF Next

\* The invariant holds in every reachable state.
LEMMA Invariance == Spec => []IInv
  BY InitIInv, StepIInv, PTL DEF Spec

-----------------------------------------------------------------------------
\* Every variable keeps its type and only generated keys have rows
\* (manager.go:146-166).
THEOREM TypeCorrect == Spec => []TypeOK
  <1>1. IInv => TypeOK
    BY DEF IInv
  <1> QED
    BY <1>1, Invariance, PTL

\* The key set verifies every token issued and holds no other tenant's key
\* (architecture.md:188, manager.go:113-137).
THEOREM AlwaysVerifiable == Spec => []TokensVerifiable
  <1>1. IInv => TokensVerifiable
    BY DEF IInv
  <1> QED
    BY <1>1, Invariance, PTL

\* A key set fetched now has the key of every token issued before
\* (manager.go:113-137).
THEOREM FetchedKeySetVerifies == Spec => FreshKeySetVerifies
  <1> DEFINE Fresh ==
        \A r, s \in Req :
            /\ pc[r] = "idle" /\ pc'[r] = "jwks"
            /\ pc[s] = "token" /\ tenant[s] = tenant[r]
            => kid[s] \in jwks'[r]
  <1>1. ASSUME IInv, Next, NEW r \in Req, NEW s \in Req,
               pc[r] = "idle", pc'[r] = "jwks", pc[s] = "token", tenant[s] = tenant[r]
        PROVE  kid[s] \in jwks'[r]
    <2>0. pc \in [Req -> {"idle", "ensure", "generate", "insert", "select",
                          "token", "jwks", "failed"}] /\ jwks \in [Req -> SUBSET Req]
      BY <1>1 DEF IInv, TypeOK
    <2>1. ServeJWKS(r)
      BY <1>1, <2>0 DEF Next, BeginToken, Ensure, GenerateKey, CreateSigningKey, Sign,
          ServeJWKS, Rest, Goto, Fault, Jump, vars
    <2>2. jwks'[r] = AllActiveKeys(tenant[r])
      BY <1>1, <2>0, <2>1 DEF ServeJWKS, Fault, Jump
    <2> QED
      BY <1>1, <2>2 DEF IInv, TokensVerifiable
  <1>2. UNCHANGED vars => Fresh
    BY DEF vars
  <1>3. IInv /\ [Next]_vars => [Fresh]_vars
    BY <1>1, <1>2
  <1> QED
    BY <1>3, Invariance, PTL DEF Spec, FreshKeySetVerifies

-----------------------------------------------------------------------------
(* How many keys a tenant may have. *)

\* Requests that have a key, or are about to, although one was stored when they came.
Misled ==
    {r \in Req : /\ pc[r] \in {"generate", "insert"} \/ r \in keys
                 /\ \E j \in before[r] : j \in KeysOf(tenant[r])}

\* Only a failed look-up misleads a request.
Counted ==
    /\ \A r \in Req : \A j \in before[r] : pc[j] \in Over
    /\ \A r \in Req : pc[r] \in {"idle", "ensure"} => r \notin keys
    /\ IsFiniteSet(Misled) /\ Cardinality(Misled) <= faults

\* One element more makes a set larger by one at most.
LEMMA OneElement ==
    ASSUME NEW S, IsFiniteSet(S), NEW x
    PROVE  /\ IsFiniteSet(S \cup {x}) /\ Cardinality(S) \in Nat
           /\ Cardinality(S \cup {x}) <= Cardinality(S) + 1
  <1>1. /\ IsFiniteSet(S \cup {x})
        /\ Cardinality(S \cup {x}) = IF x \in S THEN Cardinality(S) ELSE Cardinality(S) + 1
    BY FS_AddElement
  <1>2. Cardinality(S) \in Nat
    BY FS_CardinalityType
  <1> QED
    BY <1>1, <1>2

\* A step that misleads one request at most, in a failure, keeps the count.
LEMMA OneMore ==
    ASSUME IsFiniteSet(Misled), Cardinality(Misled) <= faults, faults \in Nat, faults' \in Nat,
           NEW r, \/ Misled' \subseteq Misled /\ faults' >= faults
                  \/ Misled' \subseteq Misled \cup {r} /\ faults' = faults + 1
    PROVE  IsFiniteSet(Misled') /\ Cardinality(Misled') <= faults'
  <1>1. /\ IsFiniteSet(Misled \cup {r}) /\ Cardinality(Misled) \in Nat
        /\ Cardinality(Misled \cup {r}) <= Cardinality(Misled) + 1
    BY OneElement
  <1>2. CASE Misled' \subseteq Misled /\ faults' >= faults
    <2>1. IsFiniteSet(Misled') /\ Cardinality(Misled') <= Cardinality(Misled)
      BY <1>2, FS_Subset
    <2>2. Cardinality(Misled') \in Nat
      BY <2>1, FS_CardinalityType
    <2> QED
      BY <1>1, <1>2, <2>1, <2>2
  <1>3. CASE Misled' \subseteq Misled \cup {r} /\ faults' = faults + 1
    <2>1. IsFiniteSet(Misled') /\ Cardinality(Misled') <= Cardinality(Misled \cup {r})
      BY <1>1, <1>3, FS_Subset
    <2>2. Cardinality(Misled') \in Nat /\ Cardinality(Misled \cup {r}) \in Nat
      BY <1>1, <2>1, FS_CardinalityType
    <2> QED
      BY <1>1, <1>3, <2>1, <2>2
  <1> QED
    BY <1>2, <1>3

\* No request is misled at the start.
LEMMA InitCounted == Init => Counted
  <1> SUFFICES ASSUME Init PROVE Counted
    OBVIOUS
  <1>1. Misled = {}
    BY DEF Init, Misled
  <1> QED
    BY <1>1, FS_EmptySet DEF Init, Counted

\* Every step keeps the count: a request looks for a key before it makes one
\* (manager.go:140-166).
LEMMA StepCounted == IInv /\ Counted /\ [Next]_vars => Counted'
  <1> SUFFICES ASSUME IInv, Counted, [Next]_vars PROVE Counted'
    OBVIOUS
  <1> USE SigningConstants DEF IInv, TypeOK, Over, KeysOf, Goto, Fault, Jump
  <1>1. ASSUME NEW r \in Req, BeginToken(r) PROVE Counted'
    <2>1. Misled' \subseteq Misled
      BY <1>1 DEF Counted, BeginToken, Misled
    <2>2. faults' = faults
      BY <1>1 DEF BeginToken
    <2> QED
      BY <1>1, <2>1, <2>2, OneMore DEF Counted, BeginToken
  <1>2. ASSUME NEW r \in Req, Ensure(r) PROVE Counted'
    <2>1. \/ Misled' \subseteq Misled /\ faults' = faults
          \/ Misled' \subseteq Misled \cup {r} /\ faults' = faults + 1
      BY <1>2 DEF Counted, Ensure, Misled
    <2>2. IsFiniteSet(Misled') /\ Cardinality(Misled') <= faults'
      BY <2>1, OneMore DEF Counted
    <2> QED
      BY <1>2, <2>2 DEF Counted, Ensure
  <1>3. ASSUME NEW r \in Req, GenerateKey(r) PROVE Counted'
    <2>1. Misled' \subseteq Misled
      BY <1>3 DEF Counted, GenerateKey, Misled
    <2>2. faults' = faults
      BY <1>3 DEF GenerateKey
    <2> QED
      BY <1>3, <2>1, <2>2, OneMore DEF Counted, GenerateKey
  <1>4. ASSUME NEW r \in Req, CreateSigningKey(r) PROVE Counted'
    <2>1. Misled' \subseteq Misled
      BY <1>4 DEF Counted, CreateSigningKey, Misled
    <2>2. faults' >= faults
      BY <1>4 DEF CreateSigningKey
    <2> QED
      BY <1>4, <2>1, <2>2, OneMore DEF Counted, CreateSigningKey
  <1>5. ASSUME NEW r \in Req, Sign(r) \/ ServeJWKS(r) PROVE Counted'
    <2>1. Misled' \subseteq Misled
      BY <1>5 DEF Counted, Sign, ServeJWKS, Misled
    <2>2. faults' >= faults
      BY <1>5 DEF Sign, ServeJWKS
    <2> QED
      BY <1>5, <2>1, <2>2, OneMore DEF Counted, Sign, ServeJWKS
  <1>6. CASE Rest \/ UNCHANGED vars
    <2>1. UNCHANGED vars
      BY <1>6 DEF Rest
    <2>2. Misled' = Misled
      BY <2>1 DEF vars, Misled
    <2> QED
      BY <2>1, <2>2 DEF vars, Counted
  <1> QED
    BY <1>1, <1>2, <1>3, <1>4, <1>5, <1>6 DEF Next

\* Keys made one after the other are at most one more than the failures
\* (manager.go:140-166).
THEOREM KeysPerFailure == Spec => []KeysAreAccountedFor
  <1>1. ASSUME IInv, Counted PROVE KeysAreAccountedFor
    <2> SUFFICES ASSUME NEW t \in Tenant, NEW ks \in SUBSET KeysOf(t),
                        \A j, k \in ks : j # k => Apart(j, k)
                 PROVE  Cardinality(ks) <= 1 + faults
      BY DEF KeysAreAccountedFor
    <2>1. ASSUME NEW j \in ks, NEW k \in ks, j # k PROVE j \in Misled \/ k \in Misled
      BY <1>1, <2>1 DEF Apart, Misled, KeysOf, IInv, TypeOK
    <2>2. /\ IsFiniteSet(Misled) /\ Cardinality(Misled) \in Nat
          /\ Cardinality(Misled) <= faults /\ faults \in Nat
      BY <1>1, SigningConstants, FS_CardinalityType DEF Counted, IInv, TypeOK
    <2>3. PICK m : ks \subseteq Misled \cup {m}
      BY <2>1
    <2>4. /\ IsFiniteSet(Misled \cup {m})
          /\ Cardinality(Misled \cup {m}) <= Cardinality(Misled) + 1
      BY <2>2, OneElement
    <2>5. /\ IsFiniteSet(ks) /\ Cardinality(ks) <= Cardinality(Misled \cup {m})
          /\ Cardinality(ks) \in Nat /\ Cardinality(Misled \cup {m}) \in Nat
      BY <2>3, <2>4, FS_Subset, FS_CardinalityType
    <2> QED
      BY <2>2, <2>4, <2>5
  <1> QED
    BY <1>1, Invariance, InitCounted, StepCounted, PTL DEF Spec
=============================================================================
