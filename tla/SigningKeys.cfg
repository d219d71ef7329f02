SPECIFICATION Spec
CONSTANTS
    r1 = r1  r2 = r2  r3 = r3  r4 = r4  t1 = t1  t2 = t2
    Req <- Requests
    Tenant <- Tenants
    NoKey = NoKey
    MaxFaults = 2
SYMMETRY Symmetry
INVARIANTS TokensVerifiable KeysAreAccountedFor
