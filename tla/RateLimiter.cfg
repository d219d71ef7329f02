SPECIFICATION Spec
CONSTANTS
    r1 = r1  r2 = r2  r3 = r3  a1 = a1  a2 = a2  a3 = a3  t1 = t1
    Req <- Requests
    Addr <- Addresses
    Tenant <- Tenants
    NoTenant = NoTenant
    IpLimit = 1
    TenantLimit = 2
    Window = 2
    Ttl = 3
    MaxDelay = 1
    LastArrival = 2
    MaxTime = 5
    MaxFaults = 2
SYMMETRY Symmetry
INVARIANTS WindowCap NoEarlyRejection AddressCannotExhaustTenant CountersVanish
