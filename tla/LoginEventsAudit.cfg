SPECIFICATION Spec
CONSTANTS
    l1 = l1  l2 = l2  l3 = l3  a1 = a1  m1 = m1
    Op <- ToolOps
    call <- Calls
    Tenant <- Tenants
    NoUser = "none"
    NoAddress = "none"
    Window = 1
    Limit = 1
    MaxTime = 1
    MaxFaults = 0
INVARIANT AllActionsLogged
