SPECIFICATION Spec
CONSTANTS
    r1 = r1  r2 = r2
    Req <- Requests
    Inputs <- Documented
    MaxFaults = 0
    MaxStops = 0
INVARIANT EndpointsAreServed
