SPECIFICATION Spec
CONSTANTS
    r1 = r1  r2 = r2
    Req <- Requests
    Inputs <- Samples
    MaxFaults = 1
    MaxStops = 1
INVARIANTS DrainedIsTold WritesRunOnce UncountedOnlyInLapse
PROPERTY EveryRequestEnds
