SPECIFICATION Spec
CONSTANTS
    r1 = r1  r2 = r2  r3 = r3  r4 = r4  r5 = r5
    NoToken = NoToken
    Req <- Req4
    TTL = 1
    MaxTime = 2
    MaxFaults = 0
SYMMETRY Symmetry4
INVARIANT ReplayAnswerMeansRevoked
