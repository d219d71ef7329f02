SPECIFICATION Spec
CONSTANTS
    c1 = c1  simulation = simulation  user = user  other = other
    home = home  away = away  near = near  far = far  here = here  there = there
    print = print
    Evaluation <- Evaluations
    Simulator = simulation
    User <- Users
    Address <- Addresses
    Country <- Countries
    Place <- Places
    SimUser = sim_user
    Fingerprint <- Prints
    None = None
    Logins <- LoginRows
    Histories <- HistoryRows
    Registrations <- DeviceRows
    Schemas <- Databases
    Flight <- FlightHours
    SuspiciousAfter = 1
    StartHour = 20
    Step = 6
    MaxTime = 1
    MaxRows = 3
    MaxAttempts = 2
    MaxFaults = 1
    MaxCalls = 1
INVARIANTS NoRecordIsLow BlockNeedsRecord IpSignalJustified FamiliarIsLow
