SPECIFICATION FairSpec
CONSTANTS
    c1 = c1  c2 = c2
    Client <- Clients
    DefaultPolicy <- Defaults
    Keep = Keep
    NoRow = NoRow
    Patches <- Updates
    Passwords <- PasswordsAsked
    Scores <- ScoresAsked
    MaxFaults = 1
INVARIANT LongEnoughPasses
PROPERTIES ImplementsPolicyRegister NoLostUpdate DecidedOnTheRow EventuallyServed
