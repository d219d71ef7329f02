SPECIFICATION FairSpec
CONSTANTS
    c1 = c1  c2 = c2  c3 = c3  g = g
    Client <- Clients
    Calls <- Methods
    Address <- Addresses
    Typed = {"A", "b"}
    Lower <- LowerCase
    Password = {"p", "q"}
    PasswordOf <- Passwords
    Forwarded = {c3}
    Unquotable = {"b"}
    Sub = {g}
    GoogleMail <- Mailboxes
    Nothing = Nothing
    MaxFaults = 1
INVARIANTS OneAccountPerAddress RegisteredCanLogIn GoogleAccountIsOneUser EveryAccountHasAKey LoginsAreLogged
PROPERTIES GoogleSignInHeals ImplementsDirectory
