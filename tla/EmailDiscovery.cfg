\* One client, which may be without credentials.
CONSTANTS
    Names = {ann, bea}
    NoName = NoName
    Emails = {ann, NoName}
    Passwords = {p, q}
    Commands = {k1}
    Content = Content
    Unauthenticated = Unauthenticated
    Walkers = {w}
    Login = ann
    Password = p
SPECIFICATION DiscoverySpec
INVARIANTS NoListWithoutCredentials
CHECK_DEADLOCK FALSE
