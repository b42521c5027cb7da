\* One client, two commands, names that serve as usernames and emails.
CONSTANTS
    Names = {ann, bea}
    NoName = NoName
    Emails = {ann, NoName}
    Passwords = {p, q}
    Commands = {k1, k2}
    Content = Content
    Unauthenticated = Unauthenticated
    Walkers = {w}
    Login = ann
    Password = p
SPECIFICATION FairDiscoverySpec
INVARIANTS DiscoveryTypeOK CreatedOnce ServedAccountNamed UsernameLoginWorks OwnCalendarFound
PROPERTIES DiscoveryEnds
CHECK_DEADLOCK FALSE
