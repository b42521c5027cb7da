\* Simple-mode calls one after the other.
CONSTANTS
    Calendars = {c1, c2, d1, d2}
    Uids = {u1, u2}
    Users = {alice, bob}
    NoUser = NoUser
    Created = {c1, c2}
    Faults = {}
    Requests = {r1, r2, r3}
    Tasks <- Unresolved
    Exclusive = TRUE
    Rank <- Names
    Defaults = {d1, d2}
    Listing = {r2}
    Limits = {1, 2}
SPECIFICATION SimpleSpec
INVARIANTS OneDefaultCalendar
PROPERTIES AddedIsListed
CHECK_DEADLOCK FALSE
