\* Writers that take turns on an object, and a client that keeps polling.
CONSTANTS
    Calendars = {c1}
    Uids = {u1, u2}
    Users = {alice, bob}
    NoUser = NoUser
    Created = {c1}
    Faults = {}
    Requests = {r1, r2, r3}
    Tasks <- CalDavTasks
    Exclusive = TRUE
    Clients = {k1}
    ReportLimit = 99
SPECIFICATION MCSyncSpec
INVARIANTS LogAgreesWithRows CurrentTokenMeansCurrentCopy
PROPERTIES ImplementsAtomicObjects EventuallyMirrored Answered
