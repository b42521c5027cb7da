\* Writers racing for one object, with a poller, an agent or a third writer.
CONSTANTS
    Calendars = {c1}
    Uids = {u1, u2}
    Users = {alice}
    NoUser = NoUser
    Created = {c1}
    Faults = {"unread"}
    Requests = {r1, r2, r3}
    Tasks <- Writers
    Exclusive = FALSE
    Readers = {k1}
    Crowd = 3
    BodyLimit = 1
    QueryLimit = 1
SPECIFICATION FairPollingSpec
INVARIANTS PollingTypeOK LogBalance MutationsLogged CurrentCtagMeansCurrentCopy
PROPERTIES EventuallyPolled
CHECK_DEADLOCK FALSE
