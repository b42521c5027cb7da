\* Two conditional PUTs with one etag.
CONSTANTS
    Calendars = {c1}
    Uids = {u1}
    Users = {alice}
    NoUser = NoUser
    Created = {c1}
    Faults = {}
    Requests = {r1, r2, r3}
    Tasks <- PutTasks
    Exclusive = FALSE
SPECIFICATION UndisturbedSpec
PROPERTIES NoLostUpdate
CHECK_DEADLOCK FALSE
