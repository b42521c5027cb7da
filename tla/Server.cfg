\* The calendar is deleted and created under its writers and its mirror.
CONSTANTS
    Calendars = {c1}
    Uids = {u1, u2}
    Users = {alice}
    NoUser = NoUser
    Created = {c1}
    Faults = {"lose"}
    Requests = {r1, r2}
    Tasks <- CalDavTasks
    Exclusive = TRUE
    Clients = {k1}
    ReportLimit = 99
    Managers = {m1, m2}
    CollectionTasks <- Lifecycle
    Fields = {name}
SPECIFICATION ServerSpec
SYMMETRY ServerSymmetry
INVARIANTS CurrentTokenMissesNothing AnswersOwnEtag
