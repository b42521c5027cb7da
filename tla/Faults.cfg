\* Requests of every kind, on objects and on calendars, and a report, with every fault.
CONSTANTS
    Calendars = {c1, c2}
    Uids = {u1}
    Users = {alice, bob}
    NoUser = NoUser
    Created = {c1}
    Faults = {"drop", "error", "unread", "lose"}
    Requests = {r1}
    Tasks <- EveryKind
    Exclusive = FALSE
    Clients = {k1}
    ReportLimit = 99
    Managers = {m1, m2, m3}
    CollectionTasks <- EveryCollectionKind
    Fields = {name}
SPECIFICATION CrowdedSpec
SYMMETRY ManagerSymmetry
INVARIANTS ServerTypeOK NoOrphans DeltaIsWholeLog OneCreationPerLifetime
PROPERTIES TokensNotReused
CHECK_DEADLOCK FALSE
