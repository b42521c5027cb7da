\* A delta report on a calendar that has not changed.
CONSTANTS
    Calendars = {c1}
    Uids = {u1}
    Users = {alice}
    NoUser = NoUser
    Created = {c1}
    Faults = {}
    Requests = {r1}
    Tasks <- CalDavTasks
    Exclusive = FALSE
    Clients = {k1}
    ReportLimit = 99
SPECIFICATION SyncSpec
INVARIANTS DeltaOnlyNews
