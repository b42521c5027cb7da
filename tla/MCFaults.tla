------------------------------ MODULE MCFaults ------------------------------
(* Small instances of Server with faults, for TLC. *)
EXTENDS Server, TLC

OneUser == CHOOSE u \in Users : TRUE

FirstCalendar == CHOOSE c \in Created : TRUE

\* Object requests of every kind, on the calendar that exists.
EveryKind == {t \in Task : t.user = OneUser /\ t.calendar = FirstCalendar}

\* Collection requests of every kind, by one user; shares go to another one.
EveryCollectionKind ==
    {t \in CollectionTask : t.user = OneUser /\ t.guest # t.user /\ t.fields = Fields}

\* create_calendar draws an id that is not in use, so such a request never begins.
Absent(m) == job[m].kind = "create_calendar" /\ job[m].calendar \in Created

Lifecycle(m) == job[m].kind \in {"MKCALENDAR", "DELETE"}

\* Three collection requests of any kind among themselves ...
AmongThemselves ==
    (\A m \in Managers : ~ Absent(m)) /\ (\A r \in Requests : task[r].kind = "PUT")

\* ... or two on the first calendar, beside an object request and a mirror of it.
BesideOthers ==
    /\ \E m \in Managers : Absent(m)
    /\ \A m \in Managers : job[m].calendar = FirstCalendar
    /\ Cardinality({m \in Managers : ~ Absent(m) /\ ~ Lifecycle(m)}) <= 1

CrowdedInit ==
    /\ ServerInit
    /\ \A k \in Clients : viewer[k] = OneUser /\ mirrored[k] = FirstCalendar
    /\ AmongThemselves \/ BesideOthers

CrowdedNext ==
    /\ ServerNext
    /\ (\E m \in Managers : Absent(m)) \/ UNCHANGED <<requests, clients>>

CrowdedSpec == CrowdedInit /\ [][CrowdedNext]_serverVars

ManagerSymmetry == Permutations(Managers)

=============================================================================
