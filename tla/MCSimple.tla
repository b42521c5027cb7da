------------------------------ MODULE MCSimple ------------------------------
(* Small instances of SimpleMode for TLC. *)
EXTENDS SimpleMode

SimpleTasks == {t \in Task : t.kind \in {"create_event", "delete_event"}}

SomeCalendar == CHOOSE c \in Calendars : TRUE

\* Requests differ by kind, user and uid only: the calendar is resolved.
Unresolved == {t \in SimpleTasks : t.calendar = SomeCalendar}

\* Existing calendars have names before "Calendar", all different.
Names ==
    CHOOSE f \in [Calendars -> 0 .. Cardinality(Calendars)] :
        /\ \A c \in Defaults : f[c] = Cardinality(Calendars)
        /\ \A c, d \in Calendars \ Defaults : f[c] = f[d] => c = d

=============================================================================
