--------------------------- MODULE AtomicObjects ---------------------------
(***************************************************************************)
(* What a client may think an object request is: a call that looks at the  *)
(* object, changes it and fixes its answer in one instant between the      *)
(* request and the response.  There are no statements, no change log and   *)
(* no tokens here.  ObjectsRefinement relates ObjectRequests to this.      *)
(***************************************************************************)
EXTENDS Integers

CONSTANTS
    Calendars, Uids, Requests,
    Absent          \* the row that is not there, the header that is missing

VARIABLES
    rows,           \* calendar -> uid -> etag
    asks,           \* what each request asks for: kind, calendar and uid
    expects,        \* the etag it expects to replace; Absent for any
    phase,          \* idle, called, decided, returned
    result          \* its answer, once decided: status and etag

avars == <<rows, asks, expects, phase, result>>

NoResult == [status |-> "none", etag |-> Absent]

Row(r) == rows[asks[r].calendar][asks[r].uid]

Removes(r) == asks[r].kind \in {"DELETE", "delete_event"}

\* What the two protocols call it.
Named(r, status) ==
    IF asks[r].kind \in {"PUT", "DELETE"} THEN status
    ELSE IF status \in {"201", "204"} THEN "ok" ELSE "error"

Enter(r, label) == phase' = [phase EXCEPT ![r] = label]

Results(r, status, e) ==
    result' = [result EXCEPT ![r] = [status |-> Named(r, status), etag |-> e]]

AtomicInit ==
    /\ rows = [c \in Calendars |-> [u \in Uids |-> Absent]]
    /\ expects = [r \in Requests |-> Absent]
    /\ phase = [r \in Requests |-> "idle"]
    /\ result = [r \in Requests |-> NoResult]

Call(r) ==
    /\ phase[r] = "idle"
    /\ Enter(r, "called")
    /\ expects' = [expects EXCEPT ![r] = expects'[r]]
    /\ UNCHANGED <<rows, asks, result>>

\* An etag that no object has and no answer carried.
Fresh(e) ==
    /\ e # Absent
    /\ \A c \in Calendars, u \in Uids : rows[c][u] # e
    /\ \A r \in Requests : result[r].etag # e

\* The object becomes e, in the instant in which it is the expected one.
Write(r) ==
    LET c == asks[r].calendar
        u == asks[r].uid
        e == rows'[c][u]
    IN
    /\ phase[r] = "called"
    /\ ~ Removes(r)
    /\ expects[r] \in {Absent, Row(r)}
    /\ asks[r].kind = "update_event" => Row(r) # Absent
    /\ Fresh(e)
    /\ rows' = [rows EXCEPT ![c][u] = e]
    /\ Results(r, IF Row(r) = Absent THEN "201" ELSE "204", e)
    /\ Enter(r, "decided")
    /\ UNCHANGED <<asks, expects>>

Remove(r) ==
    /\ phase[r] = "called"
    /\ Removes(r)
    /\ Row(r) # Absent
    /\ rows' = [rows EXCEPT ![asks[r].calendar][asks[r].uid] = Absent]
    /\ Results(r, "204", Absent)
    /\ Enter(r, "decided")
    /\ UNCHANGED <<asks, expects>>

\* A request that changes nothing: another object than expected, none at all,
\* or nothing the user may do.
Reject(r) ==
    /\ phase[r] = "called"
    /\ \/ expects[r] \notin {Absent, Row(r)} /\ Results(r, "412", Absent)
       \/ /\ Removes(r) \/ asks[r].kind = "update_event"
          /\ Row(r) = Absent
          /\ Results(r, "404", Absent)
       \/ Results(r, "403", Absent)
       \/ asks[r].kind = "PUT" /\ Results(r, "400", Absent)
    /\ Enter(r, "returned")
    /\ UNCHANGED <<rows, asks, expects>>

Return(r) ==
    /\ phase[r] = "decided"
    /\ Enter(r, "returned")
    /\ UNCHANGED <<rows, asks, expects, result>>

AtomicNext ==
    \E r \in Requests : Call(r) \/ Write(r) \/ Remove(r) \/ Reject(r) \/ Return(r)

AtomicSpec == AtomicInit /\ [][AtomicNext]_avars

=============================================================================
