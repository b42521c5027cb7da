----------------------------- MODULE SimpleMode -----------------------------
(***************************************************************************)
(* The MCP tools of simple mode (src/mcp/tools/simple.rs): add_event,      *)
(* delete_event and list_events, which name no calendar.  Each call first  *)
(* resolves one: the first calendar by name that the user can access, or a *)
(* new one.  Then it is a create_event or delete_event of ObjectRequests   *)
(* on that calendar, or a query.                                           *)
(***************************************************************************)
EXTENDS ObjectRequests

CONSTANTS
    Rank,           \* the order of the calendars' names; names may be equal
    Defaults,       \* ids that create_calendar may draw, all named "Calendar"
    Listing,        \* the calls of list_events; the others add or delete
    Limits          \* the limits a list_events call may have, the default's too

ASSUME SimpleAssumptions ==
    /\ Rank \in [Calendars -> Nat]
    /\ Defaults \subseteq Calendars \ Created
    /\ \A c, d \in Defaults : Rank[c] = Rank[d]
    /\ Listing \subseteq Requests
    /\ Limits \subseteq Nat

VARIABLES
    resolve,        \* how far each call's resolve_calendar has come
    listed          \* what list_events was asked for, and the uids it answered

simpleVars == <<store, requests, resolve, listed>>

Listed == [uids : SUBSET Uids, ranged : BOOLEAN, limit : Nat]

\* As TypeOK; a call's calendar is set when it is resolved.
SimpleTypeOK ==
    /\ TypeOK
    /\ resolve \in [Requests -> {"no", "list", "create", "readback", "yes"}]
    /\ listed \in [Requests -> Listed]

\* cals.first(): SQLite orders equal names as it likes.
First(user, c) ==
    c \in Accessible(user) /\ \A d \in Accessible(user) : Rank[c] <= Rank[d]

SimpleInit ==
    /\ Init
    /\ \A r \in Requests : task[r].kind \in {"create_event", "delete_event"}
    /\ resolve = [r \in Requests |-> "no"]
    /\ listed = [r \in Requests |-> [uids |-> {}, ranged |-> FALSE, limit |-> 0]]

StoredIn(c) == {u \in Uids : objects[c][u] # None}

Step(r, label) == resolve' = [resolve EXCEPT ![r] = label]

(* A call arrives; add_event's uid is new. *)
Call(r) ==
    /\ resolve[r] = "no"
    /\ Exclusive => \A q \in Requests : resolve[q] = "no" \/ pc[q] = "done"
    /\ r \notin Listing /\ ~ Deletes(r) =>
           \A q \in Requests \ {r} : Uid(q) = Uid(r) => resolve[q] = "no"
    /\ Step(r, "list")
    /\ UNCHANGED <<store, requests, listed>>

\* Mutant: one event less.
TakeFewer(found, n, us) ==
    IF Cardinality(found) < n THEN us = found ELSE us \subseteq found /\ Cardinality(us) = n - 1

\* .take(limit): which events are cut depends on dtstart, the query's order.
Take(found, n, us) ==
    IF Cardinality(found) <= n THEN us = found ELSE us \subseteq found /\ Cardinality(us) = n

(* handle_list's query and answer.  With both ends of a range the query    *)
(* finds some of the rows (which ones is in Contents), otherwise all.      *)
ListEvents(r, c) ==
    \E ranged \in BOOLEAN, n \in Limits, found, us \in SUBSET StoredIn(c) :
        /\ ~ ranged => found = StoredIn(c)
        /\ Take(found, n, us)
        /\ listed' = [listed EXCEPT ![r] = [uids |-> us, ranged |-> ranged, limit |-> n]]

(* The call goes on with calendar c: an upsert, a deletion, or list_events'*)
(* query, which is answered at once.                                       *)
Resolved(r, c) ==
    /\ task' = [task EXCEPT ![r].calendar = c]
    /\ Step(r, "yes")
    /\ \/ /\ r \notin Listing
          /\ Goto(r, IF Deletes(r) THEN "delete" ELSE "select")
          /\ UNCHANGED <<listed, answer>>
       \/ /\ r \in Listing
          /\ ListEvents(r, c)
          /\ Respond(r, "204", None)
    /\ UNCHANGED <<if_match, is_new, etag>>

\* Mutant: every call creates a calendar.
ListNothing(r) ==
    /\ resolve[r] = "list"
    /\ Step(r, "create")
    /\ UNCHANGED <<store, requests, listed>>

(* resolve_calendar lists the user's calendars. *)
ListCalendars(r) ==
    /\ resolve[r] = "list"
    /\ \/ \E c \in Calendars : First(task[r].user, c) /\ Resolved(r, c)
       \/ /\ Accessible(task[r].user) = {}
          /\ Step(r, "create")
          /\ UNCHANGED <<requests, listed>>
    /\ UNCHANGED store

(* resolve_calendar creates the default calendar, under an id of its own. *)
CreateDefault(r) ==
    /\ resolve[r] = "create"
    /\ \E c \in Defaults :
           /\ InsertCalendar(c, task[r].user)
           /\ task' = [task EXCEPT ![r].calendar = c]
    /\ Step(r, "readback")
    /\ UNCHANGED <<pc, if_match, is_new, etag, answer, listed>>

(* create_calendar reads the new row back; nothing here removes it. *)
ReadDefault(r) ==
    /\ resolve[r] = "readback"
    /\ Resolved(r, Cal(r))
    /\ UNCHANGED store

SimpleNext ==
    \E r \in Requests :
        \/ Call(r) \/ ListCalendars(r) \/ CreateDefault(r) \/ ReadDefault(r)
        \/ Handle(r) /\ UNCHANGED <<resolve, listed>>

SimpleSpec == SimpleInit /\ [][SimpleNext]_simpleVars

----------------------------------------------------------------------------
(* "Creates one if none exist": a user for whom nobody else creates or     *)
(* shares calendars has at most one default calendar.                      *)
OneDefaultCalendar ==
    \A u \in Users : Cardinality({c \in Defaults : owner[c] = u}) <= 1

Confirmed(r) == answer[r].status = "ok" /\ r \notin Listing

(* When calls do not overlap, a list_events answer that is shorter than    *)
(* its limit is complete: called without a range, it has every event that  *)
(* an earlier add_event of the user confirmed and that no call deletes.    *)
(* All calls resolve to one calendar, also those after the one that had to *)
(* create it.                                                              *)
AddedIsListed ==
    [][\A q \in Listing, r \in Requests :
          /\ pc[q] # "done" /\ pc'[q] = "done"
          /\ ~ listed'[q].ranged /\ Cardinality(listed'[q].uids) < listed'[q].limit
          /\ Confirmed(r) /\ ~ Deletes(r) /\ task[r].user = task[q].user
          /\ \A d \in Requests \ Listing : Deletes(d) => Uid(d) # Uid(r)
          => Uid(r) \in listed'[q].uids]_simpleVars

=============================================================================
