------------------------------ MODULE Polling ------------------------------
(***************************************************************************)
(* The requests that only read, against the ones that write: PROPFIND on a *)
(* calendar home and on a collection (src/caldav/propfind.rs), the         *)
(* calendar-multiget and calendar-query reports (report.rs), GET (get.rs)  *)
(* and the MCP tools list_calendars, get_calendar, query_events and        *)
(* get_event, one step per SQL statement.                                  *)
(*                                                                         *)
(* They are issued by two kinds of clients (external).  A poller compares  *)
(* the calendar's ctag with the one it kept, lists the etags if they       *)
(* differ, fetches what has another etag and then keeps the new ctag.  An  *)
(* agent lists the events and reads each.  A client takes note of an       *)
(* answer in the step of the last statement: nobody else sees its state.   *)
(*                                                                         *)
(* With the fault "unread" any of these statements may fail.  Most answers *)
(* then are an error, and the client starts again; but the lists of        *)
(* PROPFIND and of the reports become empty, under a status of success.    *)
(***************************************************************************)
EXTENDS ObjectRequests

CONSTANTS
    Readers,        \* the clients that read, each with one request at a time
    Crowd,          \* bound: the requests and readers of one behaviour
    BodyLimit,      \* the objects that fit into the 512 KiB of handle_report
    QueryLimit      \* the limit argument of query_events

ASSUME PollingAssumptions ==
    /\ Crowd \in Nat
    /\ BodyLimit \in Nat
    /\ QueryLimit \in Nat

Reader == [user : Users, calendar : Calendars,
           kind : {"poller", "agent", "absent"}]

VARIABLES
    stage,          \* the statement each reader's request executes next
    depth,          \* the Depth header of the current PROPFIND
    reader,         \* who reads what, and how; never changes
    ctag,           \* the ctag the poller keeps; None before its first
    listed_ctag,    \* the ctag in the answer to the PROPFIND
    wanted,         \* the uids that are still to be fetched
    held,           \* the reader's copy: uid -> etag
    misread         \* history: whether the copy was cut by a failing query
                    \* in the poll whose ctag is kept

readers == <<stage, depth, reader, ctag, listed_ctag, wanted, held, misread>>

pollingVars == <<store, requests, readers>>

Stages == {"idle", "failed", "home", "access", "calendar", "list", "report", "multiget",
           "query", "object", "get", "list_calendars", "get_calendar",
           "query_events", "get_event"}

PollingTypeOK ==
    /\ TypeOK
    /\ stage \in [Readers -> Stages]
    /\ depth \in [Readers -> {0, 1}]
    /\ reader \in [Readers -> Reader]
    /\ ctag \in [Readers -> Nat]
    /\ listed_ctag \in [Readers -> Nat]
    /\ wanted \in [Readers -> SUBSET Uids]
    /\ held \in [Readers -> [Uids -> Nat]]
    /\ misread \in [Readers -> BOOLEAN]

ReadersInit ==
    /\ stage = [k \in Readers |-> "idle"]
    /\ depth = [k \in Readers |-> 0]
    /\ reader \in [Readers -> Reader]
    /\ ctag = [k \in Readers |-> None]
    /\ listed_ctag = [k \in Readers |-> None]
    /\ wanted = [k \in Readers |-> {}]
    /\ held = [k \in Readers |-> [u \in Uids |-> None]]
    /\ misread = [k \in Readers |-> FALSE]

PollingInit == Init /\ ReadersInit

----------------------------------------------------------------------------
Of(k) == reader[k].calendar

Agent(k) == reader[k].kind = "agent"

Allowed(k) == HasAccess(reader[k].user, Of(k))

\* list_objects: the uids of the rows
Present(c) == {u \in Uids : objects[c][u] # None}

\* What a query for the rows returns: the rows, or the empty list that
\* unwrap_or_default makes of an error.
RowsRead(c) == {Present(c)} \cup {s \in {{}} : "unread" \in Faults}

Enter(k, label) == stage' = [stage EXCEPT ![k] = label]

\* The reader believes that it has fetched everything and keeps the ctag.
Keep(k, cut) ==
    /\ ctag' = [ctag EXCEPT ![k] = listed_ctag[k]]
    /\ misread' = [misread EXCEPT ![k] = cut]

(* A poll starts: PROPFIND with Depth 1 on the home, or Depth 0 on the     *)
(* collection; an agent calls list_calendars.                              *)
StartRead(k) ==
    /\ stage[k] \in {"idle", "failed"}
    /\ reader[k].kind # "absent"
    /\ \E label \in IF Agent(k) THEN {"list_calendars"} ELSE {"home", "access"} :
           Enter(k, label)
    /\ depth' = [depth EXCEPT ![k] = 0]
    /\ listed_ctag' = [listed_ctag EXCEPT ![k] = None]
    /\ UNCHANGED <<reader, ctag, wanted, held, misread>>

(* PROPFIND on /caldav/users/{username}/ with Depth 1: the home and the    *)
(* accessible calendars with their ctags.  Another ctag than the kept one  *)
(* makes the client list the collection.                                   *)
PropfindHome(k) ==
    /\ stage[k] = "home"
    /\ \/ /\ Allowed(k) /\ sync_token[Of(k)] # ctag[k]
          /\ Enter(k, "access")
          /\ depth' = [depth EXCEPT ![k] = 1]
       \/ /\ ~ Allowed(k) \/ sync_token[Of(k)] = ctag[k]
          /\ Enter(k, "idle")
          /\ UNCHANGED depth
    /\ UNCHANGED <<reader, ctag, listed_ctag, wanted, held, misread>>

(* verify_calendar_access, for any request on the collection. *)
ReadAccess(k) ==
    /\ stage[k] \in {"access", "report", "object"}
    /\ \/ Allowed(k) /\ stage[k] = "access" /\ Enter(k, "calendar")
       \/ Allowed(k) /\ stage[k] = "report" /\ Enter(k, "multiget")
       \/ Allowed(k) /\ stage[k] = "report" /\ Enter(k, "query")
       \/ Allowed(k) /\ stage[k] = "object" /\ Enter(k, "get")
       \/ ~ Allowed(k) /\ Enter(k, "idle")
    /\ UNCHANGED <<depth, reader, ctag, listed_ctag, wanted, held, misread>>

(* PROPFIND on the collection: the calendar row, with the ctag.  Depth 0   *)
(* ends here, and a new ctag makes the client ask again with Depth 1.      *)
PropfindCalendar(k) ==
    LET c == Of(k) IN
    /\ stage[k] = "calendar"
    /\ \/ /\ Exists(c) /\ depth[k] = 1
          /\ Enter(k, "list")
          /\ listed_ctag' = [listed_ctag EXCEPT ![k] = sync_token[c]]
          /\ UNCHANGED depth
       \/ /\ Exists(c) /\ depth[k] = 0 /\ sync_token[c] # ctag[k]
          /\ Enter(k, "access")
          /\ depth' = [depth EXCEPT ![k] = 1]
          /\ UNCHANGED listed_ctag
       \/ /\ ~ Exists(c) \/ (depth[k] = 0 /\ sync_token[c] = ctag[k])
          /\ Enter(k, "idle")
          /\ UNCHANGED <<depth, listed_ctag>>
    /\ UNCHANGED <<reader, ctag, wanted, held, misread>>

(* PROPFIND with Depth 1: the object rows, hrefs and etags only.  The      *)
(* client forgets what is no longer listed, and fetches what is new.       *)
PropfindObjects(k) ==
    LET c == Of(k) IN
    /\ stage[k] = "list"
    /\ \E rows \in RowsRead(c) :
           LET news == {u \in rows : held[k][u] # objects[c][u]} IN
           /\ held' = [held EXCEPT ![k] = [u \in Uids |-> IF u \in rows THEN @[u] ELSE None]]
           /\ wanted' = [wanted EXCEPT ![k] = news]
           /\ \/ news = {} /\ Enter(k, "idle") /\ Keep(k, rows # Present(c))
              \/ news # {} /\ Enter(k, "report") /\ UNCHANGED <<ctag, misread>>
              \/ news # {} /\ Enter(k, "object") /\ UNCHANGED <<ctag, misread>>
    /\ UNCHANGED <<depth, reader, listed_ctag>>

\* Mutant: the hrefs are taken for uids, so that no row matches.
MultigetByHref(k) ==
    /\ stage[k] = "multiget"
    /\ held' = [held EXCEPT ![k] = [u \in Uids |-> IF u \in wanted[k] THEN None ELSE @[u]]]
    /\ Keep(k, FALSE)
    /\ wanted' = [wanted EXCEPT ![k] = {}]
    /\ Enter(k, "idle")
    /\ UNCHANGED <<depth, reader, listed_ctag>>

(* calendar-multiget: the rows of the named uids.  A uid without a row has *)
(* no response element, which tells the client that the object is gone; a  *)
(* body above the limit is answered empty, and the poll is given up.       *)
Multiget(k) ==
    LET c == Of(k) IN
    /\ stage[k] = "multiget"
    /\ \E rows \in RowsRead(c) :
           \/ /\ Cardinality(wanted[k] \cap rows) <= BodyLimit
              /\ held' = [held EXCEPT ![k] =
                     [u \in Uids |-> IF u \in wanted[k] \cap rows THEN objects[c][u]
                                    ELSE IF u \in wanted[k] THEN None ELSE @[u]]]
              /\ Keep(k, wanted[k] \cap rows # wanted[k] \cap Present(c))
           \/ /\ Cardinality(wanted[k] \cap rows) > BodyLimit
              /\ UNCHANGED <<held, ctag, misread>>
    /\ wanted' = [wanted EXCEPT ![k] = {}]
    /\ Enter(k, "idle")
    /\ UNCHANGED <<depth, reader, listed_ctag>>

(* calendar-query without a time range: all rows. *)
Query(k) ==
    LET c == Of(k) IN
    /\ stage[k] = "query"
    /\ \E rows \in RowsRead(c) :
           \/ /\ Cardinality(rows) <= BodyLimit
              /\ held' = [held EXCEPT ![k] =
                     [u \in Uids |-> IF u \in rows THEN objects[c][u] ELSE None]]
              /\ Keep(k, rows # Present(c))
           \/ /\ Cardinality(rows) > BodyLimit
              /\ UNCHANGED <<held, ctag, misread>>
    /\ wanted' = [wanted EXCEPT ![k] = {}]
    /\ Enter(k, "idle")
    /\ UNCHANGED <<depth, reader, listed_ctag>>

\* A reader takes one of the wanted uids from an answer about it alone.
TakeOne(k, next, last) ==
    \E u \in wanted[k] :
        /\ held' = [held EXCEPT ![k][u] = ObjectByUid(Of(k), u)]
        /\ wanted' = [wanted EXCEPT ![k] = @ \ {u}]
        /\ Enter(k, IF wanted[k] = {u} THEN last ELSE next)
        /\ \/ wanted[k] = {u} /\ Keep(k, FALSE)
           \/ wanted[k] # {u} /\ UNCHANGED <<ctag, misread>>

(* GET: the row, or 404, and the next one. *)
Get(k) ==
    /\ stage[k] = "get"
    /\ TakeOne(k, "object", "idle")
    /\ UNCHANGED <<depth, reader, listed_ctag>>

(* list_calendars: the agent looks for its calendar. *)
ListCalendarsTool(k) ==
    /\ stage[k] = "list_calendars"
    /\ Enter(k, IF Allowed(k) THEN "get_calendar" ELSE "idle")
    /\ UNCHANGED <<depth, reader, ctag, listed_ctag, wanted, held, misread>>

(* get_calendar: its row, with the ctag, or an error.                      *)
GetCalendarTool(k) ==
    /\ stage[k] = "get_calendar"
    /\ \/ /\ Exists(Of(k))
          /\ listed_ctag' = [listed_ctag EXCEPT ![k] = sync_token[Of(k)]]
          /\ Enter(k, IF sync_token[Of(k)] = ctag[k] THEN "idle" ELSE "query_events")
       \/ /\ ~ Exists(Of(k))
          /\ Enter(k, "idle")
          /\ UNCHANGED listed_ctag
    /\ UNCHANGED <<depth, reader, ctag, wanted, held, misread>>

\* Mutant: one event less than the limit.
QueryFewerEvents(k) ==
    LET c == Of(k) IN
    /\ stage[k] = "query_events"
    /\ \E seen \in SUBSET Present(c) :
           /\ Cardinality(seen) <= QueryLimit
           /\ Cardinality(seen) = QueryLimit - 1 \/ seen = Present(c)
           /\ wanted' = [wanted EXCEPT ![k] = seen]
           /\ held' = [held EXCEPT ![k] = [u \in Uids |-> IF u \in seen THEN @[u] ELSE None]]
           /\ \/ seen = {} /\ Enter(k, "idle") /\ Keep(k, FALSE)
              \/ seen # {} /\ Enter(k, "get_event") /\ UNCHANGED <<ctag, misread>>
    /\ UNCHANGED <<depth, reader, listed_ctag>>

(* query_events without a time range: the first rows up to the limit, in   *)
(* an order that the model does not keep.                                  *)
QueryEvents(k) ==
    LET c == Of(k) IN
    /\ stage[k] = "query_events"
    /\ \E seen \in SUBSET Present(c) :
           /\ Cardinality(seen) = QueryLimit \/ seen = Present(c)
           /\ Cardinality(seen) <= QueryLimit
           /\ wanted' = [wanted EXCEPT ![k] = seen]
           /\ held' = [held EXCEPT ![k] = [u \in Uids |-> IF u \in seen THEN @[u] ELSE None]]
           /\ \/ seen = {} /\ Enter(k, "idle") /\ Keep(k, FALSE)
              \/ seen # {} /\ Enter(k, "get_event") /\ UNCHANGED <<ctag, misread>>
    /\ UNCHANGED <<depth, reader, listed_ctag>>

(* get_event: the row or an error, without an access check. *)
GetEvent(k) ==
    /\ stage[k] = "get_event"
    /\ TakeOne(k, "get_event", "idle")
    /\ UNCHANGED <<depth, reader, listed_ctag>>

ReadStep(k) ==
    \/ PropfindHome(k) \/ ReadAccess(k) \/ PropfindCalendar(k) \/ PropfindObjects(k)
    \/ Multiget(k) \/ Query(k) \/ Get(k)
    \/ ListCalendarsTool(k) \/ GetCalendarTool(k) \/ QueryEvents(k) \/ GetEvent(k)

(* A statement whose failure the client is told of: 500 from GET, 403 or   *)
(* 404 where the access check or the calendar row could not be read, a home *)
(* without calendars, a tool's error.  It starts again with the old ctag.  *)
FailRead(k) ==
    /\ "unread" \in Faults
    /\ stage[k] \notin {"idle", "failed", "list", "multiget", "query"}
    /\ Enter(k, "failed")
    /\ wanted' = [wanted EXCEPT ![k] = {}]
    /\ depth' = [depth EXCEPT ![k] = 0]
    /\ listed_ctag' = [listed_ctag EXCEPT ![k] = None]
    /\ UNCHANGED <<reader, ctag, held, misread>>

ReadersStep ==
    /\ \E k \in Readers : StartRead(k) \/ ReadStep(k) \/ FailRead(k)
    /\ UNCHANGED <<store, requests>>

Parties ==
    {r \in Requests : pc[r] # "idle"} \cup {k \in Readers : reader[k].kind # "absent"}

WritersStep ==
    /\ \E r \in Requests :
           \/ Cardinality(Parties) < Crowd /\ Arrive(r)
           \/ Handle(r)
    /\ UNCHANGED readers

PollingNext == WritersStep \/ ReadersStep

PollingSpec == PollingInit /\ [][PollingNext]_pollingVars

\* As Fairness; in addition the readers keep reading, and are answered, and a
\* reader is not told of failures for ever.
FairPollingSpec ==
    /\ PollingSpec
    /\ \A r \in Requests : WF_pollingVars(Handle(r) /\ UNCHANGED readers)
    /\ \A k \in Readers :
           /\ WF_pollingVars(StartRead(k) /\ UNCHANGED <<store, requests>>)
           /\ WF_pollingVars(ReadStep(k) /\ UNCHANGED <<store, requests>>)
           /\ <>[](stage[k] # "failed")

----------------------------------------------------------------------------
Quiet(c) == \A r \in Requests : Cal(r) = c => pc[r] \notin {"log", "bump"}

Whole(k) == Agent(k) => Cardinality(Present(Of(k))) <= QueryLimit

Fits(k) == Agent(k) \/ Cardinality(Present(Of(k))) <= BodyLimit

(* A reader that kept the calendar's current ctag, while no request is     *)
(* between its row write and its bump, holds exactly the stored objects,   *)
(* although the ctag, the list and the bodies came from separate           *)
(* statements with writes of any number of racing requests in between.     *)
(* The exception is in the code: a list or report whose query failed is    *)
(* answered as an empty one, so that the copy is cut under a current ctag. *)
CurrentCtagMeansCurrentCopy ==
    \A k \in Readers :
        /\ ctag[k] # None /\ ctag[k] = sync_token[Of(k)] /\ Quiet(Of(k)) /\ Whole(k)
        /\ ~ misread[k]
        => held[k] = objects[Of(k)]

(* Once the writers are done, every reader that goes on reading holds the  *)
(* stored objects and keeps holding them, whichever way it fetches them,   *)
(* unless the limit of query_events or of a report's body is exceeded, or  *)
(* a failing query was answered as an empty list in its last poll: then it *)
(* is stuck with what it has until the next write changes the ctag.        *)
EventuallyPolled ==
    <>[](\A k \in Readers :
            /\ reader[k].kind # "absent" /\ Allowed(k) /\ Whole(k) /\ Fits(k)
            /\ ~ misread[k]
            => held[k] = objects[Of(k)])

=============================================================================
