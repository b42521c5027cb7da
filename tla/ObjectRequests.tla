--------------------------- MODULE ObjectRequests ---------------------------
(***************************************************************************)
(* The requests that write calendar objects: CalDAV PUT and DELETE         *)
(* (src/caldav/put.rs, delete.rs, behind handle_object and                 *)
(* handle_email_object of mod.rs, which differ in the URL only) and the    *)
(* MCP tools create_event, update_event and delete_event                   *)
(* (src/mcp/tools/events.rs), all through upsert_object and delete_object  *)
(* of src/db/events.rs.  Both servers share one connection pool, so the    *)
(* statements of different requests interleave freely.                     *)
(*                                                                         *)
(* Each member of Requests is one request.  pc names the statement it      *)
(* executes next; a step is that statement with the local code around it.  *)
(***************************************************************************)
EXTENDS Store

CONSTANTS
    Requests,       \* the requests that may arrive
    Tasks,          \* what a request may ask for
    Exclusive       \* TRUE: clients never write one object concurrently

Kinds == {"PUT", "DELETE", "create_event", "update_event", "delete_event"}

Task == [kind : Kinds, user : Users, calendar : Calendars, uid : Uids]

ASSUME RequestAssumptions == Tasks \subseteq Task /\ Exclusive \in BOOLEAN

VARIABLES
    pc,             \* the statement each request executes next
    task,           \* what each request asks for; never changes
    if_match,       \* the ETag of its If-Match header; None without one, or "*"
    is_new,         \* upsert_object's is_new
    etag,           \* the etag upsert_object drew
    answer          \* the response: a status and the ETag it carries

requests == <<pc, task, if_match, is_new, etag, answer>>

vars == <<store, requests>>

Statements == {"access", "precondition", "lookup", "select", "insert",
               "update", "delete", "log", "bump", "readback"}

Statuses == {"none", "201", "204", "400", "403", "404", "412", "500", "ok", "error"}

RequestsTypeOK ==
    /\ pc \in [Requests -> Statements \cup {"idle", "done"}]
    /\ task \in [Requests -> Task]
    /\ if_match \in [Requests -> Nat]
    /\ is_new \in [Requests -> BOOLEAN]
    /\ etag \in [Requests -> Nat]
    /\ answer \in [Requests -> [status : Statuses, etag : Nat]]

\* Every table and every request keeps the type of its columns and locals.
TypeOK == StoreTypeOK /\ RequestsTypeOK

----------------------------------------------------------------------------
Cal(r) == task[r].calendar
Uid(r) == task[r].uid

SameObject(r, q) == Cal(r) = Cal(q) /\ Uid(r) = Uid(q)

Others(r) == {q \in Requests \ {r} : SameObject(q, r)}

Active(r) == pc[r] \in Statements

Mcp(r) == task[r].kind \in {"create_event", "update_event", "delete_event"}

Deletes(r) == task[r].kind \in {"DELETE", "delete_event"}

\* Mutant: a change type outside the CHECK constraint.
ChangeOfMisspelt(r) ==
    IF Deletes(r) THEN "deleted" ELSE IF is_new[r] THEN "inserted" ELSE "modified"

\* Mutant: a deletion is logged as a modification.
ChangeOfIgnoringDelete(r) == IF is_new[r] THEN "created" ELSE "modified"

ChangeOf(r) ==
    IF Deletes(r) THEN "deleted" ELSE IF is_new[r] THEN "created" ELSE "modified"

\* The ETags a client can put into If-Match for r's object: the current one,
\* and those that earlier responses carried.
KnownEtags(r) ==
    {ObjectByUid(Cal(r), Uid(r))} \cup {answer[q].etag : q \in Others(r)}

Goto(r, label) == pc' = [pc EXCEPT ![r] = label]

\* The handler returns.  An MCP tool answers a result or an error.
Respond(r, status, e) ==
    /\ Goto(r, "done")
    /\ answer' = [answer EXCEPT ![r] =
          [status |-> IF ~ Mcp(r) THEN status
                      ELSE IF status \in {"201", "204"} THEN "ok" ELSE "error",
           etag   |-> e]]

----------------------------------------------------------------------------
RequestsInit ==
    /\ pc = [r \in Requests |-> "idle"]
    /\ task \in [Requests -> Tasks]
    /\ if_match = [r \in Requests |-> None]
    /\ is_new = [r \in Requests |-> FALSE]
    /\ etag = [r \in Requests |-> None]
    /\ answer = [r \in Requests |-> [status |-> "none", etag |-> None]]

Init == StoreInit /\ RequestsInit

(* A request reaches its handler.  create_event draws a uid that nobody has *)
(* used, and nobody can name it before the row is there.                    *)
Arrive(r) ==
    /\ pc[r] = "idle"
    /\ Exclusive => \A q \in Others(r) : ~ Active(q)
    /\ task[r].kind = "create_event" => \A q \in Others(r) : pc[q] = "idle"
    /\ \A q \in Others(r) : task[q].kind = "create_event" =>
                                pc[q] \notin {"select", "insert"}
    /\ \E m \in IF task[r].kind = "PUT" THEN {None} \cup KnownEtags(r) ELSE {None} :
           if_match' = [if_match EXCEPT ![r] = m]
    /\ Goto(r, CASE task[r].kind \in {"PUT", "DELETE"} -> "access"
                 [] task[r].kind = "create_event"      -> "select"
                 [] task[r].kind = "update_event"      -> "lookup"
                 [] task[r].kind = "delete_event"      -> "delete")
    /\ UNCHANGED <<store, task, is_new, etag, answer>>

(* verify_calendar_access: one query, before the handler proper.  PUT then *)
(* reads its body, which may be too large or not UTF-8.                    *)
VerifyAccess(r) ==
    /\ pc[r] = "access"
    /\ \/ /\ HasAccess(task[r].user, Cal(r))
          /\ Goto(r, IF Deletes(r) THEN "delete"
                     ELSE IF if_match[r] # None THEN "precondition" ELSE "select")
          /\ UNCHANGED answer
       \/ /\ HasAccess(task[r].user, Cal(r))
          /\ task[r].kind = "PUT"
          /\ Respond(r, "400", None)
       \/ /\ ~ HasAccess(task[r].user, Cal(r))
          /\ Respond(r, "403", None)
    /\ UNCHANGED <<store, task, if_match, is_new, etag>>

(* handle_put with If-Match: compare the stored etag with the header's. *)
CheckIfMatch(r) ==
    /\ pc[r] = "precondition"
    /\ \/ /\ ObjectByUid(Cal(r), Uid(r)) = if_match[r]
          /\ Goto(r, "select")
          /\ UNCHANGED answer
       \/ /\ ObjectByUid(Cal(r), Uid(r)) # if_match[r]
          /\ Respond(r, "412", None)
    /\ UNCHANGED <<store, task, if_match, is_new, etag>>

(* update_event: the event must exist. *)
LookupEvent(r) ==
    /\ pc[r] = "lookup"
    /\ \/ /\ ObjectByUid(Cal(r), Uid(r)) # None
          /\ Goto(r, "select")
          /\ UNCHANGED answer
       \/ /\ ObjectByUid(Cal(r), Uid(r)) = None
          /\ Respond(r, "404", None)
    /\ UNCHANGED <<store, task, if_match, is_new, etag>>

(* upsert_object: read the row, decide is_new, draw an etag. *)
SelectExisting(r) ==
    /\ pc[r] = "select"
    /\ is_new' = [is_new EXCEPT ![r] = ObjectByUid(Cal(r), Uid(r)) = None]
    /\ issued' = issued + 1
    /\ etag' = [etag EXCEPT ![r] = issued + 1]
    /\ Goto(r, IF ObjectByUid(Cal(r), Uid(r)) = None THEN "insert" ELSE "update")
    /\ UNCHANGED <<owner, sync_token, shares, objects, sync_changes,
                   task, if_match, answer>>

\* Mutant: a creation is not logged.
InsertUnlogged(r) ==
    /\ pc[r] = "insert"
    /\ \/ /\ InsertObject(Cal(r), Uid(r), etag[r])
          /\ Goto(r, "bump")
          /\ UNCHANGED answer
       \/ /\ ~ CanInsertObject(Cal(r), Uid(r))
          /\ Respond(r, "500", None)
          /\ UNCHANGED store
    /\ UNCHANGED <<task, if_match, is_new, etag>>

(* upsert_object, new object; a violated constraint is answered 500. *)
InsertRow(r) ==
    /\ pc[r] = "insert"
    /\ \/ /\ InsertObject(Cal(r), Uid(r), etag[r])
          /\ Goto(r, "log")
          /\ UNCHANGED answer
       \/ /\ ~ CanInsertObject(Cal(r), Uid(r))
          /\ Respond(r, "500", None)
          /\ UNCHANGED store
    /\ UNCHANGED <<task, if_match, is_new, etag>>

(* upsert_object, existing object; rows_affected is not looked at. *)
UpdateRow(r) ==
    /\ pc[r] = "update"
    /\ UpdateObject(Cal(r), Uid(r), etag[r])
    /\ Goto(r, "log")
    /\ UNCHANGED <<task, if_match, is_new, etag, answer>>

\* Mutant: an absent row is waited for.
DeleteRowOrWait(r) ==
    /\ pc[r] = "delete"
    /\ DeleteObject(Cal(r), Uid(r))
    /\ Goto(r, "log")
    /\ UNCHANGED <<task, if_match, is_new, etag, answer>>

(* delete_object: the row, or 404. *)
DeleteRow(r) ==
    /\ pc[r] = "delete"
    /\ \/ /\ DeleteObject(Cal(r), Uid(r))
          /\ Goto(r, "log")
          /\ UNCHANGED answer
       \/ /\ ObjectByUid(Cal(r), Uid(r)) = None
          /\ Respond(r, "404", None)
          /\ UNCHANGED store
    /\ UNCHANGED <<task, if_match, is_new, etag>>

(* log_sync_change: fails when the calendar has gone. *)
LogChange(r) ==
    /\ pc[r] = "log"
    /\ \/ /\ LogSyncChange(Cal(r), Uid(r), ChangeOf(r))
          /\ Goto(r, "bump")
          /\ UNCHANGED answer
       \/ /\ ~ Exists(Cal(r))
          /\ Respond(r, "500", None)
          /\ UNCHANGED store
    /\ UNCHANGED <<task, if_match, is_new, etag>>

(* bump_ctag; delete_object is then finished. *)
Bump(r) ==
    /\ pc[r] = "bump"
    /\ BumpCtag(Cal(r))
    /\ \/ Deletes(r) /\ Respond(r, "204", None)
       \/ ~ Deletes(r) /\ Goto(r, "readback") /\ UNCHANGED answer
    /\ UNCHANGED <<task, if_match, is_new, etag>>

(* upsert_object reads the row back; the response carries that row's etag. *)
ReadBack(r) ==
    /\ pc[r] = "readback"
    /\ LET found == ObjectByUid(Cal(r), Uid(r)) IN
           Respond(r, IF found = None THEN "500"
                      ELSE IF is_new[r] THEN "201" ELSE "204", found)
    /\ UNCHANGED <<store, task, if_match, is_new, etag>>

(* The client disconnects and the handler is dropped at an await, or the   *)
(* process stops: the rest of the handler never runs.                      *)
Drop(r) ==
    /\ "drop" \in Faults
    /\ Active(r)
    /\ Goto(r, "done")
    /\ UNCHANGED <<store, task, if_match, is_new, etag, answer>>

(* The next statement fails (no free connection, database locked).  The    *)
(* access check takes an error for an empty list.                          *)
Fail(r) ==
    /\ "error" \in Faults
    /\ Active(r)
    /\ Respond(r, IF pc[r] = "access" THEN "403" ELSE "500", None)
    /\ UNCHANGED <<store, task, if_match, is_new, etag>>

Handle(r) ==
    \/ VerifyAccess(r) \/ CheckIfMatch(r) \/ LookupEvent(r)
    \/ SelectExisting(r) \/ InsertRow(r) \/ UpdateRow(r) \/ DeleteRow(r)
    \/ LogChange(r) \/ Bump(r) \/ ReadBack(r)

RequestStep == \E r \in Requests : Arrive(r) \/ Handle(r) \/ Drop(r) \/ Fail(r)

Next == RequestStep

\* Tokio polls every handler that can proceed, so a handler never stops
\* between two statements; no client has to send anything.
Fairness == \A r \in Requests : WF_vars(Handle(r))

Spec == Init /\ [][Next]_vars /\ Fairness

\* The same without faults: every handler runs to its end.
UndisturbedStep == \E r \in Requests : Arrive(r) \/ Handle(r)

UndisturbedSpec == Init /\ [][UndisturbedStep]_vars /\ Fairness

----------------------------------------------------------------------------
(* What is stored, logged and answered *)

Entries(c, u, change) ==
    {i \in DOMAIN sync_changes[c] :
        sync_changes[c][i].uid = u /\ sync_changes[c][i].change = change}

Unlogged(c, u, change) ==
    {r \in Requests : /\ pc[r] = "log" /\ Cal(r) = c /\ Uid(r) = u
                      /\ ChangeOf(r) = change}

(* In every interleaving without faults, the creations of an object that   *)
(* are logged or about to be logged are its deletions plus one if its row  *)
(* is there: upsert_object's SELECT-then-INSERT never creates a row twice, *)
(* and delete_object never logs a deletion that removed nothing.           *)
LogBalance ==
    \A c \in Calendars, u \in Uids :
        Cardinality(Entries(c, u, "created")) + Cardinality(Unlogged(c, u, "created"))
        = Cardinality(Entries(c, u, "deleted")) + Cardinality(Unlogged(c, u, "deleted"))
          + (IF objects[c][u] = None THEN 0 ELSE 1)

Writing(c, u) ==
    {r \in Requests : Cal(r) = c /\ Uid(r) = u /\ pc[r] = "log"}

LastChange(c, u) ==
    CHOOSE i \in DOMAIN sync_changes[c] :
        /\ sync_changes[c][i].uid = u
        /\ \A j \in DOMAIN sync_changes[c] : sync_changes[c][j].uid = u => j <= i

(* Once nobody stands between a row write of an object and its log entry,  *)
(* the log ends for that object in "deleted", or has nothing, exactly when *)
(* the row is absent.  This is what lets handle_sync replay the log.       *)
LogAgreesWithRows ==
    \A c \in Calendars, u \in Uids :
        Writing(c, u) = {} =>
            ((objects[c][u] # None) <=>
                /\ \E i \in DOMAIN sync_changes[c] : sync_changes[c][i].uid = u
                /\ sync_changes[c][LastChange(c, u)].change # "deleted")

(* Every stored object has an entry in the change log, unless a request is *)
(* about to log it ("Every object mutation ... is logged").                *)
MutationsLogged ==
    \A c \in Calendars, u \in Uids :
        objects[c][u] # None /\ Writing(c, u) = {} =>
            \E i \in DOMAIN sync_changes[c] :
                sync_changes[c][i].uid = u /\ sync_changes[c][i].change # "deleted"

(* A successful PUT, create_event or update_event answers the etag of its  *)
(* own write, so a client that edits its own copy and sends that etag in   *)
(* If-Match overwrites what it thinks it overwrites.                       *)
AnswersOwnEtag ==
    \A r \in Requests :
        answer[r].status \in {"201", "204", "ok"} /\ ~ Deletes(r) =>
            answer[r].etag = etag[r]

(* A PUT with If-Match replaces exactly the row whose etag it named: no    *)
(* other client's write gets lost between the comparison and the UPDATE.   *)
NoLostUpdate ==
    [][\A r \in Requests :
          UpdateRow(r) /\ if_match[r] # None =>
              objects[Cal(r)][Uid(r)] = if_match[r]]_vars

(* Every request that reached its handler is answered.                     *)
Answered == \A r \in Requests : Active(r) ~> pc[r] = "done"

=============================================================================
