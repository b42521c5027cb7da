------------------------- MODULE CollectionRequests -------------------------
(***************************************************************************)
(* The requests that write calendars and shares: MKCALENDAR, PROPPATCH and *)
(* DELETE on a collection (src/caldav/mkcalendar.rs, proppatch.rs,         *)
(* delete.rs, behind handle_calendar_collection of mod.rs and its twin     *)
(* handle_email_calendar_collection) and the MCP                           *)
(* tools create_calendar, delete_calendar, share_calendar and              *)
(* unshare_calendar (src/mcp/tools).  As in ObjectRequests, step names the *)
(* statement that a request executes next.                                 *)
(***************************************************************************)
EXTENDS Store

CONSTANTS
    Managers,           \* the requests that may arrive
    CollectionTasks,    \* what they may ask for
    Fields              \* the calendar properties: name, color, ...

CollectionKinds == {"MKCALENDAR", "PROPPATCH", "DELETE", "create_calendar",
                    "delete_calendar", "share_calendar", "unshare_calendar"}

\* guest is for shares, fields (the properties to set) for PROPPATCH.
CollectionTask ==
    [kind : CollectionKinds, user : Users, calendar : Calendars,
     guest : Users, fields : SUBSET Fields]

ASSUME CollectionAssumptions == CollectionTasks \subseteq CollectionTask

VARIABLES
    props,          \* calendars' property columns: a number for each value
    step,           \* the statement each request executes next
    job,            \* what each request asks for; never changes
    row,            \* the property columns update_calendar read
    reply           \* the response status

managers == <<props, step, job, row, reply>>

collectionVars == <<store, managers>>

CollectionStatements == {"access", "exists", "insert", "created", "calendar",
                         "read", "write", "reread", "delete", "grant", "granted", "revoke",
                         "confirm"}

Columns == [Fields -> Nat]

CollectionTypeOK ==
    /\ props \in [Calendars -> Columns]
    /\ step \in [Managers -> CollectionStatements \cup {"idle", "done"}]
    /\ job \in [Managers -> CollectionTask]
    /\ row \in [Managers -> Columns]
    /\ reply \in [Managers -> {"none", "201", "204", "207", "403", "404", "405", "500",
                               "ok", "error"}]

----------------------------------------------------------------------------
NoColumns == [f \in Fields |-> None]

Busy(m) == step[m] \in CollectionStatements

ByMcp(m) == job[m].kind \in {"create_calendar", "delete_calendar",
                             "share_calendar", "unshare_calendar"}

Continue(m, label) ==
    /\ step' = [step EXCEPT ![m] = label]
    /\ UNCHANGED <<job, reply>>

Reply(m, status) ==
    /\ step' = [step EXCEPT ![m] = "done"]
    /\ reply' = [reply EXCEPT ![m] =
          IF ~ ByMcp(m) THEN status
          ELSE IF status \in {"201", "204"} THEN "ok" ELSE "error"]
    /\ UNCHANGED job

CollectionInit ==
    /\ props = [c \in Calendars |-> NoColumns]
    /\ step = [m \in Managers |-> "idle"]
    /\ job \in [Managers -> CollectionTasks]
    /\ row = [m \in Managers |-> NoColumns]
    /\ reply = [m \in Managers |-> "none"]

(* A request reaches its handler.  MKCALENDAR first compares the user with *)
(* the one of the path; create_calendar draws an id nobody has used; the   *)
(* sharing tools first look the guest's name up, which may not exist.      *)
Begin(m) ==
    /\ step[m] = "idle"
    /\ \/ /\ job[m].kind = "MKCALENDAR"
          /\ Continue(m, "exists")
       \/ /\ job[m].kind = "MKCALENDAR"
          /\ \E path \in Users : path # job[m].user
          /\ Reply(m, "403")
       \/ /\ job[m].kind \in {"PROPPATCH", "DELETE"}
          /\ Continue(m, "access")
       \/ /\ job[m].kind = "create_calendar"
          /\ job[m].calendar \notin Created
          /\ \A n \in Managers \ {m} :
                 step[n] = "idle" \/ job[n].calendar # job[m].calendar
          /\ Continue(m, "insert")
       \/ job[m].kind = "delete_calendar" /\ Continue(m, "delete")
       \/ job[m].kind = "share_calendar" /\ Continue(m, "grant")
       \/ job[m].kind = "unshare_calendar" /\ Continue(m, "revoke")
       \/ job[m].kind \in {"share_calendar", "unshare_calendar"} /\ Reply(m, "404")
    /\ UNCHANGED <<store, props, row>>

(* verify_calendar_access. *)
CollectionAccess(m) ==
    /\ step[m] = "access"
    /\ \/ /\ HasAccess(job[m].user, job[m].calendar)
          /\ Continue(m, IF job[m].kind = "DELETE" THEN "delete" ELSE "calendar")
       \/ /\ ~ HasAccess(job[m].user, job[m].calendar)
          /\ Reply(m, "403")
    /\ UNCHANGED <<store, props, row>>

(* handle_mkcalendar: 405 if the id is taken. *)
CheckCalendar(m) ==
    /\ step[m] = "exists"
    /\ \/ Exists(job[m].calendar) /\ Reply(m, "405")
       \/ ~ Exists(job[m].calendar) /\ Continue(m, "insert")
    /\ UNCHANGED <<store, props, row>>

(* create_calendar_with_id: the INSERT.  The property columns start at     *)
(* values of their own.                                                    *)
CreateCalendar(m) ==
    LET c == job[m].calendar IN
    /\ step[m] = "insert"
    /\ \/ /\ InsertCalendar(c, job[m].user)
          /\ props' = [props EXCEPT ![c] = [f \in Fields |-> issued + 1]]
          /\ Continue(m, "created")
       \/ /\ Exists(c)
          /\ Reply(m, "500")
          /\ UNCHANGED <<store, props>>
    /\ UNCHANGED row

(* create_calendar_with_id reads the row back. *)
ReadCreated(m) ==
    /\ step[m] = "created"
    /\ Reply(m, IF Exists(job[m].calendar) THEN "201" ELSE "500")
    /\ UNCHANGED <<store, props, row>>

(* delete_calendar: the DELETE.  The answer is a step of its own: between   *)
(* the two the deletion is committed and nobody knows of it.               *)
RemoveCalendar(m) ==
    LET c == job[m].calendar IN
    /\ step[m] = "delete"
    /\ \/ /\ DeleteCalendar(c)
          /\ props' = [props EXCEPT ![c] = NoColumns]
          /\ Continue(m, "confirm")
       \/ /\ ~ Exists(c)
          /\ Reply(m, "404")
          /\ UNCHANGED <<store, props>>
    /\ UNCHANGED row

(* handle_proppatch looks the calendar up. *)
FindCalendar(m) ==
    /\ step[m] = "calendar"
    /\ \/ Exists(job[m].calendar) /\ Continue(m, "read")
       \/ ~ Exists(job[m].calendar) /\ Reply(m, "404")
    /\ UNCHANGED <<store, props, row>>

(* update_calendar reads all property columns. *)
ReadColumns(m) ==
    LET c == job[m].calendar IN
    /\ step[m] = "read"
    /\ \/ /\ Exists(c)
          /\ row' = [row EXCEPT ![m] = props[c]]
          /\ Continue(m, "write")
       \/ /\ ~ Exists(c)
          /\ Reply(m, "500")
          /\ UNCHANGED row
    /\ UNCHANGED <<store, props>>

(* update_calendar writes all of them back, the requested ones changed; no *)
(* row, no effect.  ctag and sync_token are left alone.                    *)
WriteColumns(m) ==
    LET c == job[m].calendar IN
    /\ step[m] = "write"
    /\ issued' = issued + 1
    /\ props' = [props EXCEPT ![c] =
           IF Exists(c)
             THEN [f \in Fields |-> IF f \in job[m].fields THEN issued + 1 ELSE row[m][f]]
             ELSE @]
    /\ Continue(m, "reread")
    /\ UNCHANGED <<owner, sync_token, shares, objects, sync_changes, row>>

(* update_calendar reads the row back. *)
ReadUpdated(m) ==
    /\ step[m] = "reread"
    /\ Reply(m, IF Exists(job[m].calendar) THEN "207" ELSE "500")
    /\ UNCHANGED <<store, props, row>>

(* shares::share_calendar: the INSERT. *)
Grant(m) ==
    LET c == job[m].calendar IN
    /\ step[m] = "grant"
    /\ \/ ShareCalendar(c, job[m].guest) /\ Continue(m, "granted")
       \/ ~ Exists(c) /\ Reply(m, "500") /\ UNCHANGED store
    /\ UNCHANGED <<props, row>>

(* shares::share_calendar reads the share back; a missing row is an error. *)
ReadShare(m) ==
    /\ step[m] = "granted"
    /\ Reply(m, IF job[m].guest \in shares[job[m].calendar] THEN "201" ELSE "500")
    /\ UNCHANGED <<store, props, row>>

(* shares::unshare_calendar: the DELETE. *)
Revoke(m) ==
    LET c == job[m].calendar IN
    /\ step[m] = "revoke"
    /\ \/ UnshareCalendar(c, job[m].guest) /\ Continue(m, "confirm")
       \/ job[m].guest \notin shares[c] /\ Reply(m, "404") /\ UNCHANGED store
    /\ UNCHANGED <<props, row>>

(* A row was deleted, and the handler says so. *)
Confirm(m) ==
    /\ step[m] = "confirm"
    /\ Reply(m, "204")
    /\ UNCHANGED <<store, props, row>>

(* The handler is cut off between two statements, or before its answer. *)
DropManager(m) ==
    /\ "drop" \in Faults
    /\ Busy(m)
    /\ Continue(m, "done")
    /\ UNCHANGED <<store, props, row>>

(* A statement fails.  MKCALENDAR takes a failed existence check for an    *)
(* absent calendar and goes on to the INSERT.                              *)
FailManager(m) ==
    /\ "error" \in Faults
    /\ Busy(m)
    /\ \/ step[m] = "exists" /\ Continue(m, "insert")
       \/ step[m] = "access" /\ Reply(m, "403")
       \/ step[m] = "calendar" /\ Reply(m, "404")
       \/ step[m] \notin {"exists", "access", "calendar", "confirm"} /\ Reply(m, "500")
    /\ UNCHANGED <<store, props, row>>

Manage(m) ==
    \/ CollectionAccess(m) \/ CheckCalendar(m) \/ CreateCalendar(m) \/ ReadCreated(m)
    \/ RemoveCalendar(m) \/ FindCalendar(m) \/ ReadColumns(m) \/ WriteColumns(m)
    \/ ReadUpdated(m) \/ Grant(m) \/ ReadShare(m) \/ Revoke(m) \/ Confirm(m)

ManagerStep ==
    \E m \in Managers : Begin(m) \/ Manage(m) \/ DropManager(m) \/ FailManager(m)

ManagersInit == StoreInit /\ CollectionInit

CollectionSpec == ManagersInit /\ [][ManagerStep]_collectionVars

----------------------------------------------------------------------------
CreatedBy(c) ==
    {m \in Managers : /\ job[m].calendar = c
                      /\ job[m].kind \in {"MKCALENDAR", "create_calendar"}
                      /\ reply[m] \in {"201", "ok"}}

\* Confirmed deletions, and those whose client was not told how they ended.
DeletedBy(c) ==
    {m \in Managers : /\ job[m].calendar = c
                      /\ job[m].kind \in {"DELETE", "delete_calendar"}
                      /\ step[m] \in {"confirm", "done"}
                      /\ reply[m] \in {"204", "ok", "none"}}

(* However the existence checks and INSERTs of concurrent MKCALENDARs      *)
(* interleave, two of them are told "created" for the same id only if a    *)
(* deletion of the calendar was confirmed, or left unanswered when its     *)
(* handler was cut off ("MKCALENDAR cannot overwrite").                    *)
OneCreationPerLifetime ==
    \A c \in Calendars :
        Cardinality(CreatedBy(c)) + (IF c \in Created THEN 1 ELSE 0)
            <= Cardinality(DeletedBy(c)) + 1

=============================================================================
