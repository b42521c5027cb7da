---------------------------- MODULE SyncReports ----------------------------
(***************************************************************************)
(* The sync-collection REPORT (handle_sync of src/caldav/report.rs) and    *)
(* the client that mirrors a calendar with it.  The server part is one     *)
(* step per SQL statement: the calendar row, then the object list or the   *)
(* anchor and the change log, then one object row per change.  The client  *)
(* part (external) keeps a copy and a token, applies the response entries  *)
(* in their order and keeps the token for its next report.                 *)
(***************************************************************************)
EXTENDS ObjectRequests

CONSTANTS
    Clients,        \* the mirroring clients, each with one report at a time
    ReportLimit     \* the entries that fit into the 512 KiB of handle_report

ASSUME ReportLimitAssumption == ReportLimit \in Nat

VARIABLES
    at,             \* the statement each client's report executes next
    viewer,         \* the user of each client
    mirrored,       \* the calendar each client mirrors
    token,          \* the sync token the client holds; None before its first
    copy,           \* the client's copy: uid -> etag
    read_token,     \* handle_sync's calendar.sync_token
    anchor,         \* get_sync_changes_since's anchor
    todo,           \* the changes handle_sync has not turned into entries yet
    entries         \* the response elements of the MultistatusBuilder

clients == <<at, viewer, mirrored, token, copy, read_token, anchor, todo, entries>>

allVars == <<store, requests, clients>>

ReportStatements == {"access", "calendar", "list", "anchor", "changes", "entry", "deliver"}

\* One response element: propstats lists the statuses of its propstat parts.
Entry == [uid : Uids, etag : Nat, propstats : SUBSET {"200", "404"}]

ClientsTypeOK ==
    /\ at \in [Clients -> ReportStatements \cup {"idle"}]
    /\ viewer \in [Clients -> Users]
    /\ mirrored \in [Clients -> Calendars]
    /\ token \in [Clients -> Nat]
    /\ copy \in [Clients -> [Uids -> Nat]]
    /\ read_token \in [Clients -> Nat]
    /\ anchor \in [Clients -> Nat]
    /\ todo \in [Clients -> Seq(Change)]
    /\ entries \in [Clients -> Seq(Entry)]

\* Tables, requests, reports and clients keep the types of their fields.
SyncTypeOK == TypeOK /\ ClientsTypeOK

----------------------------------------------------------------------------
\* add_response: a propstat part only for a list that is not empty.
AddResponse(u, e, found, notFound) ==
    [uid |-> u, etag |-> e,
     propstats |-> (IF found THEN {"200"} ELSE {}) \cup
                   (IF notFound THEN {"404"} ELSE {})]

ObjectEntry(c, u) == AddResponse(u, ObjectByUid(c, u), TRUE, FALSE)

DeletedEntry(u) == AddResponse(u, None, FALSE, FALSE)

\* list_objects as response elements.  It sorts by dtstart, which the model
\* does not keep: any order.
Listings(c) ==
    LET present == {u \in Uids : objects[c][u] # None}
        orders  == {f \in [1 .. Cardinality(present) -> present] :
                       \A i, j \in DOMAIN f : f[i] = f[j] => i = j}
    IN  {[i \in 1 .. Cardinality(present) |-> ObjectEntry(c, f[i])] : f \in orders}

\* What the entries make of a copy: the last entry of a uid decides; one
\* without a 200 part removes the object.
LastEntry(seq, u) ==
    CHOOSE i \in DOMAIN seq :
        /\ seq[i].uid = u
        /\ \A j \in DOMAIN seq : seq[j].uid = u => j <= i

Applied(old, seq) ==
    [u \in Uids |->
        IF \E i \in DOMAIN seq : seq[i].uid = u
          THEN LET e == seq[LastEntry(seq, u)]
               IN  IF "200" \in e.propstats THEN e.etag ELSE None
          ELSE old[u]]

----------------------------------------------------------------------------
ClientsInit ==
    /\ at = [k \in Clients |-> "idle"]
    /\ viewer \in [Clients -> Users]
    /\ mirrored \in [Clients -> Calendars]
    /\ token = [k \in Clients |-> None]
    /\ copy = [k \in Clients |-> [u \in Uids |-> None]]
    /\ read_token = [k \in Clients |-> None]
    /\ anchor = [k \in Clients |-> None]
    /\ todo = [k \in Clients |-> << >>]
    /\ entries = [k \in Clients |-> << >>]

SyncInit == Init /\ ClientsInit

Move(k, label) == at' = [at EXCEPT ![k] = label]

(* The client sends a REPORT with the token it holds. *)
SendReport(k) ==
    /\ at[k] = "idle"
    /\ Move(k, "access")
    /\ UNCHANGED <<viewer, mirrored, token, copy, read_token, anchor, todo, entries>>

(* verify_calendar_access; 403 tells the client nothing. *)
ReportAccess(k) ==
    /\ at[k] = "access"
    /\ Move(k, IF HasAccess(viewer[k], mirrored[k]) THEN "calendar" ELSE "idle")
    /\ UNCHANGED <<viewer, mirrored, token, copy, read_token, anchor, todo, entries>>

(* handle_sync reads the calendar row, whose token the response will carry. *)
ReadCalendar(k) ==
    /\ at[k] = "calendar"
    /\ \/ /\ Exists(mirrored[k])
          /\ read_token' = [read_token EXCEPT ![k] = sync_token[mirrored[k]]]
          /\ Move(k, IF token[k] = None THEN "list" ELSE "anchor")
       \/ /\ ~ Exists(mirrored[k])
          /\ Move(k, "idle")
          /\ UNCHANGED read_token
    /\ UNCHANGED <<viewer, mirrored, token, copy, anchor, todo, entries>>

(* Initial sync: list_objects. *)
ListObjects(k) ==
    /\ at[k] = "list"
    /\ \E seq \in Listings(mirrored[k]) : entries' = [entries EXCEPT ![k] = seq]
    /\ Move(k, "deliver")
    /\ UNCHANGED <<viewer, mirrored, token, copy, read_token, anchor, todo>>

(* Delta sync: look the client's token up in the change log. *)
FindAnchor(k) ==
    /\ at[k] = "anchor"
    /\ anchor' = [anchor EXCEPT ![k] = AnchorId(mirrored[k], token[k])]
    /\ Move(k, "changes")
    /\ UNCHANGED <<viewer, mirrored, token, copy, read_token, todo, entries>>

(* Delta sync: the changes after the anchor. *)
ReadChanges(k) ==
    /\ at[k] = "changes"
    /\ todo' = [todo EXCEPT ![k] = ChangesAfter(mirrored[k], anchor[k])]
    /\ anchor' = [anchor EXCEPT ![k] = None]
    /\ Move(k, "entry")
    /\ UNCHANGED <<viewer, mirrored, token, copy, read_token, entries>>

\* Mutant: deletions are left out of the response.
AddEntrySkippingDeletions(k) ==
    /\ at[k] = "entry"
    /\ todo[k] # << >>
    /\ todo' = [todo EXCEPT ![k] = Tail(@)]
    /\ entries' = [entries EXCEPT ![k] =
           IF ObjectByUid(mirrored[k], Head(todo[k]).uid) = None
             THEN @ ELSE Append(@, ObjectEntry(mirrored[k], Head(todo[k]).uid))]
    /\ UNCHANGED <<at, viewer, mirrored, token, copy, read_token, anchor>>

(* Delta sync, one change: a deletion, or the object as it is now, if any. *)
AddEntry(k) ==
    LET ch == Head(todo[k])
        c  == mirrored[k]
    IN
    /\ at[k] = "entry"
    /\ todo[k] # << >>
    /\ todo' = [todo EXCEPT ![k] = Tail(@)]
    /\ \/ /\ ch.change = "deleted"
          /\ entries' = [entries EXCEPT ![k] = Append(@, DeletedEntry(ch.uid))]
       \/ /\ ch.change # "deleted"
          /\ ObjectByUid(c, ch.uid) # None
          /\ entries' = [entries EXCEPT ![k] = Append(@, ObjectEntry(c, ch.uid))]
       \/ /\ ch.change # "deleted"
          /\ ObjectByUid(c, ch.uid) = None
          /\ UNCHANGED entries
    /\ UNCHANGED <<at, viewer, mirrored, token, copy, read_token, anchor>>

(* Delta sync: every change is in the response. *)
FinishEntries(k) ==
    /\ at[k] = "entry"
    /\ todo[k] = << >>
    /\ Move(k, "deliver")
    /\ UNCHANGED <<viewer, mirrored, token, copy, read_token, anchor, todo, entries>>

\* Mutant: the token is read when the response is complete.
DeliverLateToken(k) ==
    /\ at[k] = "deliver"
    /\ copy' = [copy EXCEPT ![k] = Applied(copy[k], entries[k])]
    /\ token' = [token EXCEPT ![k] = sync_token[mirrored[k]]]
    /\ Move(k, "idle")
    /\ entries' = [entries EXCEPT ![k] = << >>]
    /\ read_token' = [read_token EXCEPT ![k] = None]
    /\ UNCHANGED <<viewer, mirrored, anchor, todo>>

(* handle_report returns the body, empty if it exceeds the limit; the      *)
(* client applies the entries and keeps the token.                         *)
Deliver(k) ==
    /\ at[k] = "deliver"
    /\ \/ /\ Len(entries[k]) <= ReportLimit
          /\ copy' = [copy EXCEPT ![k] = Applied(copy[k], entries[k])]
          /\ token' = [token EXCEPT ![k] = read_token[k]]
       \/ /\ Len(entries[k]) > ReportLimit
          /\ UNCHANGED <<copy, token>>
    /\ Move(k, "idle")
    /\ entries' = [entries EXCEPT ![k] = << >>]
    /\ read_token' = [read_token EXCEPT ![k] = None]
    /\ UNCHANGED <<viewer, mirrored, anchor, todo>>

(* The response is lost, or the handler is dropped. *)
LoseReport(k) ==
    /\ "lose" \in Faults
    /\ at[k] # "idle"
    /\ Move(k, "idle")
    /\ entries' = [entries EXCEPT ![k] = << >>]
    /\ todo' = [todo EXCEPT ![k] = << >>]
    /\ read_token' = [read_token EXCEPT ![k] = None]
    /\ anchor' = [anchor EXCEPT ![k] = None]
    /\ UNCHANGED <<viewer, mirrored, token, copy>>

(* A statement fails.  Every query of handle_sync but the first takes an   *)
(* error for an empty result, and the report goes on.                      *)
FailStatement(k) ==
    /\ "unread" \in Faults
    /\ \/ at[k] \in {"access", "calendar"} /\ Move(k, "idle") /\ UNCHANGED todo
       \/ at[k] \in {"list", "anchor", "changes"} /\ Move(k, "deliver") /\ UNCHANGED todo
       \/ /\ at[k] = "entry" /\ todo[k] # << >> /\ Head(todo[k]).change # "deleted"
          /\ todo' = [todo EXCEPT ![k] = Tail(@)]
          /\ UNCHANGED at
    /\ anchor' = [anchor EXCEPT ![k] = None]
    /\ UNCHANGED <<viewer, mirrored, token, copy, read_token, entries>>

ReportStep(k) ==
    \/ ReportAccess(k) \/ ReadCalendar(k) \/ ListObjects(k) \/ FindAnchor(k)
    \/ ReadChanges(k) \/ AddEntry(k) \/ FinishEntries(k) \/ Deliver(k)

ClientStep ==
    /\ \E k \in Clients : SendReport(k) \/ ReportStep(k) \/ LoseReport(k) \/ FailStatement(k)
    /\ UNCHANGED <<store, requests>>

SyncNext == (RequestStep /\ UNCHANGED clients) \/ ClientStep

\* As Fairness; in addition the client keeps polling, and is answered.
Polling == \A k \in Clients :
    WF_allVars(SendReport(k) /\ UNCHANGED <<store, requests>>) /\
    WF_allVars(ReportStep(k) /\ UNCHANGED <<store, requests>>)

Handling == \A r \in Requests : WF_allVars(Handle(r) /\ UNCHANGED clients)

SyncSpec == SyncInit /\ [][SyncNext]_allVars

FairSyncSpec == SyncSpec /\ Handling /\ Polling

----------------------------------------------------------------------------
(* What a client may rely on *)

Settled(c) == \A r \in Requests : Cal(r) = c => pc[r] \notin {"log", "bump"}

(* A client whose token is the calendar's current one, while no request is *)
(* between its row write and its bump, holds exactly the stored objects:   *)
(* an unchanged token really means that there is nothing to fetch.         *)
CurrentTokenMeansCurrentCopy ==
    \A k \in Clients :
        LET c == mirrored[k] IN
        token[k] # None /\ token[k] = sync_token[c] /\ Settled(c) =>
            copy[k] = objects[c]

(* No token that a client can hold occurs in the change log, so the delta  *)
(* query never finds its anchor and a delta response starts from the whole *)
(* log: it never omits a change, and it is never shorter than the log.     *)
DeltaIsWholeLog ==
    \A k \in Clients :
        /\ at[k] = "changes" => anchor[k] = None
        /\ Anchors(mirrored[k], token[k]) = {}

(* "returns only changes since a given sync token": a report on a calendar *)
(* that has not changed since the client's token carries no change.        *)
DeltaOnlyNews ==
    \A k \in Clients :
        at[k] = "entry" /\ token[k] = read_token[k] /\ Settled(mirrored[k]) =>
            todo[k] = << >>

(* Once the writers are done, a client that keeps polling ends up with the *)
(* stored objects and stays there.                                         *)
EventuallyMirrored ==
    <>[](\A k \in Clients : HasAccess(viewer[k], mirrored[k]) =>
            copy[k] = objects[mirrored[k]])

=============================================================================
