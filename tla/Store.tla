------------------------------- MODULE Store -------------------------------
(***************************************************************************)
(* The SQLite database (migrations/001_initial.sql) and the SQL statements *)
(* of src/db.  The code opens no transaction: every statement commits on   *)
(* its own, so one operator here is one atomic step of some handler.       *)
(*                                                                         *)
(* Abstraction of the data.  Every etag (UUID v4), every sync token and    *)
(* every change id is a number that no earlier step has drawn (`issued` is *)
(* the last one drawn).  An object row is its etag: each write draws a new *)
(* one, so the etag also names the body that was written with it.  0 is    *)
(* the absent row, the empty token and the missing header.                 *)
(***************************************************************************)
EXTENDS Integers, Sequences, FiniteSets

CONSTANTS
    Calendars,      \* calendar ids, chosen by clients in MKCALENDAR URLs
    Uids,           \* object uids
    Users,          \* user ids
    NoUser,         \* owner of a calendar that has no row
    Created,        \* the calendars that exist at the start
    Faults          \* what may go wrong: "drop", a handler is cut off between
                    \* two statements; "error", a statement of a writing
                    \* handler fails; "unread", a query of a report fails;
                    \* "lose", a response does not reach its client

ASSUME StoreAssumptions ==
    /\ NoUser \notin Users
    /\ IsFiniteSet(Calendars)
    /\ IsFiniteSet(Uids)
    /\ Created \subseteq Calendars
    /\ Faults \subseteq {"drop", "error", "unread", "lose"}

VARIABLES
    owner,          \* calendars.owner_id
    sync_token,     \* calendars.sync_token, and calendars.ctag: every
                    \* statement that writes one writes the same value to both
    shares,         \* calendar_shares: the users a calendar is shared with
    objects,        \* calendar_objects: calendar -> uid -> etag
    sync_changes,   \* sync_changes of each calendar, in the order of its id
    issued          \* the last number drawn for an etag, a token or an id

store == <<owner, sync_token, shares, objects, sync_changes, issued>>

None == 0

ChangeType == {"created", "modified", "deleted"}

\* A row of sync_changes.  The code draws its token some statements before the
\* INSERT, which draws its id; tokens are only compared for equality and ids
\* only with each other, so the model draws one number for both at the INSERT.
Change == [uid : Uids, change : ChangeType, token : Nat \ {0}]

StoreTypeOK ==
    /\ owner \in [Calendars -> Users \cup {NoUser}]
    /\ sync_token \in [Calendars -> Nat]
    /\ shares \in [Calendars -> SUBSET Users]
    /\ objects \in [Calendars -> [Uids -> Nat]]
    /\ sync_changes \in [Calendars -> Seq(Change)]
    /\ issued \in Nat

\* Calendars without objects, with distinct tokens.
StoreInit ==
    /\ owner \in {f \in [Calendars -> Users \cup {NoUser}] :
                    \A c \in Calendars : f[c] # NoUser <=> c \in Created}
    /\ \E n \in [Calendars -> 1 .. Cardinality(Calendars)] :
           /\ \A c, d \in Calendars : n[c] = n[d] => c = d
           /\ sync_token = [c \in Calendars |-> IF c \in Created THEN n[c] ELSE None]
    /\ shares = [c \in Calendars |-> {}]
    /\ objects = [c \in Calendars |-> [u \in Uids |-> None]]
    /\ sync_changes = [c \in Calendars |-> << >>]
    /\ issued = Cardinality(Calendars)

----------------------------------------------------------------------------
(* Queries *)

Exists(c) == owner[c] # NoUser

\* list_calendars_for_user: owned by or shared with u
Accessible(u) ==
    {c \in Calendars : owner[c] = u \/ (Exists(c) /\ u \in shares[c])}

\* verify_calendar_access
HasAccess(u, c) == c \in Accessible(u)

\* get_object_by_uid: the etag, or None
ObjectByUid(c, u) == objects[c][u]

\* The first statement of get_sync_changes_since: the id of the change that
\* carries the client's token, if there is one.
Anchors(c, since) ==
    {i \in DOMAIN sync_changes[c] : sync_changes[c][i].token = since}

AnchorId(c, since) ==
    IF Anchors(c, since) = {}
      THEN None
      ELSE sync_changes[c][CHOOSE i \in Anchors(c, since) : TRUE].token

\* Its second statement: the changes after the anchor, all of them without one.
ChangesAfter(c, anchor) ==
    IF anchor = None
      THEN sync_changes[c]
      ELSE SelectSeq(sync_changes[c], LAMBDA ch : ch.token > anchor)

----------------------------------------------------------------------------
(* Statements that write *)

\* Mutant: no UNIQUE(calendar_id, uid).
InsertIgnoringUnique(c, u) == Exists(c)

\* INSERT INTO calendar_objects: fails on the foreign key and on
\* UNIQUE(calendar_id, uid).
CanInsertObject(c, u) == Exists(c) /\ objects[c][u] = None

InsertObject(c, u, e) ==
    /\ CanInsertObject(c, u)
    /\ objects' = [objects EXCEPT ![c][u] = e]
    /\ UNCHANGED <<owner, sync_token, shares, sync_changes, issued>>

\* Mutant: the UPDATE leaves the etag column out.
UpdateKeepingEtag(c, u, e) == UNCHANGED store

\* Mutant: the UPDATE's condition names the calendar only.
UpdateWholeCalendar(c, u, e) ==
    /\ objects' = [objects EXCEPT ![c] = [v \in Uids |-> IF @[v] = None THEN None ELSE e]]
    /\ UNCHANGED <<owner, sync_token, shares, sync_changes, issued>>

\* UPDATE calendar_objects: an absent row is no error, and stays absent.
UpdateObject(c, u, e) ==
    /\ objects' = [objects EXCEPT ![c][u] = IF @ = None THEN None ELSE e]
    /\ UNCHANGED <<owner, sync_token, shares, sync_changes, issued>>

\* DELETE FROM calendar_objects, when it affects a row
DeleteObject(c, u) ==
    /\ objects[c][u] # None
    /\ objects' = [objects EXCEPT ![c][u] = None]
    /\ UNCHANGED <<owner, sync_token, shares, sync_changes, issued>>

\* Mutant: the log has no foreign key.
LogWithoutForeignKey(c, u, change) ==
    /\ issued' = issued + 1
    /\ sync_changes' = [sync_changes EXCEPT ![c] =
            Append(@, [uid |-> u, change |-> change, token |-> issued + 1])]
    /\ UNCHANGED <<owner, sync_token, shares, objects>>

\* Mutant: the change is logged with the calendar's current token.
LogCurrentToken(c, u, change) ==
    /\ Exists(c)
    /\ sync_changes' = [sync_changes EXCEPT ![c] =
            Append(@, [uid |-> u, change |-> change, token |-> sync_token[c]])]
    /\ UNCHANGED <<owner, sync_token, shares, objects, issued>>

\* INSERT INTO sync_changes (log_sync_change), with a token drawn for this
\* row alone; fails on the foreign key.
LogSyncChange(c, u, change) ==
    /\ Exists(c)
    /\ issued' = issued + 1
    /\ sync_changes' = [sync_changes EXCEPT ![c] =
            Append(@, [uid |-> u, change |-> change, token |-> issued + 1])]
    /\ UNCHANGED <<owner, sync_token, shares, objects>>

\* Mutant: the UPDATE leaves the token column out.
BumpNothing(c) == UNCHANGED store

\* Mutant: the token just logged is used again.
BumpWithLoggedToken(c) ==
    /\ sync_token' = [sync_token EXCEPT ![c] = IF Exists(c) THEN issued ELSE @]
    /\ UNCHANGED <<owner, shares, objects, sync_changes, issued>>

\* bump_ctag: another token, drawn here; no row, no effect.
BumpCtag(c) ==
    /\ issued' = issued + 1
    /\ sync_token' = [sync_token EXCEPT ![c] =
            IF Exists(c) THEN issued + 1 ELSE @]
    /\ UNCHANGED <<owner, shares, objects, sync_changes>>

\* Mutant: INSERT OR REPLACE.
ReplaceCalendar(c, u) ==
    /\ issued' = issued + 1
    /\ owner' = [owner EXCEPT ![c] = u]
    /\ sync_token' = [sync_token EXCEPT ![c] = issued + 1]
    /\ UNCHANGED <<shares, objects, sync_changes>>

\* INSERT INTO calendars (create_calendar_with_id): fails on the primary key;
\* the new row starts with a token of its own.
InsertCalendar(c, u) ==
    /\ ~ Exists(c)
    /\ issued' = issued + 1
    /\ owner' = [owner EXCEPT ![c] = u]
    /\ sync_token' = [sync_token EXCEPT ![c] = issued + 1]
    /\ UNCHANGED <<shares, objects, sync_changes>>

\* DELETE FROM calendars: ON DELETE CASCADE empties the other tables.
DeleteCalendar(c) ==
    /\ Exists(c)
    /\ owner' = [owner EXCEPT ![c] = NoUser]
    /\ sync_token' = [sync_token EXCEPT ![c] = None]
    /\ shares' = [shares EXCEPT ![c] = {}]
    /\ objects' = [objects EXCEPT ![c] = [u \in Uids |-> None]]
    /\ sync_changes' = [sync_changes EXCEPT ![c] = << >>]
    /\ UNCHANGED issued

\* INSERT INTO calendar_shares ... ON CONFLICT DO UPDATE: fails on the
\* foreign key only.
ShareCalendar(c, u) ==
    /\ Exists(c)
    /\ shares' = [shares EXCEPT ![c] = @ \cup {u}]
    /\ UNCHANGED <<owner, sync_token, objects, sync_changes, issued>>

\* DELETE FROM calendar_shares, when it affects a row
UnshareCalendar(c, u) ==
    /\ u \in shares[c]
    /\ shares' = [shares EXCEPT ![c] = @ \ {u}]
    /\ UNCHANGED <<owner, sync_token, objects, sync_changes, issued>>

----------------------------------------------------------------------------
(* In every interleaving of object requests with the deletion and the      *)
(* re-creation of their calendar, a calendar without a row has nothing in  *)
(* the other tables: the foreign keys stop the statements of a handler     *)
(* whose calendar went away after its access check.                        *)
NoOrphans ==
    \A c \in Calendars :
        ~ Exists(c) => /\ sync_token[c] = None
                       /\ shares[c] = {}
                       /\ objects[c] = [u \in Uids |-> None]
                       /\ sync_changes[c] = << >>

=============================================================================
