---------------------------- MODULE ServerProofs ----------------------------
(***************************************************************************)
(* Proofs about the two servers over one database, for any number of       *)
(* calendars, objects, users, requests and clients, and with every fault.  *)
(***************************************************************************)
EXTENDS Server, ObjectRequestsProofs, WellFoundedInduction

----------------------------------------------------------------------------
(* The database as its handlers see it: each step executes at most one     *)
(* writing statement.                                                      *)

(* A number is drawn and nothing else happens to the tables.               *)
Draw ==
    /\ issued' = issued + 1
    /\ UNCHANGED <<owner, sync_token, shares, objects, sync_changes>>

(* One statement of src/db, on some calendar.                              *)
Statement(c) ==
    \/ \E u \in Uids, e \in Nat : InsertObject(c, u, e) \/ UpdateObject(c, u, e)
    \/ \E u \in Uids : DeleteObject(c, u)
    \/ \E u \in Uids, t \in ChangeType : LogSyncChange(c, u, t)
    \/ BumpCtag(c)
    \/ \E u \in Users : InsertCalendar(c, u) \/ ShareCalendar(c, u) \/ UnshareCalendar(c, u)
    \/ DeleteCalendar(c)

StoreNext == Draw \/ \E c \in Calendars : Statement(c)

(* Every statement keeps the tables well typed.                            *)
LEMMA StoreNextType ==
  ASSUME StoreTypeOK, StoreNext
  PROVE  StoreTypeOK'
<1>1. CASE Draw
  BY <1>1 DEF Draw, StoreTypeOK
<1>2. ASSUME NEW c \in Calendars, Statement(c) PROVE StoreTypeOK'
  <2>1. ASSUME NEW u \in Users, InsertCalendar(c, u)
        PROVE  StoreTypeOK'
    BY <2>1 DEF InsertCalendar, StoreTypeOK
  <2>3. ASSUME NEW u \in Users, ShareCalendar(c, u)
        PROVE  StoreTypeOK'
    BY <2>3 DEF ShareCalendar, StoreTypeOK
  <2>4. ASSUME NEW u \in Users, UnshareCalendar(c, u)
        PROVE  StoreTypeOK'
    BY <2>4 DEF UnshareCalendar, StoreTypeOK
  <2>2. CASE DeleteCalendar(c)
    BY <2>2 DEF DeleteCalendar, StoreTypeOK, None
  <2> QED
    BY <1>2, <2>1, <2>2, <2>3, <2>4, InsertObjectType, UpdateObjectType, DeleteObjectType,
       LogSyncChangeType, BumpCtagType DEF Statement
<1> QED
  BY <1>1, <1>2 DEF StoreNext

(* No statement leaves rows behind that refer to a calendar without a row. *)
LEMMA StoreNextNoOrphans ==
  ASSUME StoreTypeOK, NoOrphans, StoreNext
  PROVE  NoOrphans'
<1> USE DEF Exists
<1>1. CASE Draw
  BY <1>1 DEF Draw, NoOrphans
<1>2. ASSUME NEW c \in Calendars, Statement(c) PROVE NoOrphans'
  <2>1. ASSUME NEW u \in Uids, NEW e \in Nat, InsertObject(c, u, e)
        PROVE  NoOrphans'
    BY <2>1 DEF InsertObject, CanInsertObject, NoOrphans, StoreTypeOK
  <2>2. ASSUME NEW u \in Uids, NEW e \in Nat, UpdateObject(c, u, e)
        PROVE  NoOrphans'
    <3>1. ASSUME ~ Exists(c) PROVE objects'[c] = [v \in Uids |-> None]
      BY <2>2, <3>1 DEF UpdateObject, NoOrphans, StoreTypeOK
    <3> QED
      BY <2>2, <3>1 DEF UpdateObject, NoOrphans, StoreTypeOK
  <2>3. ASSUME NEW u \in Uids, DeleteObject(c, u)
        PROVE  NoOrphans'
    BY <2>3 DEF DeleteObject, NoOrphans, StoreTypeOK
  <2>4. ASSUME NEW u \in Uids, NEW t \in ChangeType, LogSyncChange(c, u, t)
        PROVE  NoOrphans'
    BY <2>4 DEF LogSyncChange, NoOrphans, StoreTypeOK
  <2>5. CASE BumpCtag(c)
    BY <2>5 DEF BumpCtag, NoOrphans, StoreTypeOK
  <2>6. ASSUME NEW u \in Users, InsertCalendar(c, u)
        PROVE  NoOrphans'
    BY <2>6, StoreAssumptions DEF InsertCalendar, NoOrphans, StoreTypeOK
  <2>7. ASSUME NEW u \in Users, ShareCalendar(c, u) \/ UnshareCalendar(c, u)
        PROVE  NoOrphans'
    BY <2>7 DEF ShareCalendar, UnshareCalendar, NoOrphans, StoreTypeOK
  <2>8. CASE DeleteCalendar(c)
    BY <2>8 DEF DeleteCalendar, NoOrphans, StoreTypeOK
  <2> QED
    BY <1>2, <2>1, <2>2, <2>3, <2>4, <2>5, <2>6, <2>7, <2>8 DEF Statement
<1> QED
  BY <1>1, <1>2 DEF StoreNext

----------------------------------------------------------------------------
(* Every step of a request, of any kind, executes at most one statement.   *)
LEMMA RequestStepStatement ==
  ASSUME TypeOK, RequestStep
  PROVE  StoreNext \/ UNCHANGED store
<1> PICK r \in Requests : Arrive(r) \/ Handle(r) \/ Drop(r) \/ Fail(r)
  BY DEF RequestStep
<1>0. Cal(r) \in Calendars /\ Uid(r) \in Uids /\ etag[r] \in Nat /\ ChangeOf(r) \in ChangeType
  BY DEF TypeOK, RequestsTypeOK, Task, Cal, Uid, ChangeOf, ChangeType
<1>1. CASE Arrive(r) \/ VerifyAccess(r) \/ CheckIfMatch(r) \/ LookupEvent(r) \/ ReadBack(r)
             \/ Drop(r) \/ Fail(r)
  BY <1>1 DEF Arrive, VerifyAccess, CheckIfMatch, LookupEvent, ReadBack, Drop, Fail
<1>2. CASE SelectExisting(r)
  BY <1>2 DEF SelectExisting, StoreNext, Draw
<1>3. CASE InsertRow(r)
  BY <1>3, <1>0 DEF InsertRow, StoreNext, Statement
<1>4. CASE UpdateRow(r)
  BY <1>4, <1>0 DEF UpdateRow, StoreNext, Statement
<1>5. CASE DeleteRow(r)
  BY <1>5, <1>0 DEF DeleteRow, StoreNext, Statement
<1>6. CASE LogChange(r)
  BY <1>6, <1>0 DEF LogChange, StoreNext, Statement
<1>7. CASE Bump(r)
  BY <1>7, <1>0 DEF Bump, StoreNext, Statement
<1> QED
  BY <1>1, <1>2, <1>3, <1>4, <1>5, <1>6, <1>7 DEF Handle

(* So does every step of a collection request.                             *)
LEMMA ManagerStepStatement ==
  ASSUME CollectionTypeOK, ManagerStep
  PROVE  StoreNext \/ UNCHANGED store
<1> PICK m \in Managers : Begin(m) \/ Manage(m) \/ DropManager(m) \/ FailManager(m)
  BY DEF ManagerStep
<1>0. job[m].calendar \in Calendars /\ job[m].user \in Users /\ job[m].guest \in Users
  BY DEF CollectionTypeOK, CollectionTask
<1>1. CASE Begin(m) \/ CollectionAccess(m) \/ CheckCalendar(m) \/ ReadCreated(m)
             \/ FindCalendar(m) \/ ReadColumns(m) \/ ReadUpdated(m) \/ ReadShare(m)
             \/ Confirm(m) \/ DropManager(m) \/ FailManager(m)
  BY <1>1 DEF Begin, CollectionAccess, CheckCalendar, ReadCreated, FindCalendar,
              ReadColumns, ReadUpdated, ReadShare, Confirm, DropManager, FailManager
<1>2. CASE CreateCalendar(m)
  BY <1>2, <1>0 DEF CreateCalendar, StoreNext, Statement
<1>3. CASE RemoveCalendar(m)
  BY <1>3, <1>0 DEF RemoveCalendar, StoreNext, Statement
<1>4. CASE WriteColumns(m)
  BY <1>4 DEF WriteColumns, StoreNext, Draw
<1>5. CASE Grant(m)
  BY <1>5, <1>0 DEF Grant, StoreNext, Statement
<1>6. CASE Revoke(m)
  BY <1>6, <1>0 DEF Revoke, StoreNext, Statement
<1> QED
  BY <1>1, <1>2, <1>3, <1>4, <1>5, <1>6 DEF Manage

(* The same for the composition; reports only read.                        *)
LEMMA ServerStepStatement ==
  ASSUME ServerTypeOK, [ServerNext]_serverVars
  PROVE  StoreNext \/ UNCHANGED store
BY RequestStepStatement, ManagerStepStatement
DEF ServerNext, SyncNext, ClientStep, serverVars, ServerTypeOK, SyncTypeOK

----------------------------------------------------------------------------
(* The inductive invariant *)

(* Everything drawn so far is at most `issued`, and the tokens of the      *)
(* change log are disjoint from the tokens of the calendars, of the        *)
(* running reports and of the clients: upsert_object and delete_object     *)
(* draw the logged token, bump_ctag draws another one for the calendar,    *)
(* and only the latter is ever sent to a client.                           *)
TokensBounded ==
    /\ \A c \in Calendars : sync_token[c] <= issued
    /\ \A c \in Calendars : \A i \in DOMAIN sync_changes[c] :
           sync_changes[c][i].token <= issued
    /\ \A k \in Clients : token[k] <= issued /\ read_token[k] <= issued

TokensApart ==
    \A c \in Calendars : \A i \in DOMAIN sync_changes[c] :
        /\ \A d \in Calendars : sync_changes[c][i].token # sync_token[d]
        /\ \A k \in Clients : sync_changes[c][i].token \notin {token[k], read_token[k]}

NoAnchor == \A k \in Clients : anchor[k] = None

TokensSeparate == TokensBounded /\ TokensApart /\ NoAnchor

(* Logged tokens are positive.                                             *)
LEMMA LoggedTokenType ==
  ASSUME StoreTypeOK, NEW c \in Calendars, NEW i \in DOMAIN sync_changes[c]
  PROVE  sync_changes[c][i].token \in Nat \ {0}
<1>1. sync_changes[c][i] \in Change
  BY DEF StoreTypeOK
<1> QED
  BY <1>1 DEF Change

(* The tokens of the change log after one statement: none, an old one, or  *)
(* one drawn by this statement, which then leaves the calendars alone.     *)
LEMMA LoggedTokens ==
  ASSUME StoreTypeOK, StoreNext, NEW c \in Calendars, NEW i \in DOMAIN sync_changes'[c]
  PROVE  \/ /\ i \in DOMAIN sync_changes[c]
            /\ sync_changes'[c][i] = sync_changes[c][i]
         \/ /\ sync_changes'[c][i].token = issued + 1
            /\ issued' = issued + 1
            /\ sync_token' = sync_token
<1>1. CASE Draw
  BY <1>1 DEF Draw
<1>2. ASSUME NEW d \in Calendars, NEW u \in Uids, NEW t \in ChangeType, LogSyncChange(d, u, t)
      PROVE  \/ /\ i \in DOMAIN sync_changes[c]
                /\ sync_changes'[c][i] = sync_changes[c][i]
             \/ /\ sync_changes'[c][i].token = issued + 1
                /\ issued' = issued + 1
                /\ sync_token' = sync_token
  <2>1. CASE d # c
    BY <1>2, <2>1 DEF LogSyncChange, StoreTypeOK
  <2>2. CASE d = c
    <3> DEFINE entry == [uid |-> u, change |-> t, token |-> issued + 1]
    <3>1. sync_changes'[c] = Append(sync_changes[c], entry)
      BY <1>2, <2>2 DEF LogSyncChange, StoreTypeOK
    <3>2. sync_changes[c] \in Seq(Change) /\ entry \in Change
      BY NewChangeType DEF StoreTypeOK
    <3>3. CASE i = Len(sync_changes[c]) + 1
      BY <1>2, <3>1, <3>2, <3>3 DEF LogSyncChange
    <3>4. CASE i # Len(sync_changes[c]) + 1
      BY <3>1, <3>2, <3>4
    <3> QED
      BY <3>3, <3>4
  <2> QED
    BY <2>1, <2>2
<1>3. ASSUME NEW d \in Calendars, DeleteCalendar(d)
      PROVE  i \in DOMAIN sync_changes[c] /\ sync_changes'[c][i] = sync_changes[c][i]
  BY <1>3 DEF DeleteCalendar, StoreTypeOK
<1>4. ASSUME NEW d \in Calendars, Statement(d), UNCHANGED sync_changes
      PROVE  i \in DOMAIN sync_changes[c] /\ sync_changes'[c][i] = sync_changes[c][i]
  BY <1>4
<1> QED
  BY <1>1, <1>2, <1>3, <1>4 DEF StoreNext, Statement, InsertObject, UpdateObject,
     DeleteObject, BumpCtag, InsertCalendar, ShareCalendar, UnshareCalendar

(* The tokens of the calendars after one statement.                        *)
LEMMA CalendarTokens ==
  ASSUME StoreTypeOK, StoreNext, NEW c \in Calendars
  PROVE  /\ issued' \in {issued, issued + 1}
         /\ \/ sync_token'[c] = sync_token[c]
            \/ sync_token'[c] = None
            \/ sync_token'[c] = issued + 1 /\ issued' = issued + 1
<1>1. CASE Draw
  BY <1>1 DEF Draw
<1>2. ASSUME NEW d \in Calendars, BumpCtag(d)
      PROVE  /\ issued' = issued + 1
             /\ sync_token'[c] \in {sync_token[c], issued + 1}
  BY <1>2 DEF BumpCtag, StoreTypeOK
<1>3. ASSUME NEW d \in Calendars, NEW u \in Users, InsertCalendar(d, u)
      PROVE  /\ issued' = issued + 1
             /\ sync_token'[c] \in {sync_token[c], issued + 1}
  BY <1>3 DEF InsertCalendar, StoreTypeOK
<1>4. ASSUME NEW d \in Calendars, DeleteCalendar(d)
      PROVE  issued' = issued /\ sync_token'[c] \in {sync_token[c], None}
  BY <1>4 DEF DeleteCalendar, StoreTypeOK
<1> QED
  BY <1>1, <1>2, <1>3, <1>4 DEF StoreNext, Statement, InsertObject, UpdateObject,
     DeleteObject, LogSyncChange, ShareCalendar, UnshareCalendar

(* A statement keeps the tokens apart.                                     *)
LEMMA StatementTokens ==
  ASSUME StoreTypeOK, ClientsTypeOK, TokensSeparate, StoreNext, UNCHANGED clients
  PROVE  TokensSeparate'
<1>0. /\ issued \in Nat /\ issued' \in {issued, issued + 1}
      /\ \A c \in Calendars : sync_token[c] \in Nat
      /\ \A c \in Calendars : \A i \in DOMAIN sync_changes[c] :
             sync_changes[c][i].token \in Nat \ {0}
  <2>1. issued' \in {issued, issued + 1}
    BY DEF StoreNext, Draw, Statement, InsertObject, UpdateObject, DeleteObject,
       LogSyncChange, BumpCtag, InsertCalendar, ShareCalendar, UnshareCalendar, DeleteCalendar
  <2> QED
    BY <2>1, LoggedTokenType DEF StoreTypeOK
<1>1. NoAnchor'
  BY DEF TokensSeparate, NoAnchor, clients
<1>2. TokensBounded'
  <2>1. ASSUME NEW c \in Calendars PROVE sync_token'[c] <= issued'
    BY <1>0, CalendarTokens DEF TokensSeparate, TokensBounded, None
  <2>2. ASSUME NEW c \in Calendars, NEW i \in DOMAIN sync_changes'[c]
        PROVE  sync_changes'[c][i].token <= issued'
    BY <1>0, LoggedTokens DEF TokensSeparate, TokensBounded
  <2>3. ASSUME NEW k \in Clients PROVE token'[k] <= issued' /\ read_token'[k] <= issued'
    BY <1>0 DEF TokensSeparate, TokensBounded, clients, ClientsTypeOK
  <2> QED
    BY <2>1, <2>2, <2>3 DEF TokensBounded
<1>3. TokensApart'
  <2> SUFFICES ASSUME NEW c \in Calendars, NEW i \in DOMAIN sync_changes'[c]
               PROVE  /\ \A d \in Calendars : sync_changes'[c][i].token # sync_token'[d]
                      /\ \A k \in Clients :
                             sync_changes'[c][i].token \notin {token'[k], read_token'[k]}
    BY DEF TokensApart
  <2> DEFINE t == sync_changes'[c][i].token
  <2>1. CASE i \in DOMAIN sync_changes[c] /\ sync_changes'[c][i] = sync_changes[c][i]
    <3>1. t \in Nat \ {0} /\ t <= issued
      BY <1>0, <2>1 DEF TokensSeparate, TokensBounded
    <3>2. \A d \in Calendars : t # sync_token[d]
      BY <2>1 DEF TokensSeparate, TokensApart
    <3>3. \A d \in Calendars : t # sync_token'[d]
      BY <1>0, <3>1, <3>2, CalendarTokens DEF None
    <3>4. \A k \in Clients : t \notin {token'[k], read_token'[k]}
      BY <2>1 DEF TokensSeparate, TokensApart, clients
    <3> QED
      BY <3>3, <3>4
  <2>2. CASE t = issued + 1 /\ sync_token' = sync_token
    <3>1. \A d \in Calendars : t # sync_token'[d]
      BY <1>0, <2>2 DEF TokensSeparate, TokensBounded
    <3>2. \A k \in Clients : t \notin {token'[k], read_token'[k]}
      BY <1>0, <2>2 DEF TokensSeparate, TokensBounded, clients, ClientsTypeOK
    <3> QED
      BY <3>1, <3>2
  <2> QED
    BY <2>1, <2>2, LoggedTokens
<1> QED
  BY <1>1, <1>2, <1>3 DEF TokensSeparate

(* A report hands tokens of the calendar on, never one of the log.         *)
LEMMA ReportTokens ==
  ASSUME StoreTypeOK, ClientsTypeOK, TokensSeparate, ClientStep
  PROVE  TokensSeparate'
<1> PICK k \in Clients : SendReport(k) \/ ReportStep(k) \/ LoseReport(k) \/ FailStatement(k)
  BY DEF ClientStep
<1>0. /\ mirrored[k] \in Calendars /\ issued \in Nat
      /\ \A c \in Calendars : \A i \in DOMAIN sync_changes[c] :
             sync_changes[c][i].token \in Nat \ {0}
  BY LoggedTokenType DEF StoreTypeOK, ClientsTypeOK
<1>1. /\ sync_token' = sync_token /\ sync_changes' = sync_changes /\ issued' = issued
  BY DEF ClientStep, store
<1>2. anchor' = anchor \/ anchor' = [anchor EXCEPT ![k] = None]
  <2>1. CASE FindAnchor(k)
    <3>1. Anchors(mirrored[k], token[k]) = {}
      BY <1>0 DEF Anchors, TokensSeparate, TokensApart
    <3> QED
      BY <2>1, <3>1 DEF FindAnchor, AnchorId
  <2> QED
    BY <2>1 DEF ReportStep, SendReport, ReportAccess, ReadCalendar, ListObjects,
       ReadChanges, AddEntry, FinishEntries, Deliver, LoseReport, FailStatement
<1>3. token' = token \/ token' = [token EXCEPT ![k] = read_token[k]]
  BY DEF ReportStep, SendReport, ReportAccess, ReadCalendar, ListObjects, FindAnchor,
     ReadChanges, AddEntry, FinishEntries, Deliver, LoseReport, FailStatement
<1>4. \/ read_token' = read_token
      \/ read_token' = [read_token EXCEPT ![k] = None]
      \/ read_token' = [read_token EXCEPT ![k] = sync_token[mirrored[k]]]
  BY DEF ReportStep, SendReport, ReportAccess, ReadCalendar, ListObjects, FindAnchor,
     ReadChanges, AddEntry, FinishEntries, Deliver, LoseReport, FailStatement
<1>5. NoAnchor'
  BY <1>2 DEF NoAnchor, TokensSeparate, ClientsTypeOK
<1>6. ASSUME NEW j \in Clients
      PROVE  /\ token'[j] \in {token[j], read_token[j]}
             /\ read_token'[j] \in {read_token[j], None, sync_token[mirrored[k]]}
  BY <1>3, <1>4 DEF ClientsTypeOK
<1>7. TokensBounded'
  BY <1>0, <1>1, <1>6 DEF TokensSeparate, TokensBounded, None
<1>8. TokensApart'
  BY <1>0, <1>1, <1>6 DEF TokensSeparate, TokensApart, None
<1> QED
  BY <1>5, <1>7, <1>8 DEF TokensSeparate

(* A step of the composition keeps the tokens apart.                       *)
LEMMA ServerStepTokens ==
  ASSUME ServerTypeOK, TokensSeparate, [ServerNext]_serverVars
  PROVE  TokensSeparate'
<1> USE DEF ServerTypeOK, SyncTypeOK, TypeOK
<1>1. CASE ClientStep
  BY <1>1, ReportTokens
<1>2. CASE UNCHANGED clients /\ StoreNext
  BY <1>2, StatementTokens
<1>3. CASE UNCHANGED clients /\ UNCHANGED store
  BY <1>3 DEF store, clients, TokensSeparate, TokensBounded, TokensApart, NoAnchor
<1> QED
  BY <1>1, <1>2, <1>3, ServerStepStatement DEF ServerNext, SyncNext, serverVars

----------------------------------------------------------------------------
(* Type correctness *)

(* A request on a collection keeps its own variables well typed.           *)
LEMMA ManagerStepType ==
  ASSUME StoreTypeOK, CollectionTypeOK, ManagerStep
  PROVE  CollectionTypeOK'
<1> PICK m \in Managers : Begin(m) \/ Manage(m) \/ DropManager(m) \/ FailManager(m)
  BY DEF ManagerStep
<1> USE DEF CollectionTypeOK
<1>0. job[m].calendar \in Calendars /\ row[m] \in Columns /\ props[job[m].calendar] \in Columns
  BY DEF CollectionTask
<1>1. ASSUME NEW s \in CollectionStatements \cup {"done"}, Continue(m, s)
      PROVE  /\ step' \in [Managers -> CollectionStatements \cup {"idle", "done"}]
             /\ job' = job /\ reply' = reply
  BY <1>1 DEF Continue
<1>2. ASSUME NEW s \in {"201", "204", "207", "403", "404", "405", "500"}, Reply(m, s)
      PROVE  /\ step' \in [Managers -> CollectionStatements \cup {"idle", "done"}]
             /\ job' = job
             /\ reply' \in [Managers -> {"none", "201", "204", "207", "403", "404", "405",
                                         "500", "ok", "error"}]
  BY <1>2 DEF Reply
<1>3. CASE Begin(m) \/ CollectionAccess(m) \/ CheckCalendar(m) \/ ReadCreated(m)
             \/ FindCalendar(m) \/ ReadUpdated(m) \/ ReadShare(m) \/ Grant(m) \/ Revoke(m)
             \/ Confirm(m) \/ DropManager(m) \/ FailManager(m)
  BY <1>1, <1>2, <1>3 DEF Begin, CollectionAccess, CheckCalendar, ReadCreated, FindCalendar,
       ReadUpdated, ReadShare, Grant, Revoke, Confirm, DropManager, FailManager,
       CollectionStatements
<1>4. CASE CreateCalendar(m)
  <2>1. [f \in Fields |-> issued + 1] \in Columns
    BY DEF StoreTypeOK, Columns
  <2>2. props' \in [Calendars -> Columns]
    BY <1>0, <1>4, <2>1 DEF CreateCalendar
  <2> QED
    BY <1>1, <1>2, <1>4, <2>2 DEF CreateCalendar, CollectionStatements
<1>5. CASE RemoveCalendar(m)
  <2>1. NoColumns \in Columns
    BY DEF NoColumns, Columns, None
  <2>2. props' \in [Calendars -> Columns]
    BY <1>0, <1>5, <2>1 DEF RemoveCalendar
  <2> QED
    BY <1>1, <1>2, <1>5, <2>2 DEF RemoveCalendar, CollectionStatements
<1>6. CASE ReadColumns(m)
  BY <1>0, <1>1, <1>2, <1>6 DEF ReadColumns, CollectionStatements
<1>7. CASE WriteColumns(m)
  <2>1. [f \in Fields |-> IF f \in job[m].fields THEN issued + 1 ELSE row[m][f]] \in Columns
    BY <1>0 DEF StoreTypeOK, Columns
  <2>2. props' \in [Calendars -> Columns]
    BY <1>0, <1>7, <2>1 DEF WriteColumns
  <2> QED
    BY <1>1, <1>7, <2>2 DEF WriteColumns, CollectionStatements
<1> QED
  BY <1>3, <1>4, <1>5, <1>6, <1>7 DEF Manage

(* Among the entries of an object in a response there is a last one.       *)
LEMMA LastEntryExists ==
  ASSUME NEW seq \in Seq(Entry), NEW u \in Uids, \E i \in DOMAIN seq : seq[i].uid = u
  PROVE  LastEntry(seq, u) \in DOMAIN seq
<1> DEFINE indices == {i \in DOMAIN seq : seq[i].uid = u}
<1>1. indices \subseteq 1 .. Len(seq) /\ indices # {} /\ Len(seq) \in Nat
  OBVIOUS
<1>2. PICK i \in indices : \A j \in indices : j <= i
  BY <1>1, LastIndex
<1> QED
  BY <1>2 DEF LastEntry

(* Applying a response to a copy gives a copy.                             *)
LEMMA AppliedType ==
  ASSUME NEW old \in [Uids -> Nat], NEW seq \in Seq(Entry)
  PROVE  Applied(old, seq) \in [Uids -> Nat]
<1>1. ASSUME NEW u \in Uids, \E i \in DOMAIN seq : seq[i].uid = u
      PROVE  seq[LastEntry(seq, u)].etag \in Nat
  <2>1. LastEntry(seq, u) \in DOMAIN seq
    BY <1>1, LastEntryExists
  <2>2. seq[LastEntry(seq, u)] \in Entry
    BY <2>1
  <2> QED
    BY <2>2 DEF Entry
<1> QED
  BY <1>1 DEF Applied, None

(* The initial listing is a sequence of entries.                           *)
LEMMA ListingsType ==
  ASSUME StoreTypeOK, NEW c \in Calendars, NEW seq \in Listings(c)
  PROVE  seq \in Seq(Entry)
<1> DEFINE present == {u \in Uids : objects[c][u] # None}
           n       == Cardinality(present)
<1>1. IsFiniteSet(present)
  BY StoreAssumptions, FS_Subset
<1>2. n \in Nat
  BY <1>1, FS_CardinalityType
<1>3. \A u \in present : ObjectEntry(c, u) \in Entry
  BY DEF ObjectEntry, AddResponse, ObjectByUid, Entry, StoreTypeOK
<1>4. PICK f \in [1 .. n -> present] : seq = [i \in 1 .. n |-> ObjectEntry(c, f[i])]
  BY DEF Listings
<1> HIDE DEF present, n
<1>5. \A i \in 1 .. n : ObjectEntry(c, f[i]) \in Entry
  BY <1>3, <1>4
<1>6. seq \in [1 .. n -> Entry]
  BY <1>4, <1>5
<1> QED
  BY <1>2, <1>6

(* A report keeps its own variables, and its client's, well typed.         *)
LEMMA ClientStepType ==
  ASSUME StoreTypeOK, ClientsTypeOK, NoAnchor, ClientStep
  PROVE  ClientsTypeOK'
<1> PICK k \in Clients : SendReport(k) \/ ReportStep(k) \/ LoseReport(k) \/ FailStatement(k)
  BY DEF ClientStep
<1> USE DEF ClientsTypeOK
<1>0. /\ mirrored[k] \in Calendars /\ copy[k] \in [Uids -> Nat]
      /\ todo[k] \in Seq(Change) /\ entries[k] \in Seq(Entry)
      /\ << >> \in Seq(Change) /\ << >> \in Seq(Entry) /\ None \in Nat
  BY DEF None
<1>1. CASE SendReport(k) \/ ReportAccess(k) \/ FinishEntries(k)
  BY <1>1 DEF SendReport, ReportAccess, FinishEntries, Move, ReportStatements
<1>2. CASE ReadCalendar(k)
  BY <1>0, <1>2 DEF ReadCalendar, Move, ReportStatements, StoreTypeOK
<1>3. CASE ListObjects(k)
  <2>1. PICK seq \in Listings(mirrored[k]) : entries' = [entries EXCEPT ![k] = seq]
    BY <1>3 DEF ListObjects
  <2>2. seq \in Seq(Entry)
    BY <1>0, <2>1, ListingsType
  <2> QED
    BY <1>3, <2>1, <2>2 DEF ListObjects, Move, ReportStatements
<1>4. CASE FindAnchor(k)
  <2>1. AnchorId(mirrored[k], token[k]) \in Nat
    BY <1>0 DEF AnchorId, Anchors, StoreTypeOK, Change
  <2> QED
    BY <1>4, <2>1 DEF FindAnchor, Move, ReportStatements
<1>5. CASE ReadChanges(k)
  <2>1. sync_changes[mirrored[k]] \in Seq(Change)
    BY <1>0 DEF StoreTypeOK
  <2>2. ChangesAfter(mirrored[k], anchor[k]) \in Seq(Change)
    BY <2>1 DEF ChangesAfter, NoAnchor
  <2> QED
    BY <1>0, <1>5, <2>2 DEF ReadChanges, Move, ReportStatements
<1>6. CASE AddEntry(k)
  <2>1. todo[k] # << >>
    BY <1>6 DEF AddEntry
  <2>2. Head(todo[k]) \in Change /\ Tail(todo[k]) \in Seq(Change)
    BY <1>0, <2>1
  <2>3. \A u \in Uids : ObjectEntry(mirrored[k], u) \in Entry /\ DeletedEntry(u) \in Entry
    BY <1>0 DEF ObjectEntry, DeletedEntry, AddResponse, ObjectByUid, Entry, StoreTypeOK
  <2>4. \A e \in Entry : Append(entries[k], e) \in Seq(Entry)
    BY <1>0
  <2>5. Head(todo[k]).uid \in Uids
    BY <2>2 DEF Change
  <2>6. entries' \in [Clients -> Seq(Entry)]
    BY <1>6, <2>3, <2>4, <2>5, ZenonT(40) DEF AddEntry
  <2> QED
    BY <1>6, <2>2, <2>6 DEF AddEntry
<1>7. CASE Deliver(k)
  <2>1. Applied(copy[k], entries[k]) \in [Uids -> Nat]
    BY <1>0, AppliedType
  <2> QED
    BY <1>0, <1>7, <2>1 DEF Deliver, Move
<1>8. CASE LoseReport(k)
  BY <1>0, <1>8 DEF LoseReport, Move
<1>9. CASE FailStatement(k)
  <2>1. todo[k] # << >> => Tail(todo[k]) \in Seq(Change)
    BY <1>0
  <2> QED
    BY <1>0, <1>9, <2>1 DEF FailStatement, Move, ReportStatements
<1> QED
  BY <1>1, <1>2, <1>3, <1>4, <1>5, <1>6, <1>7, <1>8, <1>9 DEF ReportStep

(* The initial states are well typed.                                      *)
LEMMA ServerInitType == ServerInit => ServerTypeOK
<1> SUFFICES ASSUME ServerInit PROVE ServerTypeOK
  OBVIOUS
<1>1. TypeOK
  BY StoreInitType, RequestsInitType DEF ServerInit, SyncInit, Init, TypeOK
<1>2. ClientsTypeOK
  <2>1. << >> \in Seq(Change) /\ << >> \in Seq(Entry) /\ [u \in Uids |-> None] \in [Uids -> Nat]
    BY DEF None
  <2> QED
    BY <2>1 DEF ServerInit, SyncInit, ClientsInit, ClientsTypeOK, None
<1>3. CollectionTypeOK
  <2>1. NoColumns \in Columns
    BY DEF NoColumns, Columns, None
  <2> QED
    BY <2>1, CollectionAssumptions DEF ServerInit, CollectionInit, CollectionTypeOK
<1> QED
  BY <1>1, <1>2, <1>3 DEF ServerTypeOK, SyncTypeOK

(* A step of the composition keeps everything well typed.                  *)
LEMMA ServerStepType ==
  ASSUME ServerTypeOK, NoAnchor, [ServerNext]_serverVars
  PROVE  ServerTypeOK'
<1> USE DEF ServerTypeOK, SyncTypeOK
<1>1. CASE RequestStep /\ UNCHANGED clients /\ UNCHANGED managers
  BY <1>1, RequestStepType DEF clients, managers, ClientsTypeOK, CollectionTypeOK
<1>2. CASE ClientStep /\ UNCHANGED managers
  <2>1. UNCHANGED <<store, requests>>
    BY <1>2 DEF ClientStep
  <2>2. ClientsTypeOK'
    BY <1>2, ClientStepType DEF TypeOK
  <2> QED
    BY <1>2, <2>1, <2>2
    DEF managers, store, requests, TypeOK, StoreTypeOK, RequestsTypeOK, CollectionTypeOK
<1>3. CASE ManagerStep /\ UNCHANGED <<requests, clients>>
  <2>1. StoreTypeOK'
    BY <1>3, ManagerStepStatement, StoreNextType DEF TypeOK, store, StoreTypeOK
  <2>2. CollectionTypeOK'
    BY <1>3, ManagerStepType DEF TypeOK
  <2> QED
    BY <1>3, <2>1, <2>2 DEF requests, clients, TypeOK, RequestsTypeOK, ClientsTypeOK
<1>4. CASE UNCHANGED serverVars
  BY <1>4 DEF serverVars, store, requests, clients, managers,
       TypeOK, StoreTypeOK, RequestsTypeOK, ClientsTypeOK, CollectionTypeOK
<1> QED
  BY <1>1, <1>2, <1>3, <1>4 DEF ServerNext, SyncNext

(* At the start there is no change log, and the calendars' tokens are the  *)
(* first ones drawn.                                                       *)
LEMMA ServerInitTokens == ServerInit => TokensSeparate
<1> SUFFICES ASSUME ServerInit PROVE TokensSeparate
  OBVIOUS
<1>1. Cardinality(Calendars) \in Nat
  BY StoreAssumptions, FS_CardinalityType
<1>2. \A c \in Calendars : sync_token[c] <= issued /\ sync_changes[c] = << >>
  BY <1>1 DEF ServerInit, SyncInit, Init, StoreInit, None
<1>3. \A k \in Clients : token[k] = None /\ read_token[k] = None /\ anchor[k] = None
  BY DEF ServerInit, SyncInit, ClientsInit
<1>4. issued \in Nat
  BY <1>1 DEF ServerInit, SyncInit, Init, StoreInit
<1> QED
  BY <1>2, <1>3, <1>4 DEF TokensSeparate, TokensBounded, TokensApart, NoAnchor, None

(* The inductive invariant holds throughout.                               *)
THEOREM ServerInvariant == ServerSpec => [](ServerTypeOK /\ TokensSeparate)
<1>1. ServerTypeOK /\ TokensSeparate /\ [ServerNext]_serverVars
        => (ServerTypeOK /\ TokensSeparate)'
  BY ServerStepType, ServerStepTokens DEF TokensSeparate
<1> QED
  BY <1>1, ServerInitType, ServerInitTokens, PTL DEF ServerSpec

(* Tables, requests, reports and clients keep their types in every         *)
(* behaviour of the two servers, with every fault.                         *)
THEOREM ServerTypeCorrect == ServerSpec => []ServerTypeOK
BY ServerInvariant, PTL

(* In every behaviour, with every fault, no token that a client can hold   *)
(* occurs in the change log: the delta query never finds its anchor, and   *)
(* handle_sync always replays the whole log.                               *)
THEOREM WholeLogDelta == ServerSpec => []DeltaIsWholeLog
<1>1. ServerTypeOK /\ TokensSeparate => DeltaIsWholeLog
  BY DEF ServerTypeOK, SyncTypeOK, ClientsTypeOK, TokensSeparate, TokensApart, NoAnchor,
     DeltaIsWholeLog, Anchors
<1> QED
  BY <1>1, ServerInvariant, PTL

(* In every behaviour, with every fault, a calendar's new token is one     *)
(* that no calendar, no report, no client and no log entry has: ctags and  *)
(* sync tokens are never reused, not even by a re-created calendar.        *)
THEOREM TokenFreshness == ServerSpec => TokensNotReused
<1>1. ServerTypeOK /\ TokensSeparate /\ [ServerNext]_serverVars =>
        \A c \in Calendars :
          sync_token'[c] \notin {sync_token[c], None} =>
              /\ \A d \in Calendars : sync_token[d] # sync_token'[c]
              /\ \A k \in Clients : sync_token'[c] \notin {token[k], read_token[k]}
              /\ \A d \in Calendars : \A i \in DOMAIN sync_changes[d] :
                     sync_changes[d][i].token # sync_token'[c]
  <2> SUFFICES ASSUME ServerTypeOK, TokensSeparate, [ServerNext]_serverVars,
                      NEW c \in Calendars, sync_token'[c] \notin {sync_token[c], None}
               PROVE  /\ \A d \in Calendars : sync_token[d] # sync_token'[c]
                      /\ \A k \in Clients : sync_token'[c] \notin {token[k], read_token[k]}
                      /\ \A d \in Calendars : \A i \in DOMAIN sync_changes[d] :
                             sync_changes[d][i].token # sync_token'[c]
    OBVIOUS
  <2>1. StoreTypeOK /\ issued \in Nat
    BY DEF ServerTypeOK, SyncTypeOK, TypeOK, StoreTypeOK
  <2>2. StoreNext
    BY ServerStepStatement DEF store
  <2>3. sync_token'[c] = issued + 1
    BY <2>1, <2>2, CalendarTokens
  <2> QED
    BY <2>1, <2>3 DEF TokensSeparate, TokensBounded
<1> QED
  BY <1>1, ServerInvariant, PTL DEF ServerSpec, TokensNotReused

(* In every interleaving of object requests with the deletion and the      *)
(* re-creation of their calendar, with every fault, no row of the other    *)
(* tables outlives its calendar.                                           *)
THEOREM OrphanFreedom == ServerSpec => []NoOrphans
<1>1. ServerInit => NoOrphans
  BY DEF ServerInit, SyncInit, Init, StoreInit, NoOrphans, Exists
<1>2. ServerTypeOK /\ NoOrphans /\ [ServerNext]_serverVars => NoOrphans'
  <2> SUFFICES ASSUME ServerTypeOK, NoOrphans, [ServerNext]_serverVars PROVE NoOrphans'
    OBVIOUS
  <2>1. CASE StoreNext
    BY <2>1, StoreNextNoOrphans DEF ServerTypeOK, SyncTypeOK, TypeOK
  <2>2. CASE UNCHANGED store
    BY <2>2 DEF store, NoOrphans, Exists
  <2> QED
    BY <2>1, <2>2, ServerStepStatement
<1> QED
  BY <1>1, <1>2, ServerTypeCorrect, PTL DEF ServerSpec

----------------------------------------------------------------------------
(* Clients that take turns on an object, while its calendar may be deleted *)
(* and created again under them.                                           *)

(* Collection requests remove objects and touch no other.                  *)
LEMMA ManagersOnlyRemove ==
  ASSUME StoreTypeOK, CollectionTypeOK, ManagerStep
  PROVE  \A c \in Calendars, u \in Uids : objects'[c][u] \in {objects[c][u], None}
<1> PICK m \in Managers : Begin(m) \/ Manage(m) \/ DropManager(m) \/ FailManager(m)
  BY DEF ManagerStep
<1>1. job[m].calendar \in Calendars
  BY DEF CollectionTypeOK, CollectionTask
<1>2. DeleteCalendar(job[m].calendar) \/ objects' = objects
  BY DEF Begin, Manage, DropManager, FailManager, CollectionAccess, CheckCalendar, CreateCalendar,
     ReadCreated, RemoveCalendar, FindCalendar, ReadColumns, WriteColumns, ReadUpdated, Grant,
     ReadShare, Revoke, Confirm, InsertCalendar, ShareCalendar, UnshareCalendar, store
<1>3. ASSUME DeleteCalendar(job[m].calendar), NEW c \in Calendars, NEW u \in Uids
      PROVE  objects'[c][u] \in {objects[c][u], None}
  BY <1>1, <1>3 DEF DeleteCalendar, StoreTypeOK
<1> QED
  BY <1>2, <1>3

(* A successful PUT, create_event or update_event answers the etag of its  *)
(* own write if nobody else writes that object meanwhile, also when the    *)
(* calendar is deleted and created again between the two statements, when  *)
(* handlers are cut off and when statements fail.                          *)
THEOREM OwnEtagAnswered ==
  ASSUME Exclusive
  PROVE  ServerSpec => []AnswersOwnEtag
<1>1. ServerInit => TurnsTaken
  BY DEF ServerInit, SyncInit, Init, RequestsInit, TurnsTaken, OneWriter, OwnRow, AnswersOwnEtag,
     Active, Statements
<1>2. ServerTypeOK /\ TurnsTaken /\ [ServerNext]_serverVars => TurnsTaken'
  <2> SUFFICES ASSUME ServerTypeOK, TurnsTaken, [ServerNext]_serverVars PROVE TurnsTaken'
    OBVIOUS
  <2> USE DEF ServerTypeOK, SyncTypeOK
  <2>1. CASE RequestStep
    BY <2>1, StepTurns
  <2>2. ASSUME UNCHANGED requests,
               \A c \in Calendars, u \in Uids : objects'[c][u] \in {objects[c][u], None}
        PROVE  TurnsTaken'
    <3>1. \A r \in Requests : Cal(r) \in Calendars /\ Uid(r) \in Uids
      BY DEF TypeOK, RequestsTypeOK, Task, Cal, Uid
    <3>2. OneWriter' /\ AnswersOwnEtag'
      BY <2>2 DEF requests, TurnsTaken, OneWriter, AnswersOwnEtag, Active, SameObject, Cal, Uid,
         Deletes
    <3>3. OwnRow'
      BY <2>2, <3>1 DEF requests, TurnsTaken, OwnRow, Cal, Uid, Deletes
    <3> QED
      BY <3>2, <3>3 DEF TurnsTaken
  <2>3. CASE ClientStep \/ UNCHANGED serverVars
    BY <2>2, <2>3 DEF ClientStep, serverVars, store
  <2>4. CASE ManagerStep /\ UNCHANGED <<requests, clients>>
    BY <2>2, <2>4, ManagersOnlyRemove DEF TypeOK
  <2> QED
    BY <2>1, <2>3, <2>4 DEF ServerNext, SyncNext
<1>3. TurnsTaken => AnswersOwnEtag
  BY DEF TurnsTaken
<1> QED
  BY <1>1, <1>2, <1>3, ServerTypeCorrect, PTL DEF ServerSpec

----------------------------------------------------------------------------
(* Lifetimes of calendars *)

Making == {"MKCALENDAR", "create_calendar"}

Removing == {"DELETE", "delete_calendar"}

\* A request is at a statement of its own kind, and has no answer before its end.
StepFitsKind ==
    \A m \in Managers :
        /\ step[m] \in {"exists", "insert", "created"} => job[m].kind \in Making
        /\ step[m] = "delete" => job[m].kind \in Removing
        /\ step[m] = "access" => job[m].kind \in {"PROPPATCH", "DELETE"}
        /\ step[m] \in {"calendar", "read", "write", "reread"} => job[m].kind = "PROPPATCH"
        /\ step[m] \in {"grant", "granted"} => job[m].kind = "share_calendar"
        /\ step[m] = "revoke" => job[m].kind = "unshare_calendar"
        /\ step[m] = "confirm" => job[m].kind \in Removing \cup {"unshare_calendar"}
        /\ step[m] = "done" \/ reply[m] = "none"

\* The requests that inserted c and were not yet told otherwise.
Claims(c) ==
    {m \in Managers : /\ job[m].calendar = c /\ job[m].kind \in Making
                      /\ step[m] = "created" \/ reply[m] \in {"201", "ok"}}

\* OneCreationPerLifetime, with the INSERTs whose handler has yet to read the
\* row back, and with the calendar's present lifetime instead of the constant 1.
LifetimesCounted ==
    \A c \in Calendars :
        /\ IsFiniteSet(Claims(c)) /\ IsFiniteSet(DeletedBy(c))
        /\ Cardinality(Claims(c)) + (IF c \in Created THEN 1 ELSE 0)
             <= Cardinality(DeletedBy(c)) + (IF Exists(c) THEN 1 ELSE 0)

LifetimeInvariant == StepFitsKind /\ LifetimesCounted

(* No request has begun, and the calendars of Created have a row.          *)
LEMMA LifetimesInitially ==
  ASSUME StoreInit, CollectionInit
  PROVE  LifetimeInvariant
<1>1. StepFitsKind
  BY DEF CollectionInit, StepFitsKind
<1>2. ASSUME NEW c \in Calendars
      PROVE  /\ Claims(c) = {} /\ DeletedBy(c) = {}
             /\ c \in Created => Exists(c)
  BY DEF CollectionInit, StoreInit, Claims, DeletedBy, Exists
<1>3. IsFiniteSet({}) /\ Cardinality({}) = 0
  BY FS_EmptySet
<1> QED
  BY <1>1, <1>2, <1>3 DEF LifetimeInvariant, LifetimesCounted

(* A step that inserts no calendar, removes none and answers neither.      *)
LEMMA QuietLifetimes ==
  ASSUME CollectionTypeOK, LifetimeInvariant, NEW m \in Managers,
         UNCHANGED <<owner, job>>,
         \A n \in Managers \ {m} : step'[n] = step[n] /\ reply'[n] = reply[n],
         job[m].kind \in Making /\ (step'[m] = "created" \/ reply'[m] \in {"201", "ok"})
             => step[m] = "created",
         job[m].kind \in Removing /\ step[m] = "confirm"
             => step'[m] = "done" /\ reply'[m] \in {"204", "ok", "none"},
         step[m] # "done"
  PROVE  LifetimesCounted'
<1>0. reply[m] = "none"
  BY DEF LifetimeInvariant, StepFitsKind
<1>1. ASSUME NEW c \in Calendars
      PROVE  /\ Claims(c)' \subseteq Claims(c)
             /\ DeletedBy(c) \subseteq DeletedBy(c)' /\ DeletedBy(c)' \subseteq DeletedBy(c) \cup {m}
             /\ Exists(c)' = Exists(c)
  <2>1. Claims(c)' \subseteq Claims(c)
    BY DEF Claims
  <2>2. DeletedBy(c) \subseteq DeletedBy(c)'
    BY <1>0 DEF DeletedBy, Removing
  <2>3. DeletedBy(c)' \subseteq DeletedBy(c) \cup {m}
    BY DEF DeletedBy
  <2> QED
    BY <2>1, <2>2, <2>3 DEF Exists
<1>2. ASSUME NEW c \in Calendars
      PROVE  /\ IsFiniteSet(Claims(c)') /\ IsFiniteSet(DeletedBy(c)')
             /\ Cardinality(Claims(c)') + (IF c \in Created THEN 1 ELSE 0)
                  <= Cardinality(DeletedBy(c)') + (IF Exists(c)' THEN 1 ELSE 0)
  <2>1. IsFiniteSet(Claims(c)) /\ IsFiniteSet(DeletedBy(c))
    BY DEF LifetimeInvariant, LifetimesCounted
  <2>2. IsFiniteSet(Claims(c)') /\ Cardinality(Claims(c)') <= Cardinality(Claims(c))
    BY <1>1, <2>1, FS_Subset
  <2>d. IsFiniteSet(DeletedBy(c)') /\ Cardinality(DeletedBy(c)) <= Cardinality(DeletedBy(c)')
    <3>1. IsFiniteSet(DeletedBy(c) \cup {m})
      BY <2>1, FS_AddElement
    <3>2. IsFiniteSet(DeletedBy(c)')
      BY <1>1, <3>1, FS_Subset
    <3> QED
      BY <1>1, <3>2, FS_Subset
  <2>3. /\ Cardinality(Claims(c)) \in Nat /\ Cardinality(Claims(c)') \in Nat
        /\ Cardinality(DeletedBy(c)) \in Nat /\ Cardinality(DeletedBy(c)') \in Nat
    BY <2>1, <2>2, <2>d, FS_CardinalityType
  <2>4. Cardinality(Claims(c)) + (IF c \in Created THEN 1 ELSE 0)
             <= Cardinality(DeletedBy(c)) + (IF Exists(c) THEN 1 ELSE 0)
    BY DEF LifetimeInvariant, LifetimesCounted
  <2> QED
    BY <1>1, <2>1, <2>2, <2>d, <2>3, <2>4
<1> QED
  BY <1>2 DEF LifetimesCounted

(* The INSERT of a calendar adds one claim and one lifetime.               *)
LEMMA InsertedLifetimes ==
  ASSUME StoreTypeOK, CollectionTypeOK, LifetimeInvariant, NEW m \in Managers,
         step[m] = "insert", InsertCalendar(job[m].calendar, job[m].user),
         Continue(m, "created")
  PROVE  LifetimesCounted'
<1> DEFINE c0 == job[m].calendar
<1>0. c0 \in Calendars /\ job[m].user \in Users /\ job[m].kind \in Making /\ reply[m] = "none"
  BY DEF CollectionTypeOK, CollectionTask, LifetimeInvariant, StepFitsKind
<1>1. /\ step'[m] = "created" /\ job' = job /\ reply' = reply
      /\ \A n \in Managers \ {m} : step'[n] = step[n]
  BY DEF Continue, CollectionTypeOK
<1>2. /\ owner[c0] = NoUser /\ owner'[c0] # NoUser
      /\ \A c \in Calendars \ {c0} : owner'[c] = owner[c]
  BY <1>0, StoreAssumptions DEF InsertCalendar, Exists, StoreTypeOK
<1>3. ASSUME NEW c \in Calendars
      PROVE  /\ Claims(c)' = IF c = c0 THEN Claims(c) \cup {m} ELSE Claims(c)
             /\ m \notin Claims(c)
             /\ DeletedBy(c)' = DeletedBy(c)
  BY <1>0, <1>1 DEF Claims, DeletedBy, Making
<1>4. ASSUME NEW c \in Calendars
      PROVE  /\ IsFiniteSet(Claims(c)') /\ IsFiniteSet(DeletedBy(c)')
             /\ Cardinality(Claims(c)') + (IF c \in Created THEN 1 ELSE 0)
                  <= Cardinality(DeletedBy(c)') + (IF Exists(c)' THEN 1 ELSE 0)
  <2>1. IsFiniteSet(Claims(c)) /\ IsFiniteSet(DeletedBy(c))
    BY DEF LifetimeInvariant, LifetimesCounted
  <2>2. Cardinality(Claims(c)) + (IF c \in Created THEN 1 ELSE 0)
             <= Cardinality(DeletedBy(c)) + (IF Exists(c) THEN 1 ELSE 0)
    BY DEF LifetimeInvariant, LifetimesCounted
  <2>3. Cardinality(Claims(c)) \in Nat /\ Cardinality(DeletedBy(c)) \in Nat
    BY <2>1, FS_CardinalityType
  <2>4. /\ IsFiniteSet(Claims(c) \cup {m})
        /\ Cardinality(Claims(c) \cup {m}) = Cardinality(Claims(c)) + 1
    BY <1>3, <2>1, FS_AddElement
  <2>5. CASE c = c0
    <3>1. Claims(c)' = Claims(c) \cup {m} /\ DeletedBy(c)' = DeletedBy(c)
      BY <1>3, <2>5
    <3>2. ~ Exists(c) /\ Exists(c)'
      BY <1>2, <2>5 DEF Exists
    <3> QED
      BY <2>1, <2>2, <2>3, <2>4, <3>1, <3>2
  <2>6. CASE c # c0
    BY <1>2, <1>3, <2>1, <2>2, <2>6 DEF Exists
  <2> QED
    BY <2>5, <2>6
<1> QED
  BY <1>4 DEF LifetimesCounted

(* Its deletion ends one lifetime, confirmed or not.                       *)
LEMMA RemovedLifetimes ==
  ASSUME StoreTypeOK, CollectionTypeOK, LifetimeInvariant, NEW m \in Managers,
         step[m] = "delete", DeleteCalendar(job[m].calendar), Continue(m, "confirm")
  PROVE  LifetimesCounted'
<1> DEFINE c0 == job[m].calendar
<1>0. c0 \in Calendars /\ job[m].kind \in Removing /\ reply[m] = "none"
  BY DEF CollectionTypeOK, CollectionTask, LifetimeInvariant, StepFitsKind
<1>1. /\ step'[m] = "confirm" /\ job' = job /\ reply' = reply
      /\ \A n \in Managers \ {m} : step'[n] = step[n]
  BY DEF Continue, CollectionTypeOK
<1>2. /\ owner[c0] # NoUser /\ owner'[c0] = NoUser
      /\ \A c \in Calendars \ {c0} : owner'[c] = owner[c]
  BY <1>0 DEF DeleteCalendar, Exists, StoreTypeOK
<1>3. ASSUME NEW c \in Calendars
      PROVE  /\ DeletedBy(c)' = IF c = c0 THEN DeletedBy(c) \cup {m} ELSE DeletedBy(c)
             /\ m \notin DeletedBy(c)
             /\ Claims(c)' = Claims(c)
  BY <1>0, <1>1 DEF Claims, DeletedBy, Making, Removing
<1>4. ASSUME NEW c \in Calendars
      PROVE  /\ IsFiniteSet(Claims(c)') /\ IsFiniteSet(DeletedBy(c)')
             /\ Cardinality(Claims(c)') + (IF c \in Created THEN 1 ELSE 0)
                  <= Cardinality(DeletedBy(c)') + (IF Exists(c)' THEN 1 ELSE 0)
  <2>1. IsFiniteSet(Claims(c)) /\ IsFiniteSet(DeletedBy(c))
    BY DEF LifetimeInvariant, LifetimesCounted
  <2>2. Cardinality(Claims(c)) + (IF c \in Created THEN 1 ELSE 0)
             <= Cardinality(DeletedBy(c)) + (IF Exists(c) THEN 1 ELSE 0)
    BY DEF LifetimeInvariant, LifetimesCounted
  <2>3. Cardinality(Claims(c)) \in Nat /\ Cardinality(DeletedBy(c)) \in Nat
    BY <2>1, FS_CardinalityType
  <2>4. /\ IsFiniteSet(DeletedBy(c) \cup {m})
        /\ Cardinality(DeletedBy(c) \cup {m}) = Cardinality(DeletedBy(c)) + 1
    BY <1>3, <2>1, FS_AddElement
  <2>5. CASE c = c0
    <3>1. Claims(c)' = Claims(c) /\ DeletedBy(c)' = DeletedBy(c) \cup {m}
      BY <1>3, <2>5
    <3>2. Exists(c) /\ ~ Exists(c)'
      BY <1>2, <2>5 DEF Exists
    <3> QED
      BY <2>1, <2>2, <2>3, <2>4, <3>1, <3>2
  <2>6. CASE c # c0
    BY <1>2, <1>3, <2>1, <2>2, <2>6 DEF Exists
  <2> QED
    BY <2>5, <2>6
<1> QED
  BY <1>4 DEF LifetimesCounted

(* Every step of a collection request keeps the account.                   *)
LEMMA ManagerStepLifetimes ==
  ASSUME StoreTypeOK, CollectionTypeOK, LifetimeInvariant, ManagerStep
  PROVE  LifetimeInvariant'
<1> PICK m \in Managers : Begin(m) \/ Manage(m) \/ DropManager(m) \/ FailManager(m)
  BY DEF ManagerStep
<1>s. StepFitsKind
  BY DEF LifetimeInvariant
<1>1. ASSUME NEW s \in CollectionStatements \cup {"done"}, Continue(m, s)
      PROVE  /\ step'[m] = s /\ job' = job /\ reply' = reply
             /\ \A n \in Managers \ {m} : step'[n] = step[n] /\ reply'[n] = reply[n]
  BY <1>1 DEF Continue, CollectionTypeOK
<1>2. ASSUME NEW s \in {"201", "204", "207", "403", "404", "405", "500"}, Reply(m, s)
      PROVE  /\ step'[m] = "done" /\ job' = job
             /\ reply'[m] = (IF ~ ByMcp(m) THEN s
                             ELSE IF s \in {"201", "204"} THEN "ok" ELSE "error")
             /\ \A n \in Managers \ {m} : step'[n] = step[n] /\ reply'[n] = reply[n]
  BY <1>2 DEF Reply, CollectionTypeOK
<1>3. step[m] # "done"
  BY DEF Begin, Manage, DropManager, FailManager, Busy, CollectionStatements, CollectionAccess,
     CheckCalendar, CreateCalendar, ReadCreated, RemoveCalendar, FindCalendar, ReadColumns,
     WriteColumns, ReadUpdated, Grant, ReadShare, Revoke, Confirm
<1>4. CASE InsertCalendar(job[m].calendar, job[m].user) /\ step[m] = "insert"
             /\ Continue(m, "created")
  <2>1. StepFitsKind'
    BY <1>1, <1>4, <1>s DEF StepFitsKind, CollectionStatements
  <2> QED
    BY <1>4, <2>1, InsertedLifetimes DEF LifetimeInvariant
<1>5. CASE DeleteCalendar(job[m].calendar) /\ step[m] = "delete" /\ Continue(m, "confirm")
  <2>1. StepFitsKind'
    BY <1>1, <1>5, <1>s DEF StepFitsKind, CollectionStatements
  <2> QED
    BY <1>5, <2>1, RemovedLifetimes DEF LifetimeInvariant
\* The remaining steps, by what they answer.
<1>6. ASSUME UNCHANGED owner,
             \/ step[m] # "confirm" /\ \E s \in {"403", "404", "405", "500"} : Reply(m, s)
             \/ step[m] = "created" /\ Reply(m, "201")
             \/ step[m] = "confirm" /\ Reply(m, "204")
             \/ step[m] \in {"granted", "reread"} /\ \E s \in {"201", "207"} : Reply(m, s)
      PROVE  LifetimeInvariant'
  <2>0. PICK s \in {"201", "204", "207", "403", "404", "405", "500"} :
          /\ Reply(m, s)
          /\ \/ step[m] # "confirm" /\ s \in {"403", "404", "405", "500"}
             \/ step[m] = "created" /\ s = "201"
             \/ step[m] = "confirm" /\ s = "204"
             \/ step[m] \in {"granted", "reread"} /\ s \in {"201", "207"}
    BY <1>6
  <2>1. /\ step'[m] = "done" /\ job' = job
        /\ reply'[m] = (IF ~ ByMcp(m) THEN s
                        ELSE IF s \in {"201", "204"} THEN "ok" ELSE "error")
        /\ \A n \in Managers \ {m} : step'[n] = step[n] /\ reply'[n] = reply[n]
    BY <1>2, <2>0
  <2>2. StepFitsKind'
    BY <2>1, <1>s DEF StepFitsKind
  <2>3. job[m].kind \in Making /\ (step'[m] = "created" \/ reply'[m] \in {"201", "ok"})
             => step[m] = "created"
    BY <2>0, <2>1, <1>s DEF StepFitsKind, Making, Removing
  <2>4. job[m].kind \in Removing /\ step[m] = "confirm"
             => step'[m] = "done" /\ reply'[m] \in {"204", "ok", "none"}
    BY <2>0, <2>1
  <2> QED
    BY <1>3, <1>6, <2>1, <2>2, <2>3, <2>4, QuietLifetimes DEF LifetimeInvariant
<1>7. ASSUME UNCHANGED owner, NEW s \in CollectionStatements \cup {"done"}, Continue(m, s),
             s # "created", step[m] = "confirm" => s = "done",
             s = "confirm" => job[m].kind = "unshare_calendar",
             s \in {"exists", "insert"} => job[m].kind \in Making,
             s = "delete" => job[m].kind \in Removing,
             s = "access" => job[m].kind \in {"PROPPATCH", "DELETE"},
             s \in {"calendar", "read", "write", "reread"} => job[m].kind = "PROPPATCH",
             s \in {"grant", "granted"} => job[m].kind = "share_calendar",
             s = "revoke" => job[m].kind = "unshare_calendar"
      PROVE  LifetimeInvariant'
  <2>1. /\ step'[m] = s /\ job' = job /\ reply' = reply
        /\ \A n \in Managers \ {m} : step'[n] = step[n] /\ reply'[n] = reply[n]
    BY <1>1, <1>7
  <2>2. reply[m] = "none"
    BY <1>3, <1>s DEF StepFitsKind
  <2>3. StepFitsKind'
    BY <1>7, <2>1, <2>2, <1>s DEF StepFitsKind
  <2> QED
    BY <1>3, <1>7, <2>1, <2>2, <2>3, QuietLifetimes DEF LifetimeInvariant
<1>8. CASE Begin(m)
  BY <1>6, <1>7, <1>8 DEF Begin, store, CollectionStatements, Making, Removing
<1>9. CASE CollectionAccess(m) \/ CheckCalendar(m) \/ FindCalendar(m)
  BY <1>6, <1>7, <1>9, <1>s DEF CollectionAccess, CheckCalendar, FindCalendar, store,
     CollectionStatements, StepFitsKind, Making, Removing
<1>10. CASE CreateCalendar(m)
  BY <1>4, <1>6, <1>10 DEF CreateCalendar, store
<1>11. CASE ReadCreated(m)
  BY <1>6, <1>11 DEF ReadCreated, store
<1>12. CASE RemoveCalendar(m)
  BY <1>5, <1>6, <1>12 DEF RemoveCalendar, store
<1>13. CASE ReadColumns(m) \/ WriteColumns(m) \/ ReadUpdated(m)
  BY <1>6, <1>7, <1>13, <1>s DEF ReadColumns, WriteColumns, ReadUpdated, store,
     CollectionStatements, StepFitsKind
<1>14. CASE Grant(m) \/ ReadShare(m) \/ Revoke(m) \/ Confirm(m)
  BY <1>6, <1>7, <1>14, <1>s DEF Confirm, Grant, ReadShare, Revoke, ShareCalendar, UnshareCalendar, store,
     CollectionStatements, StepFitsKind
<1>15. CASE DropManager(m) \/ FailManager(m)
  BY <1>6, <1>7, <1>15, <1>s DEF DropManager, FailManager, store, CollectionStatements, StepFitsKind
<1> QED
  BY <1>8, <1>9, <1>10, <1>11, <1>12, <1>13, <1>14, <1>15 DEF Manage

(* The account is what OneCreationPerLifetime says, with room to spare.    *)
LEMMA LifetimesGiveProperty ==
  ASSUME LifetimeInvariant
  PROVE  OneCreationPerLifetime
<1> SUFFICES ASSUME NEW c \in Calendars
             PROVE  Cardinality(CreatedBy(c)) + (IF c \in Created THEN 1 ELSE 0)
                      <= Cardinality(DeletedBy(c)) + 1
  BY DEF OneCreationPerLifetime
<1>1. /\ IsFiniteSet(Claims(c)) /\ IsFiniteSet(DeletedBy(c))
      /\ Cardinality(Claims(c)) + (IF c \in Created THEN 1 ELSE 0)
           <= Cardinality(DeletedBy(c)) + (IF Exists(c) THEN 1 ELSE 0)
  BY DEF LifetimeInvariant, LifetimesCounted
<1>2. CreatedBy(c) \subseteq Claims(c)
  BY DEF CreatedBy, Claims, Making
<1>3. IsFiniteSet(CreatedBy(c)) /\ Cardinality(CreatedBy(c)) <= Cardinality(Claims(c))
  BY <1>1, <1>2, FS_Subset
<1>4. /\ Cardinality(Claims(c)) \in Nat /\ Cardinality(CreatedBy(c)) \in Nat
      /\ Cardinality(DeletedBy(c)) \in Nat
  BY <1>1, <1>3, FS_CardinalityType
<1> QED
  BY <1>1, <1>3, <1>4

(* Steps that leave calendars and collection requests alone keep it.       *)
LEMMA LifetimesFrame ==
  ASSUME LifetimeInvariant, UNCHANGED owner, UNCHANGED managers
  PROVE  LifetimeInvariant'
BY DEF managers, LifetimeInvariant, StepFitsKind, LifetimesCounted, Claims, DeletedBy, Exists

(* However the existence checks and the INSERTs of concurrent MKCALENDAR   *)
(* and create_calendar requests interleave with deletions, and whatever is *)
(* cut off or fails, also between a committed DELETE and its answer, a     *)
(* calendar id is confirmed as created at most once more than a deletion   *)
(* of it was confirmed or left unanswered.                                 *)
THEOREM CreationsConfirmedOnce == CollectionSpec => []OneCreationPerLifetime
<1> DEFINE Inv == StoreTypeOK /\ CollectionTypeOK /\ LifetimeInvariant
<1>1. ManagersInit => Inv
  <2> SUFFICES ASSUME ManagersInit PROVE Inv
    OBVIOUS
  <2>1. StoreTypeOK
    <3>1. Cardinality(Calendars) \in Nat
      BY StoreAssumptions, FS_CardinalityType
    <3> QED
      BY <3>1 DEF ManagersInit, StoreInit, StoreTypeOK, None
  <2>2. NoColumns \in Columns
    BY DEF NoColumns, Columns, None
  <2>3. CollectionTypeOK
    BY <2>2, CollectionAssumptions DEF ManagersInit, CollectionInit, CollectionTypeOK
  <2> QED
    BY <2>1, <2>3, LifetimesInitially DEF ManagersInit
<1>2. Inv /\ [ManagerStep]_collectionVars => Inv'
  <2> SUFFICES ASSUME Inv, [ManagerStep]_collectionVars PROVE Inv'
    OBVIOUS
  <2>1. CASE ManagerStep
    <3>1. StoreTypeOK'
      BY <2>1, ManagerStepStatement, StoreNextType DEF store, StoreTypeOK
    <3> QED
      BY <2>1, <3>1, ManagerStepType, ManagerStepLifetimes
  <2>2. CASE UNCHANGED collectionVars
    BY <2>2, LifetimesFrame DEF collectionVars, store, managers, StoreTypeOK, CollectionTypeOK
  <2> QED
    BY <2>1, <2>2
<1>3. Inv => OneCreationPerLifetime
  BY LifetimesGiveProperty
<1> QED
  BY <1>1, <1>2, <1>3, PTL DEF CollectionSpec

----------------------------------------------------------------------------
(* A sync token that is the calendar's current one vouches for the         *)
(* client's copy, also with reports that are lost at any point             *)

(* A token that client k read is the current one of its calendar, and      *)
(* nobody is on the way to change it.                                      *)
Live(k, t) == t # None /\ t = sync_token[mirrored[k]] /\ Settled(mirrored[k])

(* The last entry of u in a response, if there is one, says that u is e.   *)
Says(seq, u, e) ==
    \E i \in DOMAIN seq :
        /\ seq[i].uid = u
        /\ \A j \in DOMAIN seq : seq[j].uid = u => j <= i
        /\ e = IF "200" \in seq[i].propstats THEN seq[i].etag ELSE None

(* The first n changes of a log are in a response.  An object's last       *)
(* change so far that agrees with its row has made the response say what   *)
(* the row is; an object without changes is not mentioned.                 *)
Covers(log, obj, seq, n) ==
    \A u \in Uids :
        /\ (\A i \in 1 .. n : log[i].uid # u) => \A j \in DOMAIN seq : seq[j].uid # u
        /\ \A i \in 1 .. n :
               /\ log[i].uid = u
               /\ \A j \in 1 .. n : log[j].uid = u => j <= i
               /\ log[i].change = "deleted" <=> obj[u] = None
               => Says(seq, u, obj[u])

(* Client k's report has replayed n changes; the others are to do.         *)
Replayed(k, n) ==
    LET log == sync_changes[mirrored[k]]
    IN  /\ n + Len(todo[k]) = Len(log)
        /\ \A i \in 1 .. Len(todo[k]) : todo[k][i] = log[n + i]
        /\ Covers(log, objects[mirrored[k]], entries[k], n)

(* How far a report has come, as long as the token it read is live; what   *)
(* the response, and later the copy, has of the stored objects.            *)
ReportFits(k) ==
    LET obj == objects[mirrored[k]]
    IN  /\ at[k] \notin {"entry", "deliver"} => entries[k] = << >>
        /\ at[k] = "entry" /\ Live(k, read_token[k]) => \E n \in Nat : Replayed(k, n)
        /\ at[k] = "deliver" /\ Live(k, read_token[k]) =>
               \A u \in Uids : obj[u] # None => Applied(copy[k], entries[k])[u] = obj[u]
        /\ Live(k, token[k]) => \A u \in Uids : obj[u] # None => copy[k][u] = obj[u]

(* The change log, while calendars come and go: the last entry of a stored *)
(* object is no deletion, once the request that wrote the row logged it.   *)
RowsLogged ==
    \A c \in Calendars, u \in Uids :
        objects[c][u] # None /\ Writing(c, u) = {} => LoggedPresent(c, u)

DeletionsDone ==
    \A r \in Requests :
        pc[r] = "log" /\ Deletes(r) => objects[Cal(r)][Uid(r)] = None

ServerLog == OneWriter /\ WritersOnly /\ DeletionsDone /\ RowsLogged

MirrorInvariant ==
    ServerTypeOK /\ TokensSeparate /\ NoOrphans /\ ServerLog /\ \A k \in Clients : ReportFits(k)

----------------------------------------------------------------------------
(* Responses *)

(* A copy takes over what the response says of an object.                  *)
LEMMA SaysApplied ==
  ASSUME NEW seq \in Seq(Entry), NEW old \in [Uids -> Nat], NEW u \in Uids, NEW e, Says(seq, u, e)
  PROVE  Applied(old, seq)[u] = e
<1>1. PICK i \in DOMAIN seq :
        /\ seq[i].uid = u
        /\ \A j \in DOMAIN seq : seq[j].uid = u => j <= i
        /\ e = IF "200" \in seq[i].propstats THEN seq[i].etag ELSE None
  BY DEF Says
<1>2. /\ LastEntry(seq, u) \in DOMAIN seq /\ seq[LastEntry(seq, u)].uid = u
      /\ \A j \in DOMAIN seq : seq[j].uid = u => j <= LastEntry(seq, u)
  BY <1>1 DEF LastEntry
<1>3. i \in Nat /\ LastEntry(seq, u) \in Nat
  BY <1>2
<1>4. LastEntry(seq, u) = i
  BY <1>1, <1>2, <1>3
<1> QED
  BY <1>1, <1>4 DEF Applied

(* What it does not mention stays as it was.                               *)
LEMMA UnsaidApplied ==
  ASSUME NEW seq, NEW old \in [Uids -> Nat], NEW u \in Uids,
         \A i \in DOMAIN seq : seq[i].uid # u
  PROVE  Applied(old, seq)[u] = old[u]
BY DEF Applied

(* An entry decides its own object and no other.                           *)
LEMMA SaysAppend ==
  ASSUME NEW seq \in Seq(Entry), NEW x \in Entry
  PROVE  /\ Says(Append(seq, x), x.uid, IF "200" \in x.propstats THEN x.etag ELSE None)
         /\ \A u, e : u # x.uid /\ Says(seq, u, e) => Says(Append(seq, x), u, e)
         /\ \A u : u # x.uid /\ (\A i \in DOMAIN seq : seq[i].uid # u) =>
                       \A i \in DOMAIN Append(seq, x) : Append(seq, x)[i].uid # u
<1> DEFINE new == Append(seq, x)
<1>1. /\ DOMAIN seq = 1 .. Len(seq) /\ Len(seq) \in Nat
      /\ DOMAIN new = 1 .. Len(seq) + 1
      /\ new[Len(seq) + 1] = x
      /\ \A i \in 1 .. Len(seq) : new[i] = seq[i]
  OBVIOUS
<1> HIDE DEF new
<1>2. Says(new, x.uid, IF "200" \in x.propstats THEN x.etag ELSE None)
  <2>1. Len(seq) + 1 \in DOMAIN new /\ \A j \in DOMAIN new : j <= Len(seq) + 1
    BY <1>1
  <2> QED
    BY <1>1, <2>1 DEF Says
<1>3. ASSUME NEW u, NEW e, u # x.uid, Says(seq, u, e)
      PROVE  Says(new, u, e)
  <2>1. PICK i \in DOMAIN seq :
          /\ seq[i].uid = u
          /\ \A j \in DOMAIN seq : seq[j].uid = u => j <= i
          /\ e = IF "200" \in seq[i].propstats THEN seq[i].etag ELSE None
    BY <1>3 DEF Says
  <2>2. i \in DOMAIN new /\ new[i] = seq[i]
    BY <1>1, <2>1
  <2>3. ASSUME NEW j \in DOMAIN new, new[j].uid = u PROVE j <= i
    <3>1. j # Len(seq) + 1
      BY <1>1, <1>3, <2>3
    <3>2. j \in DOMAIN seq /\ new[j] = seq[j]
      BY <1>1, <3>1
    <3> QED
      BY <2>1, <2>3, <3>2
  <2> QED
    BY <2>1, <2>2, <2>3 DEF Says
<1>4. ASSUME NEW u, u # x.uid, \A i \in DOMAIN seq : seq[i].uid # u, NEW i \in DOMAIN new
      PROVE  new[i].uid # u
  <2>1. CASE i = Len(seq) + 1
    BY <1>1, <1>4, <2>1
  <2>2. CASE i # Len(seq) + 1
    BY <1>1, <1>4, <2>2
  <2> QED
    BY <2>1, <2>2
<1> QED
  BY <1>2, <1>3, <1>4 DEF new

(* A listing says of every stored object what its row is, and mentions no  *)
(* other: an injection of 1 .. n into the n stored objects reaches all.    *)
LEMMA ListingSays ==
  ASSUME StoreTypeOK, NEW c \in Calendars, NEW seq \in Listings(c)
  PROVE  /\ \A u \in Uids : objects[c][u] # None => Says(seq, u, objects[c][u])
         /\ \A i \in DOMAIN seq : objects[c][seq[i].uid] # None
<1> DEFINE present == {u \in Uids : objects[c][u] # None}
           n       == Cardinality(present)
<1>1. IsFiniteSet(present)
  BY StoreAssumptions, FS_Subset
<1>2. n \in Nat
  BY <1>1, FS_CardinalityType
<1>3. PICK f \in [1 .. n -> present] : /\ \A i, j \in DOMAIN f : f[i] = f[j] => i = j
                                       /\ seq = [i \in 1 .. n |-> ObjectEntry(c, f[i])]
  BY DEF Listings
<1>4. ASSUME NEW u \in present PROVE \E i \in 1 .. n : f[i] = u
  <2> SUFFICES ASSUME \A i \in 1 .. n : f[i] # u PROVE FALSE
    OBVIOUS
  <2>1. IsFiniteSet(present \ {u}) /\ Cardinality(present \ {u}) = n - 1
    BY <1>1, FS_RemoveElement
  <2>2. IsFiniteSet(1 .. n) /\ Cardinality(1 .. n) = n
    <3>1. IsFiniteSet(1 .. n) /\ Cardinality(1 .. n) = IF 1 > n THEN 0 ELSE n - 1 + 1
      BY <1>2, FS_Interval
    <3> QED
      BY <1>2, <3>1
  <2>3. f \in [1 .. n -> present \ {u}]
    BY <1>3
  <2>4. Cardinality(present \ {u}) < Cardinality(1 .. n)
    BY <1>2, <2>1, <2>2
  <2>5. \E x, y \in 1 .. n : x # y /\ f[x] = f[y]
    <3> DEFINE S == 1 .. n
               T == present \ {u}
    <3>1. IsFiniteSet(S) /\ IsFiniteSet(T) /\ Cardinality(T) < Cardinality(S) /\ f \in [S -> T]
      BY <2>1, <2>2, <2>3, <2>4
    <3> HIDE DEF S, T
    <3>2. \E x, y \in S : x # y /\ f[x] = f[y]
      BY <3>1, FS_PigeonHole, Zenon
    <3> QED
      BY <3>2 DEF S
  <2> QED
    BY <1>3, <2>5
<1>5. ASSUME NEW i \in 1 .. n
      PROVE  /\ i \in DOMAIN seq /\ f[i] \in present /\ seq[i].uid = f[i]
             /\ seq[i].etag = objects[c][f[i]] /\ "200" \in seq[i].propstats
  BY <1>3 DEF ObjectEntry, AddResponse, ObjectByUid
<1>6. DOMAIN seq = 1 .. n
  BY <1>3
<1>7. ASSUME NEW u \in Uids, objects[c][u] # None
      PROVE  Says(seq, u, objects[c][u])
  <2>1. u \in present
    BY <1>7
  <2>2. PICK i \in 1 .. n : f[i] = u
    BY <1>4, <2>1
  <2>3. \A j \in 1 .. n : f[j] = u => j = i
    BY <1>3, <2>2
  <2>4. /\ i \in DOMAIN seq /\ seq[i].uid = u
        /\ objects[c][u] = IF "200" \in seq[i].propstats THEN seq[i].etag ELSE None
    BY <1>5, <2>2
  <2>5. \A j \in DOMAIN seq : seq[j].uid = u => j <= i
    <3> SUFFICES ASSUME NEW j \in DOMAIN seq, seq[j].uid = u PROVE j <= i
      OBVIOUS
    <3>1. j \in 1 .. n /\ f[j] = u
      BY <1>5, <1>6
    <3>2. j = i
      BY <2>3, <3>1
    <3> QED
      BY <1>2, <3>2
  <2> QED
    BY <2>4, <2>5 DEF Says
<1>8. ASSUME NEW i \in DOMAIN seq PROVE objects[c][seq[i].uid] # None
  <2>1. seq[i].uid \in present
    BY <1>5, <1>6
  <2> QED
    BY <2>1
<1> QED
  BY <1>7, <1>8

(* The n-th change turned into an entry, or into none when its object has  *)
(* gone again.                                                             *)
LEMMA CoversOne ==
  ASSUME NEW log \in Seq(Change), NEW obj \in [Uids -> Nat], NEW seq \in Seq(Entry),
         NEW n \in Nat, n + 1 <= Len(log), Covers(log, obj, seq, n),
         NEW new,
         LET ch == log[n + 1]
         IN  \/ /\ ch.change = "deleted"
                /\ new = Append(seq, DeletedEntry(ch.uid))
             \/ /\ ch.change # "deleted" /\ obj[ch.uid] # None
                /\ new = Append(seq, AddResponse(ch.uid, obj[ch.uid], TRUE, FALSE))
             \/ /\ ch.change # "deleted" /\ obj[ch.uid] = None /\ new = seq
  PROVE  Covers(log, obj, new, n + 1)
<1> DEFINE ch == log[n + 1]
<1>0. n + 1 \in DOMAIN log /\ ch \in Change /\ ch.uid \in Uids
  <2>1. n + 1 \in 1 .. Len(log) /\ DOMAIN log = 1 .. Len(log)
    OBVIOUS
  <2>2. ch \in Change
    BY <2>1
  <2> QED
    BY <2>1, <2>2 DEF Change
<1>1. \A i \in 1 .. n + 1 : i \in 1 .. n \/ i = n + 1
  OBVIOUS
<1>2. /\ DeletedEntry(ch.uid) \in Entry /\ DeletedEntry(ch.uid).uid = ch.uid
      /\ "200" \notin DeletedEntry(ch.uid).propstats
  BY <1>0 DEF DeletedEntry, AddResponse, Entry, None
<1>3. LET x == AddResponse(ch.uid, obj[ch.uid], TRUE, FALSE)
      IN  x \in Entry /\ x.uid = ch.uid /\ "200" \in x.propstats /\ x.etag = obj[ch.uid]
  BY <1>0 DEF AddResponse, Entry
<1> SUFFICES ASSUME NEW u \in Uids
             PROVE  /\ (\A i \in 1 .. n + 1 : log[i].uid # u) =>
                           \A j \in DOMAIN new : new[j].uid # u
                    /\ \A i \in 1 .. n + 1 :
                           /\ log[i].uid = u
                           /\ \A j \in 1 .. n + 1 : log[j].uid = u => j <= i
                           /\ log[i].change = "deleted" <=> obj[u] = None
                           => Says(new, u, obj[u])
  BY DEF Covers
<1>4. CASE u = ch.uid
  <2>1. n + 1 \in 1 .. n + 1
    OBVIOUS
  <2>2. ASSUME NEW i \in 1 .. n + 1, \A j \in 1 .. n + 1 : log[j].uid = u => j <= i
        PROVE  i = n + 1
    BY <1>4, <2>1, <2>2
  <2>3. (ch.change = "deleted" <=> obj[u] = None) => Says(new, u, obj[u])
    <3>1. CASE ch.change = "deleted" /\ obj[u] = None
      BY <1>2, <1>4, <3>1, SaysAppend
    <3>2. CASE ch.change # "deleted" /\ obj[u] # None
      BY <1>3, <1>4, <3>2, SaysAppend
    <3> QED
      BY <3>1, <3>2
  <2> QED
    BY <1>4, <2>1, <2>2, <2>3
<1>5. CASE u # ch.uid
  <2>1. (\A j \in DOMAIN seq : seq[j].uid # u) => \A j \in DOMAIN new : new[j].uid # u
    BY <1>2, <1>3, <1>5, SaysAppend, ZenonT(40)
  <2>2. ASSUME NEW e, Says(seq, u, e) PROVE Says(new, u, e)
    <3>1. ASSUME NEW x \in Entry, x.uid = ch.uid, new = Append(seq, x)
          PROVE  Says(new, u, e)
      BY <1>5, <2>2, <3>1, SaysAppend
    <3> QED
      BY <1>2, <1>3, <2>2, <3>1
  <2>3. \A i \in 1 .. n : i \in 1 .. n + 1
    OBVIOUS
  <2>4. (\A i \in 1 .. n + 1 : log[i].uid # u) => \A j \in DOMAIN new : new[j].uid # u
    BY <2>1, <2>3 DEF Covers
  <2>5. ASSUME NEW i \in 1 .. n + 1, log[i].uid = u,
               \A j \in 1 .. n + 1 : log[j].uid = u => j <= i,
               log[i].change = "deleted" <=> obj[u] = None
        PROVE  Says(new, u, obj[u])
    <3>1. i \in 1 .. n
      BY <1>1, <1>5, <2>5
    <3>2. \A j \in 1 .. n : log[j].uid = u => j <= i
      BY <2>3, <2>5
    <3> QED
      BY <2>2, <2>5, <3>1, <3>2 DEF Covers
  <2> QED
    BY <2>4, <2>5
<1> QED
  BY <1>4, <1>5

----------------------------------------------------------------------------
(* The change log *)

(* Requests that take turns keep it, whether their calendar is there or    *)
(* not: a stored object is logged before somebody else touches it.         *)
LEMMA RequestServerLog ==
  ASSUME TypeOK, Exclusive, NoOrphans, ServerLog, NEW r \in Requests, Arrive(r) \/ Handle(r)
  PROVE  ServerLog'
<1> USE DEF TypeOK, RequestsTypeOK
<1>0. /\ StoreTypeOK /\ Cal(r) \in Calendars /\ Uid(r) \in Uids
      /\ ChangeOf(r) \in ChangeType /\ (ChangeOf(r) = "deleted" <=> Deletes(r))
  BY DEF Task, Cal, Uid, ChangeOf, ChangeType
<1>1. \A q \in Requests : Cal(q)' = Cal(q) /\ Uid(q)' = Uid(q) /\ (Deletes(q)' <=> Deletes(q))
  BY StepFrame DEF Cal, Uid, Deletes
<1>2. \A q \in Requests \ {r} : pc'[q] = pc[q]
  BY StepFrame
<1>3. OneWriter' /\ WritersOnly'
  BY StepOneWriter, StepWritersOnly DEF ServerLog, RequestStep
<1>4. DeletionsDone'
  <2>1. ASSUME NEW q \in Requests \ {r}, pc[q] = "log", Deletes(q)
        PROVE  objects'[Cal(q)][Uid(q)] = None
    <3>1. Cal(q) \in Calendars /\ Uid(q) \in Uids
      BY <2>1 DEF Task, Cal, Uid
    <3>2. objects[Cal(q)][Uid(q)] = None
      BY <2>1 DEF ServerLog, DeletionsDone
    <3>3. CASE pc[r] \in {"insert", "update", "delete"}
      <4>1. Cal(q) # Cal(r) \/ Uid(q) # Uid(r)
        BY <2>1, <3>3 DEF ServerLog, OneWriter, Active, Statements, SameObject
      <4> QED
        BY <3>1, <3>2, <4>1, StepFrame
    <3>4. CASE pc[r] \notin {"insert", "update", "delete"}
      BY <3>2, <3>4, StepFrame
    <3> QED
      BY <3>3, <3>4
  <2>2. ASSUME pc'[r] = "log", Deletes(r)
        PROVE  objects'[Cal(r)][Uid(r)] = None
    <3>1. pc[r] # "log"
      BY <2>2 DEF Arrive, Handle, VerifyAccess, CheckIfMatch, LookupEvent, SelectExisting,
         InsertRow, UpdateRow, DeleteRow, LogChange, Bump, ReadBack, Respond, Goto
    <3>2. pc[r] \in {"insert", "update", "delete"}
      <4>1. Arrive(r) => pc'[r] # "log"
        BY DEF Arrive, Goto, Task, Kinds
      <4> QED
        BY <2>2, <3>1, <4>1 DEF Handle, VerifyAccess, CheckIfMatch, LookupEvent, SelectExisting,
           InsertRow, UpdateRow, DeleteRow, LogChange, Bump, ReadBack, Respond, Goto
    <3>3. DeleteRow(r) /\ pc[r] = "delete"
      BY <2>2, <3>2 DEF ServerLog, WritersOnly, Arrive, Handle, VerifyAccess, CheckIfMatch,
         LookupEvent, SelectExisting, InsertRow, UpdateRow, DeleteRow, LogChange, Bump, ReadBack
    <3>4. DeleteObject(Cal(r), Uid(r))
      BY <2>2, <3>3 DEF DeleteRow, Respond, Goto
    <3> QED
      BY <1>0, <3>4 DEF DeleteObject, StoreTypeOK
  <2> QED
    BY <1>1, <1>2, <2>1, <2>2 DEF DeletionsDone
<1>5. RowsLogged'
  <2> SUFFICES ASSUME NEW c \in Calendars, NEW u \in Uids, objects'[c][u] # None,
                      Writing(c, u)' = {}
               PROVE  LoggedPresent(c, u)'
    BY DEF RowsLogged
  <2>1. CASE c = Cal(r) /\ u = Uid(r) /\ pc[r] = "log"
    <3>1. objects' = objects
      BY <2>1, StepFrame
    <3>2. ~ Deletes(r)
      BY <2>1, <3>1 DEF ServerLog, DeletionsDone
    <3>3. Exists(c)
      BY <1>0, <3>1 DEF NoOrphans
    <3>4. LogSyncChange(Cal(r), Uid(r), ChangeOf(r))
      BY <2>1, <3>3 DEF Arrive, Handle, VerifyAccess, CheckIfMatch, LookupEvent, SelectExisting,
         InsertRow, UpdateRow, DeleteRow, LogChange, Bump, ReadBack
    <3> QED
      BY <1>0, <2>1, <3>2, <3>4, AppendedIsLast
  <2>2. CASE c = Cal(r) /\ u = Uid(r) /\ pc[r] # "log"
    <3>1. Writing(c, u) = {}
      BY <1>1, <1>2, <2>2 DEF Writing
    <3>2. pc'[r] # "log"
      BY <1>1, <2>2 DEF Writing
    <3>3. sync_changes' = sync_changes
      BY <2>2, StepFrame
    <3>4. objects'[c][u] = objects[c][u]
      <4>1. CASE pc[r] \in {"insert", "update", "delete"}
        BY <3>2, <4>1 DEF Arrive, Handle, VerifyAccess, CheckIfMatch, LookupEvent, SelectExisting,
           InsertRow, UpdateRow, DeleteRow, LogChange, Bump, ReadBack, Goto, store
      <4>2. CASE pc[r] \notin {"insert", "update", "delete"}
        BY <4>2, StepFrame
      <4> QED
        BY <4>1, <4>2
    <3> QED
      BY <3>1, <3>3, <3>4 DEF ServerLog, RowsLogged, LoggedPresent
  <2>3. CASE c # Cal(r) \/ u # Uid(r)
    <3>1. Writing(c, u) = {}
      BY <1>1, <1>2, <2>3 DEF Writing
    <3>2. objects'[c][u] = objects[c][u]
      BY <2>3, StepFrame
    <3>3. LoggedPresent(c, u)' <=> LoggedPresent(c, u)
      <4>1. CASE sync_changes' = sync_changes
        BY <4>1 DEF LoggedPresent
      <4>2. CASE LogSyncChange(Cal(r), Uid(r), ChangeOf(r))
        BY <1>0, <2>3, <4>2, AppendedIsLast
      <4>3. sync_changes' = sync_changes \/ LogSyncChange(Cal(r), Uid(r), ChangeOf(r))
        BY StepFrame DEF Arrive, Handle, VerifyAccess, CheckIfMatch, LookupEvent, SelectExisting,
           InsertRow, UpdateRow, DeleteRow, LogChange, Bump, ReadBack, store
      <4> QED
        BY <4>1, <4>2, <4>3
    <3> QED
      BY <3>1, <3>2, <3>3 DEF ServerLog, RowsLogged
  <2> QED
    BY <2>1, <2>2, <2>3
<1> QED
  BY <1>3, <1>4, <1>5 DEF ServerLog

(* What a collection request does to the objects, the tokens and the log.  *)
LEMMA ManagerStepEffect ==
  ASSUME CollectionTypeOK, ManagerStep
  PROVE  \/ \E c \in Calendars, u \in Users : InsertCalendar(c, u)
         \/ \E c \in Calendars : DeleteCalendar(c)
         \/ UNCHANGED <<objects, sync_token, sync_changes>>
<1> PICK m \in Managers : Begin(m) \/ Manage(m) \/ DropManager(m) \/ FailManager(m)
  BY DEF ManagerStep
<1>1. job[m].calendar \in Calendars /\ job[m].user \in Users
  BY DEF CollectionTypeOK, CollectionTask
<1>2. \/ InsertCalendar(job[m].calendar, job[m].user)
      \/ DeleteCalendar(job[m].calendar)
      \/ UNCHANGED <<objects, sync_token, sync_changes>>
  BY DEF Begin, Manage, DropManager, FailManager, CollectionAccess, CheckCalendar, CreateCalendar,
     ReadCreated, RemoveCalendar, FindCalendar, ReadColumns, WriteColumns, ReadUpdated, Grant,
     ReadShare, Revoke, Confirm, ShareCalendar, UnshareCalendar, store
<1> QED
  BY <1>1, <1>2

(* A calendar that goes takes its rows and its log along.                  *)
LEMMA ManagerServerLog ==
  ASSUME TypeOK, CollectionTypeOK, ServerLog, ManagerStep, UNCHANGED requests
  PROVE  ServerLog'
<1>0. \A r \in Requests : Cal(r) \in Calendars /\ Uid(r) \in Uids
  BY DEF TypeOK, RequestsTypeOK, Task, Cal, Uid
<1>1. OneWriter' /\ WritersOnly'
  BY DEF requests, ServerLog, OneWriter, WritersOnly, Active, SameObject, Cal, Uid, Deletes
<1>2. \A c \in Calendars, u \in Uids : objects'[c][u] \in {objects[c][u], None}
  BY ManagersOnlyRemove DEF TypeOK
<1>3. DeletionsDone'
  BY <1>0, <1>2 DEF requests, ServerLog, DeletionsDone, Cal, Uid, Deletes
<1>4. RowsLogged'
  <2> SUFFICES ASSUME NEW c \in Calendars, NEW u \in Uids, objects'[c][u] # None,
                      Writing(c, u)' = {}
               PROVE  LoggedPresent(c, u)'
    BY DEF RowsLogged
  <2>1. Writing(c, u) = {} /\ objects[c][u] # None
    BY <1>2 DEF requests, Writing, Cal, Uid
  <2>2. sync_changes'[c] = sync_changes[c]
    <3>1. ASSUME NEW d \in Calendars, DeleteCalendar(d)
          PROVE  sync_changes'[c] = sync_changes[c]
      BY <3>1 DEF DeleteCalendar, TypeOK, StoreTypeOK
    <3> QED
      BY <3>1, ManagerStepEffect DEF InsertCalendar
  <2> QED
    BY <2>1, <2>2 DEF ServerLog, RowsLogged, LoggedPresent
<1> QED
  BY <1>1, <1>3, <1>4 DEF ServerLog

----------------------------------------------------------------------------
(* Tokens that are still current *)

(* A token that is live after a statement was live before it, and the      *)
(* statement changed neither the objects of the calendar nor its log.      *)
LEMMA StillLive ==
  ASSUME SyncTypeOK, TokensSeparate, NoOrphans', UNCHANGED clients,
         \/ \E r \in Requests : Arrive(r) \/ Handle(r)
         \/ CollectionTypeOK /\ ManagerStep /\ UNCHANGED requests
         \/ UNCHANGED <<store, requests>>,
         NEW k \in Clients, NEW t \in Nat, t <= issued, Live(k, t)'
  PROVE  /\ Live(k, t) /\ objects'[mirrored[k]] = objects[mirrored[k]]
         /\ sync_changes'[mirrored[k]] = sync_changes[mirrored[k]]
<1> USE DEF SyncTypeOK, TypeOK
<1>a. PICK c \in Calendars : c = mirrored[k]
  BY DEF ClientsTypeOK
<1>0. /\ c = mirrored'[k] /\ issued \in Nat
      /\ t # None /\ t = sync_token'[c] /\ Settled(c)'
  <2>1. c = mirrored'[k] /\ issued \in Nat
    BY <1>a DEF clients, StoreTypeOK
  <2>2. t # None /\ t = sync_token'[mirrored'[k]] /\ Settled(mirrored[k])'
    BY DEF Live
  <2> QED
    BY <2>1, <2>2 DEF Settled
<1>1. Exists(c)'
  BY <1>0 DEF NoOrphans
<1> SUFFICES sync_token'[c] = sync_token[c] /\ Settled(c) /\ objects'[c] = objects[c]
             /\ sync_changes'[c] = sync_changes[c]
  BY <1>a, <1>0 DEF Live
<1>2. ASSUME NEW r \in Requests, Arrive(r) \/ Handle(r)
      PROVE  sync_token'[c] = sync_token[c] /\ Settled(c) /\ objects'[c] = objects[c]
             /\ sync_changes'[c] = sync_changes[c]
  <2>1. Exists(c)
    BY <1>1, <1>2, StepFrame DEF Exists
  <2>2. AtRest(c)'
    BY <1>0 DEF AtRest, Settled
  <2>3. sync_token'[c] <= issued
    BY <1>0
  <2>4. sync_token'[c] = sync_token[c] /\ AtRest(c) /\ objects'[c] = objects[c]
        /\ sync_changes'[c] = sync_changes[c]
    BY <1>0, <1>2, <2>1, <2>2, <2>3, StillCurrent
  <2> QED
    BY <2>4 DEF AtRest, Settled
<1>3. CASE UNCHANGED requests
  <2>1. Settled(c)
    BY <1>0, <1>3 DEF requests, Settled, Cal
  <2>2. ASSUME NEW d \in Calendars, NEW u \in Users, InsertCalendar(d, u)
        PROVE  sync_token'[c] = sync_token[c] /\ objects' = objects /\ sync_changes' = sync_changes
    BY <1>0, <2>2 DEF InsertCalendar, StoreTypeOK
  <2>3. ASSUME NEW d \in Calendars, DeleteCalendar(d)
        PROVE  sync_token'[c] = sync_token[c] /\ objects'[c] = objects[c]
               /\ sync_changes'[c] = sync_changes[c]
    BY <1>0, <2>3 DEF DeleteCalendar, StoreTypeOK
  <2>4. CASE CollectionTypeOK /\ ManagerStep
    BY <2>1, <2>2, <2>3, <2>4, ManagerStepEffect
  <2>5. CASE UNCHANGED store
    BY <2>1, <2>5 DEF store
  <2>6. CASE \E r \in Requests : Arrive(r) \/ Handle(r)
    BY <1>2, <2>6
  <2> QED
    BY <2>4, <2>5, <2>6
<1> QED
  BY <1>2, <1>3

(* So statements of the handlers keep what is known of the reports.        *)
LEMMA StatementReports ==
  ASSUME SyncTypeOK, TokensSeparate, NoOrphans', UNCHANGED clients,
         \/ \E r \in Requests : Arrive(r) \/ Handle(r)
         \/ CollectionTypeOK /\ ManagerStep /\ UNCHANGED requests
         \/ UNCHANGED <<store, requests>>,
         NEW k \in Clients, ReportFits(k)
  PROVE  ReportFits(k)'
<1>1. /\ token[k] \in Nat /\ token[k] <= issued /\ read_token[k] \in Nat /\ read_token[k] <= issued
  BY DEF SyncTypeOK, ClientsTypeOK, TokensSeparate, TokensBounded
<1>2. /\ at'[k] = at[k] /\ token'[k] = token[k] /\ read_token'[k] = read_token[k]
      /\ copy'[k] = copy[k] /\ todo'[k] = todo[k] /\ entries'[k] = entries[k] /\ mirrored' = mirrored
  BY DEF clients
<1>3. ASSUME NEW t \in {token[k], read_token[k]}, Live(k, t)'
      PROVE  /\ Live(k, t) /\ objects'[mirrored[k]] = objects[mirrored[k]]
             /\ sync_changes'[mirrored[k]] = sync_changes[mirrored[k]]
  BY <1>1, <1>3, StillLive
<1>4. Live(k, read_token[k])' => \A n : Replayed(k, n) => Replayed(k, n)'
  <2> SUFFICES ASSUME Live(k, read_token[k])', NEW n, Replayed(k, n) PROVE Replayed(k, n)'
    OBVIOUS
  <2>1. /\ objects'[mirrored[k]] = objects[mirrored[k]]
        /\ sync_changes'[mirrored[k]] = sync_changes[mirrored[k]]
    BY <1>2, <1>3 DEF Live
  <2> QED
    BY <1>2, <2>1 DEF Replayed
<1>5. /\ Live(k, token[k])' => Live(k, token[k]) /\ objects'[mirrored[k]] = objects[mirrored[k]]
      /\ Live(k, read_token[k])' =>
             Live(k, read_token[k]) /\ objects'[mirrored[k]] = objects[mirrored[k]]
  BY <1>2, <1>3 DEF Live
<1> QED
  BY <1>2, <1>4, <1>5 DEF ReportFits

----------------------------------------------------------------------------
(* Reports *)

(* With every change replayed, the response has what is stored.            *)
LEMMA WholeLogReplayed ==
  ASSUME StoreTypeOK, ClientsTypeOK, RowsLogged, NEW k \in Clients, NEW n \in Nat,
         Replayed(k, n), todo[k] = << >>, Settled(mirrored[k]),
         NEW u \in Uids, objects[mirrored[k]][u] # None
  PROVE  Says(entries[k], u, objects[mirrored[k]][u])
<1> DEFINE log == sync_changes[mirrored[k]]
<1>0. mirrored[k] \in Calendars /\ log \in Seq(Change)
  BY DEF ClientsTypeOK, StoreTypeOK
<1>1. n = Len(log) /\ DOMAIN log = 1 .. n
  BY <1>0 DEF Replayed
<1>2. Writing(mirrored[k], u) = {}
  BY DEF Settled, Writing
<1>3. PICK i \in DOMAIN log : /\ log[i].uid = u /\ log[i].change # "deleted"
                              /\ \A j \in DOMAIN log : log[j].uid = u => j <= i
  BY <1>0, <1>2 DEF RowsLogged, LoggedPresent
<1> QED
  BY <1>1, <1>3 DEF Replayed, Covers

(* One change is taken from the list and put into the response.            *)
LEMMA AddEntryReplays ==
  ASSUME StoreTypeOK, ClientsTypeOK, NEW k \in Clients, NEW n \in Nat,
         Replayed(k, n), AddEntry(k), UNCHANGED store
  PROVE  Replayed(k, n + 1)'
<1> DEFINE log == sync_changes[mirrored[k]]
           obj == objects[mirrored[k]]
<1>0. /\ mirrored[k] \in Calendars /\ log \in Seq(Change) /\ obj \in [Uids -> Nat]
      /\ todo[k] \in Seq(Change) /\ entries[k] \in Seq(Entry)
  BY DEF ClientsTypeOK, StoreTypeOK
<1>1. /\ todo[k] # << >> /\ todo'[k] = Tail(todo[k]) /\ mirrored' = mirrored
      /\ sync_changes' = sync_changes /\ objects' = objects
  BY DEF AddEntry, ClientsTypeOK, store
<1>2. /\ n + Len(todo[k]) = Len(log)
      /\ \A i \in 1 .. Len(todo[k]) : todo[k][i] = log[n + i]
      /\ Covers(log, obj, entries[k], n)
  BY DEF Replayed
<1>3. /\ Len(todo[k]) \in Nat /\ Len(todo[k]) >= 1 /\ Len(todo'[k]) = Len(todo[k]) - 1
      /\ \A i \in 1 .. Len(todo'[k]) : todo'[k][i] = todo[k][i + 1]
      /\ Head(todo[k]) = todo[k][1]
  BY <1>0, <1>1
<1>4. Head(todo[k]) = log[n + 1] /\ n + 1 <= Len(log)
  <2>1. Head(todo[k]) = log[n + 1]
    BY <1>2, <1>3
  <2> QED
    BY <1>0, <1>2, <1>3, <2>1
<1>5. LET ch == log[n + 1]
      IN  \/ /\ ch.change = "deleted"
             /\ entries'[k] = Append(entries[k], DeletedEntry(ch.uid))
          \/ /\ ch.change # "deleted" /\ obj[ch.uid] # None
             /\ entries'[k] = Append(entries[k], AddResponse(ch.uid, obj[ch.uid], TRUE, FALSE))
          \/ /\ ch.change # "deleted" /\ obj[ch.uid] = None /\ entries'[k] = entries[k]
  BY <1>4 DEF AddEntry, ObjectEntry, ObjectByUid, ClientsTypeOK
<1>6. Covers(log, obj, entries'[k], n + 1)
  <2> HIDE DEF log, obj
  <2> QED
    BY <1>0, <1>2, <1>4, <1>5, CoversOne
<1>7. n + 1 + Len(todo'[k]) = Len(log)
  BY <1>2, <1>3
<1>8. \A i \in 1 .. Len(todo'[k]) : todo'[k][i] = log[n + 1 + i]
  <2> SUFFICES ASSUME NEW i \in 1 .. Len(todo'[k]) PROVE todo'[k][i] = log[n + 1 + i]
    OBVIOUS
  <2>1. i + 1 \in 1 .. Len(todo[k]) /\ n + (i + 1) = n + 1 + i
    BY <1>3
  <2> QED
    BY <1>2, <1>3, <2>1
<1> QED
  BY <1>1, <1>6, <1>7, <1>8 DEF Replayed

(* What the other clients know does not change.                            *)
LEMMA OtherReports ==
  ASSUME ClientsTypeOK, NEW k \in Clients,
         SendReport(k) \/ ReportStep(k) \/ LoseReport(k) \/ FailStatement(k),
         NEW j \in Clients \ {k}
  PROVE  /\ at'[j] = at[j] /\ token'[j] = token[j] /\ copy'[j] = copy[j]
         /\ read_token'[j] = read_token[j] /\ todo'[j] = todo[j] /\ entries'[j] = entries[j]
BY DEF ClientsTypeOK, Move, SendReport, ReportStep, ReportAccess, ReadCalendar, ListObjects,
   FindAnchor, ReadChanges, AddEntry, FinishEntries, Deliver, LoseReport, FailStatement

(* Every step of a report, and its loss, keeps what is known of it.        *)
LEMMA ReportStepFits ==
  ASSUME StoreTypeOK, ClientsTypeOK, NoAnchor, RowsLogged, Faults \subseteq {"lose"},
         ClientStep, NEW j \in Clients, ReportFits(j)
  PROVE  ReportFits(j)'
<1> PICK k \in Clients : SendReport(k) \/ ReportStep(k) \/ LoseReport(k) \/ FailStatement(k)
  BY DEF ClientStep
<1>1. /\ mirrored' = mirrored /\ objects' = objects /\ sync_changes' = sync_changes
      /\ sync_token' = sync_token /\ pc' = pc /\ task' = task /\ UNCHANGED store
  BY DEF ClientStep, SendReport, ReportStep, ReportAccess, ReadCalendar, ListObjects, FindAnchor,
     ReadChanges, AddEntry, FinishEntries, Deliver, LoseReport, FailStatement, store, requests
<1>2. \A t : Live(j, t) <=> t # None /\ t = sync_token[mirrored[j]] /\ Settled(mirrored[j])
  BY DEF Live
<1>3. Settled(mirrored[j])' <=> Settled(mirrored[j])
  BY <1>1 DEF Settled, Cal
<1>4. ASSUME NEW t PROVE (t # None /\ t = sync_token'[mirrored'[j]] /\ Settled(mirrored[j])') <=> Live(j, t)
  BY <1>1, <1>2, <1>3
<1>5. CASE j # k
  <2>1. /\ at'[j] = at[j] /\ token'[j] = token[j] /\ copy'[j] = copy[j]
        /\ read_token'[j] = read_token[j] /\ todo'[j] = todo[j] /\ entries'[j] = entries[j]
    BY <1>5, OtherReports
  <2>2. \A n : Replayed(j, n)' <=> Replayed(j, n)
    BY <1>1, <2>1 DEF Replayed
  <2>3. /\ Live(j, token[j])' <=> Live(j, token[j])
        /\ Live(j, read_token[j])' <=> Live(j, read_token[j])
    BY <1>4, <2>1 DEF Live
  <2> QED
    BY <1>1, <2>1, <2>2, <2>3 DEF ReportFits
<1>6. CASE j = k
  <2> DEFINE obj == objects[mirrored[k]]
  <2>0. /\ mirrored[k] \in Calendars /\ entries[k] \in Seq(Entry) /\ copy[k] \in [Uids -> Nat]
        /\ ReportFits(k)
    BY <1>6 DEF ClientsTypeOK
  <2>a. Live(k, read_token[k])' <=> Live(k, read_token'[k])
    BY <1>4, <1>6 DEF Live
  <2>b. Live(k, token[k])' <=> Live(k, token'[k])
    BY <1>4, <1>6 DEF Live
  <2>c. token'[k] = token[k] /\ copy'[k] = copy[k] =>
          (Live(k, token[k])' => \A u \in Uids : obj[u] # None => copy'[k][u] = obj[u])
    BY <2>0, <2>b DEF ReportFits
  <2>1. CASE SendReport(k) \/ ReportAccess(k) \/ ReadCalendar(k) \/ FindAnchor(k) \/ LoseReport(k)
    <3>1. /\ token'[k] = token[k] /\ copy'[k] = copy[k]
          /\ at'[k] \notin {"entry", "deliver"}
      BY <2>1 DEF ClientsTypeOK, Move, SendReport, ReportAccess, ReadCalendar, FindAnchor, LoseReport
    <3>2. entries'[k] = << >>
      BY <2>0, <2>1 DEF ClientsTypeOK, SendReport, ReportAccess, ReadCalendar, FindAnchor,
         LoseReport, ReportFits
    <3> QED
      BY <1>1, <1>6, <2>c, <3>1, <3>2 DEF ReportFits
  <2>2. CASE ListObjects(k)
    <3>1. PICK seq \in Listings(mirrored[k]) : entries' = [entries EXCEPT ![k] = seq]
      BY <2>2 DEF ListObjects
    <3>2. /\ token'[k] = token[k] /\ copy'[k] = copy[k] /\ at'[k] = "deliver"
          /\ entries'[k] = seq /\ seq \in Seq(Entry)
      BY <2>0, <2>2, <3>1, ListingsType DEF ListObjects, Move, ClientsTypeOK
    <3>3. \A u \in Uids : obj[u] # None => Applied(copy[k], seq)[u] = obj[u]
      BY <2>0, <3>2, ListingSays, SaysApplied
    <3> QED
      BY <1>1, <1>6, <2>c, <3>2, <3>3 DEF ReportFits
  <2>3. CASE ReadChanges(k)
    <3>1. /\ token'[k] = token[k] /\ copy'[k] = copy[k] /\ at'[k] = "entry"
          /\ entries' = entries /\ entries[k] = << >> /\ todo'[k] = sync_changes[mirrored[k]]
      BY <2>0, <2>3 DEF ReadChanges, Move, ClientsTypeOK, ReportFits, NoAnchor, ChangesAfter
    <3>2. Replayed(k, 0)'
      <4>1. sync_changes[mirrored[k]] \in Seq(Change)
        BY <2>0 DEF StoreTypeOK
      <4>2. Covers(sync_changes[mirrored[k]], obj, << >>, 0)
        BY DEF Covers
      <4> QED
        BY <1>1, <3>1, <4>1, <4>2 DEF Replayed
    <3>3. \E n \in Nat : Replayed(k, n)'
      BY <3>2
    <3> QED
      BY <1>1, <1>6, <2>c, <3>1, <3>3 DEF ReportFits
  <2>4. CASE AddEntry(k)
    <3>1. /\ token'[k] = token[k] /\ copy'[k] = copy[k] /\ at'[k] = "entry" /\ at[k] = "entry"
          /\ read_token'[k] = read_token[k]
      BY <2>4 DEF AddEntry
    <3>2. ASSUME Live(k, read_token[k])' PROVE \E n \in Nat : Replayed(k, n)'
      <4>1. PICK n \in Nat : Replayed(k, n)
        BY <2>0, <2>a, <3>1, <3>2 DEF ReportFits
      <4>2. Replayed(k, n + 1)'
        BY <1>1, <2>4, <4>1, AddEntryReplays
      <4> QED
        BY <4>2
    <3> QED
      BY <1>1, <1>6, <2>c, <3>1, <3>2 DEF ReportFits
  <2>5. CASE FinishEntries(k)
    <3>1. /\ token'[k] = token[k] /\ copy'[k] = copy[k] /\ at'[k] = "deliver" /\ at[k] = "entry"
          /\ read_token'[k] = read_token[k] /\ entries' = entries /\ todo[k] = << >>
      BY <2>5 DEF FinishEntries, Move, ClientsTypeOK
    <3>2. ASSUME Live(k, read_token[k])', NEW u \in Uids, obj[u] # None
          PROVE  Applied(copy[k], entries[k])[u] = obj[u]
      <4>1. Live(k, read_token[k])
        BY <2>a, <3>1, <3>2
      <4>2. PICK n \in Nat : Replayed(k, n)
        BY <2>0, <3>1, <4>1 DEF ReportFits
      <4>3. Says(entries[k], u, obj[u])
        BY <3>1, <3>2, <4>1, <4>2, WholeLogReplayed DEF Live
      <4> QED
        BY <2>0, <4>3, SaysApplied
    <3> QED
      BY <1>1, <1>6, <2>c, <3>1, <3>2 DEF ReportFits
  <2>6. CASE Deliver(k)
    <3>1. at'[k] = "idle" /\ entries'[k] = << >> /\ at[k] = "deliver"
      BY <2>6 DEF Deliver, Move, ClientsTypeOK
    <3>2. \/ token'[k] = token[k] /\ copy'[k] = copy[k]
          \/ token'[k] = read_token[k] /\ copy'[k] = Applied(copy[k], entries[k])
      BY <2>6 DEF Deliver, ClientsTypeOK
    <3>3. Live(k, token[k])' => \A u \in Uids : obj[u] # None => copy'[k][u] = obj[u]
      BY <2>0, <2>b, <2>c, <3>1, <3>2 DEF ReportFits
    <3> QED
      BY <1>1, <1>6, <3>1, <3>3 DEF ReportFits
  <2>7. ~ FailStatement(k)
    BY DEF FailStatement
  <2> QED
    BY <2>1, <2>2, <2>3, <2>4, <2>5, <2>6, <2>7 DEF ReportStep
<1> QED
  BY <1>5, <1>6

(* The invariant of the composition.                                       *)
LEMMA MirrorInvariantStep ==
  ASSUME Exclusive, Faults \subseteq {"lose"}, MirrorInvariant, [ServerNext]_serverVars
  PROVE  MirrorInvariant'
<1> USE DEF MirrorInvariant
<1>t. StoreTypeOK /\ TypeOK /\ ClientsTypeOK /\ SyncTypeOK /\ CollectionTypeOK
  BY DEF ServerTypeOK, SyncTypeOK, TypeOK
<1>1. ServerTypeOK' /\ TokensSeparate'
  BY ServerStepType, ServerStepTokens DEF TokensSeparate
<1>2. NoOrphans'
  <2>1. CASE StoreNext
    BY <1>t, <2>1, StoreNextNoOrphans
  <2>2. CASE UNCHANGED store
    BY <2>2 DEF store, NoOrphans, Exists
  <2> QED
    BY <2>1, <2>2, ServerStepStatement
<1>3. ASSUME RequestStep, UNCHANGED clients
      PROVE  ServerLog' /\ \A k \in Clients : ReportFits(k)'
  <2>1. PICK r \in Requests : Arrive(r) \/ Handle(r)
    BY <1>3 DEF RequestStep, Drop, Fail
  <2> QED
    BY <1>t, <1>2, <1>3, <2>1, RequestServerLog, StatementReports
<1>4. ASSUME ClientStep
      PROVE  ServerLog' /\ \A k \in Clients : ReportFits(k)'
  <2>1. ServerLog'
    BY <1>4 DEF ClientStep, store, requests, ServerLog, OneWriter, WritersOnly, DeletionsDone,
       RowsLogged, LoggedPresent, Writing, Active, SameObject, Cal, Uid, Deletes
  <2> QED
    BY <1>4, <1>t, <2>1, ReportStepFits DEF TokensSeparate, ServerLog
<1>5. ASSUME ManagerStep, UNCHANGED <<requests, clients>>
      PROVE  ServerLog' /\ \A k \in Clients : ReportFits(k)'
  BY <1>t, <1>2, <1>5, ManagerServerLog, StatementReports
<1>6. ASSUME UNCHANGED serverVars
      PROVE  ServerLog' /\ \A k \in Clients : ReportFits(k)'
  <2>1. ServerLog'
    BY <1>6 DEF serverVars, store, requests, ServerLog, OneWriter, WritersOnly, DeletionsDone,
       RowsLogged, LoggedPresent, Writing, Active, SameObject, Cal, Uid, Deletes
  <2> QED
    BY <1>t, <1>2, <1>6, <2>1, StatementReports DEF serverVars
<1> QED
  BY <1>1, <1>2, <1>3, <1>4, <1>5, <1>6 DEF ServerNext, SyncNext

(* When clients take turns on an object, a client whose token is the       *)
(* calendar's current one misses no stored object and has none in an old   *)
(* version, however its reports interleaved with the writers' statements,  *)
(* also when the calendar was deleted and created again in between and     *)
(* when responses were lost.                                               *)
THEOREM CurrentTokenSuffices ==
  ASSUME Exclusive, Faults \subseteq {"lose"}
  PROVE  ServerSpec => []CurrentTokenMissesNothing
<1>1. ServerInit => MirrorInvariant
  <2> SUFFICES ASSUME ServerInit PROVE MirrorInvariant
    OBVIOUS
  <2>1. ServerTypeOK /\ TokensSeparate
    BY ServerInitType, ServerInitTokens
  <2>2. NoOrphans
    BY DEF ServerInit, SyncInit, Init, StoreInit, NoOrphans, Exists
  <2>3. ServerLog
    BY DEF ServerInit, SyncInit, Init, StoreInit, RequestsInit, ServerLog, OneWriter, WritersOnly,
       DeletionsDone, RowsLogged, Active, Statements
  <2>4. \A k \in Clients : ReportFits(k)
    BY DEF ServerInit, SyncInit, ClientsInit, ReportFits, Live
  <2> QED
    BY <2>1, <2>2, <2>3, <2>4 DEF MirrorInvariant
<1>2. MirrorInvariant /\ [ServerNext]_serverVars => MirrorInvariant'
  BY MirrorInvariantStep
<1>3. MirrorInvariant => CurrentTokenMissesNothing
  BY DEF MirrorInvariant, ReportFits, Live, CurrentTokenMissesNothing
<1> QED
  BY <1>1, <1>2, <1>3, PTL DEF ServerSpec
----------------------------------------------------------------------------
(* Objects that are gone *)

(* Object u of calendar c is in the change log, or about to be.            *)
Known(c, u) ==
    /\ Exists(c)
    /\ \/ Writing(c, u) # {}
       \/ \E i \in DOMAIN sync_changes[c] : sync_changes[c][i].uid = u

CalendarsHaveTokens == \A c \in Calendars : Exists(c) => sync_token[c] # None

(* A client copies nothing that the log does not know, and what has gone   *)
(* from the calendar goes from its copy: with the first listing there is   *)
(* no copy yet, and later the whole log is replayed.                       *)
AbsenceOf(k, stage, mine, read, held, response) ==
    LET c   == mirrored[k]
        obj == objects[c]
    IN  /\ stage \in {"list", "anchor", "changes", "entry", "deliver"} => read # None
        /\ stage = "list" => mine = None
        /\ mine = None => \A u \in Uids : held[u] = None
        /\ \A u \in Uids : held[u] # None => Known(c, u)
        /\ \A i \in DOMAIN response : response[i].etag # None => Known(c, response[i].uid)
        /\ stage = "deliver" /\ Live(k, read) =>
               \A u \in Uids : obj[u] = None => Applied(held, response)[u] = None
        /\ Live(k, mine) => \A u \in Uids : obj[u] = None => held[u] = None

AbsenceFits(k) == AbsenceOf(k, at[k], token[k], read_token[k], copy[k], entries[k])

SyncInvariant ==
    /\ ClientsTypeOK /\ TokensSeparate /\ NoOrphans
    /\ RefinementInvariant /\ LogFollowsRows /\ CalendarsHaveTokens
    /\ \A k \in Clients : ReportFits(k) /\ AbsenceFits(k)

(* What the log knows stays known: a request that is about to log does so, *)
(* as no calendar goes away.                                               *)
LEMMA KnownStays ==
  ASSUME TypeOK, NEW r \in Requests, Arrive(r) \/ Handle(r),
         NEW c \in Calendars, NEW u \in Uids, Known(c, u)
  PROVE  Known(c, u)'
<1>0. /\ Exists(c) /\ Exists(c)' /\ Cal(r) \in Calendars /\ Uid(r) \in Uids
      /\ ChangeOf(r) \in ChangeType
  BY StepFrame DEF Known, Exists, TypeOK, RequestsTypeOK, Task, Cal, Uid, ChangeOf, ChangeType
<1>1. \A q \in Requests : Cal(q)' = Cal(q) /\ Uid(q)' = Uid(q)
  BY StepFrame DEF Cal, Uid
<1>2. \A q \in Requests \ {r} : pc'[q] = pc[q]
  BY StepFrame
<1>3. CASE pc[r] # "log"
  <2>1. sync_changes' = sync_changes
    BY <1>3, StepFrame
  <2>2. Writing(c, u) \subseteq Writing(c, u)'
    BY <1>1, <1>2, <1>3 DEF Writing
  <2> QED
    BY <1>0, <2>1, <2>2 DEF Known
<1>4. CASE pc[r] = "log" /\ Exists(Cal(r))
  <2>1. LogSyncChange(Cal(r), Uid(r), ChangeOf(r))
    BY <1>4 DEF Arrive, Handle, VerifyAccess, CheckIfMatch, LookupEvent, SelectExisting,
       InsertRow, UpdateRow, DeleteRow, LogChange, Bump, ReadBack
  <2>2. CASE c # Cal(r)
    <3>1. sync_changes'[c] = sync_changes[c]
      BY <2>1, <2>2 DEF LogSyncChange, TypeOK, StoreTypeOK
    <3>2. Writing(c, u) \subseteq Writing(c, u)'
      BY <1>1, <1>2, <2>2 DEF Writing
    <3> QED
      BY <1>0, <3>1, <3>2 DEF Known
  <2>3. CASE c = Cal(r)
    <3> DEFINE log   == sync_changes[c]
               entry == [uid |-> Uid(r), change |-> ChangeOf(r), token |-> issued + 1]
    <3>1. log \in Seq(Change) /\ sync_changes'[c] = Append(log, entry)
      BY <2>1, <2>3 DEF LogSyncChange, TypeOK, StoreTypeOK
    <3>2. /\ \A i \in DOMAIN log : i \in DOMAIN Append(log, entry) /\ Append(log, entry)[i] = log[i]
          /\ Len(log) + 1 \in DOMAIN Append(log, entry)
          /\ Append(log, entry)[Len(log) + 1] = entry
      BY <3>1
    <3>3. CASE u = Uid(r)
      BY <1>0, <3>1, <3>2, <3>3 DEF Known
    <3>4. CASE u # Uid(r)
      <4>1. Writing(c, u) \subseteq Writing(c, u)'
        BY <1>1, <1>2, <3>4 DEF Writing
      <4> QED
        BY <1>0, <3>1, <3>2, <4>1 DEF Known
    <3> QED
      BY <3>3, <3>4
  <2> QED
    BY <2>2, <2>3
<1>5. CASE pc[r] = "log" /\ ~ Exists(Cal(r))
  <2>1. Cal(r) # c
    BY <1>0, <1>5
  <2>2. sync_changes' = sync_changes
    BY <1>5 DEF Arrive, Handle, VerifyAccess, CheckIfMatch, LookupEvent, SelectExisting,
       InsertRow, UpdateRow, DeleteRow, LogChange, LogSyncChange, Bump, ReadBack, store
  <2>3. Writing(c, u) \subseteq Writing(c, u)'
    BY <1>1, <1>2, <2>1 DEF Writing
  <2> QED
    BY <1>0, <2>2, <2>3 DEF Known
<1> QED
  BY <1>3, <1>4, <1>5

(* A stored object is known.                                               *)
LEMMA StoredIsKnown ==
  ASSUME NoOrphans, LogFollowsRows, NEW c \in Calendars, NEW u \in Uids, objects[c][u] # None
  PROVE  Known(c, u)
<1>1. Exists(c)
  BY DEF NoOrphans
<1>2. Writing(c, u) = {} => LoggedPresent(c, u)
  BY DEF LogFollowsRows
<1> QED
  BY <1>1, <1>2 DEF Known, LoggedPresent

(* What a copy has after a response, it had before or got from an entry.   *)
LEMMA AppliedFrom ==
  ASSUME NEW seq \in Seq(Entry), NEW old \in [Uids -> Nat], NEW u \in Uids,
         Applied(old, seq)[u] # None
  PROVE  old[u] # None \/ \E i \in DOMAIN seq : seq[i].uid = u /\ seq[i].etag # None
<1> DEFINE indices == {i \in DOMAIN seq : seq[i].uid = u}
<1>1. CASE indices = {}
  BY <1>1, UnsaidApplied
<1>2. CASE indices # {}
  <2>1. indices \subseteq 1 .. Len(seq) /\ Len(seq) \in Nat
    OBVIOUS
  <2>2. PICK i \in indices : \A j \in indices : j <= i
    BY <1>2, <2>1, LastIndex
  <2>3. Says(seq, u, IF "200" \in seq[i].propstats THEN seq[i].etag ELSE None)
    BY <2>2 DEF Says
  <2>4. Applied(old, seq)[u] = IF "200" \in seq[i].propstats THEN seq[i].etag ELSE None
    BY <2>3, SaysApplied
  <2> QED
    BY <2>2, <2>4
<1> QED
  BY <1>1, <1>2

(* With every change replayed, the copy has nothing that is not stored.    *)
LEMMA WholeLogForgets ==
  ASSUME StoreTypeOK, ClientsTypeOK, LogFollowsRows, NEW k \in Clients, NEW n \in Nat,
         Replayed(k, n), todo[k] = << >>, Settled(mirrored[k]),
         NEW u \in Uids, objects[mirrored[k]][u] = None,
         copy[k][u] # None => Known(mirrored[k], u)
  PROVE  Applied(copy[k], entries[k])[u] = None
<1> DEFINE log     == sync_changes[mirrored[k]]
           indices == {i \in DOMAIN log : log[i].uid = u}
<1>0. /\ mirrored[k] \in Calendars /\ log \in Seq(Change) /\ entries[k] \in Seq(Entry)
      /\ copy[k] \in [Uids -> Nat]
  BY DEF ClientsTypeOK, StoreTypeOK
<1>1. n = Len(log) /\ DOMAIN log = 1 .. n /\ Covers(log, objects[mirrored[k]], entries[k], n)
  BY <1>0 DEF Replayed
<1>2. Writing(mirrored[k], u) = {}
  BY DEF Settled, Writing
<1>3. CASE indices = {}
  <2>1. copy[k][u] = None
    BY <1>2, <1>3 DEF Known
  <2>2. \A j \in DOMAIN entries[k] : entries[k][j].uid # u
    BY <1>1, <1>3 DEF Covers
  <2> QED
    BY <1>0, <2>1, <2>2, UnsaidApplied
<1>4. CASE indices # {}
  <2>1. indices \subseteq 1 .. n
    BY <1>1
  <2>2. PICK i \in indices : \A j \in indices : j <= i
    BY <1>4, <2>1, LastIndex
  <2>3. /\ i \in 1 .. n /\ log[i].uid = u
        /\ \A j \in 1 .. n : log[j].uid = u => j <= i
    BY <1>1, <2>2
  <2>4. log[i].change = "deleted"
    BY <1>0, <1>1, <1>2, <2>3 DEF LogFollowsRows, LoggedPresent
  <2>5. Says(entries[k], u, None)
    BY <1>1, <2>3, <2>4 DEF Covers
  <2> QED
    BY <1>0, <2>5, SaysApplied
<1> QED
  BY <1>3, <1>4

(* Statements of the handlers keep what is known of absent objects.        *)
LEMMA StatementAbsence ==
  ASSUME SyncTypeOK, TokensSeparate, NoOrphans', UNCHANGED clients,
         (\E r \in Requests : Arrive(r) \/ Handle(r)) \/ UNCHANGED <<store, requests>>,
         NEW k \in Clients, AbsenceFits(k)
  PROVE  AbsenceFits(k)'
<1>0. /\ token[k] \in Nat /\ token[k] <= issued /\ read_token[k] \in Nat /\ read_token[k] <= issued
      /\ mirrored[k] \in Calendars /\ entries[k] \in Seq(Entry)
  BY DEF SyncTypeOK, ClientsTypeOK, TokensSeparate, TokensBounded
<1>1. /\ at'[k] = at[k] /\ token'[k] = token[k] /\ read_token'[k] = read_token[k]
      /\ copy'[k] = copy[k] /\ entries'[k] = entries[k] /\ mirrored' = mirrored
  BY DEF clients
<1>2. ASSUME NEW t \in {token[k], read_token[k]}, Live(k, t)'
      PROVE  Live(k, t) /\ objects'[mirrored[k]] = objects[mirrored[k]]
  BY <1>0, <1>2, StillLive
<1>3. /\ Live(k, token[k])' => Live(k, token[k]) /\ objects'[mirrored[k]] = objects[mirrored[k]]
      /\ Live(k, read_token[k])' =>
             Live(k, read_token[k]) /\ objects'[mirrored[k]] = objects[mirrored[k]]
  BY <1>1, <1>2 DEF Live
<1>4. ASSUME NEW u \in Uids, Known(mirrored[k], u) PROVE Known(mirrored[k], u)'
  <2>1. CASE \E r \in Requests : Arrive(r) \/ Handle(r)
    <3>1. PICK c \in Calendars : c = mirrored[k]
      BY <1>0
    <3>2. Known(c, u)'
      BY <1>4, <2>1, <3>1, KnownStays DEF SyncTypeOK
    <3> QED
      BY <1>1, <3>1, <3>2 DEF Known, Writing
  <2>2. CASE UNCHANGED <<store, requests>>
    BY <1>1, <1>4, <2>2 DEF Known, Writing, Exists, Cal, Uid, store, requests
  <2> QED
    BY <2>1, <2>2
<1>5. \A i \in DOMAIN entries[k] : entries[k][i].uid \in Uids
  <2>1. \A i \in DOMAIN entries[k] : entries[k][i] \in Entry
    BY <1>0
  <2> QED
    BY <2>1 DEF Entry
<1>6. /\ \A u \in Uids : copy'[k][u] # None => Known(mirrored[k], u)'
      /\ \A i \in DOMAIN entries'[k] : entries'[k][i].etag # None => Known(mirrored[k], entries[k][i].uid)'
  BY <1>1, <1>4, <1>5 DEF AbsenceFits, AbsenceOf
<1> QED
  BY <1>1, <1>3, <1>6 DEF AbsenceFits, AbsenceOf

(* Every step of a report, and its loss, keeps what is known of absent     *)
(* objects.                                                                *)
LEMMA ReportStepAbsence ==
  ASSUME StoreTypeOK, ClientsTypeOK, NoAnchor, NoOrphans, LogFollowsRows, CalendarsHaveTokens,
         Faults \subseteq {"lose"}, ClientStep, NEW j \in Clients, ReportFits(j), AbsenceFits(j)
  PROVE  AbsenceFits(j)'
<1> PICK k \in Clients : SendReport(k) \/ ReportStep(k) \/ LoseReport(k) \/ FailStatement(k)
  BY DEF ClientStep
<1>1. /\ mirrored' = mirrored /\ objects' = objects /\ sync_changes' = sync_changes
      /\ sync_token' = sync_token /\ pc' = pc /\ task' = task /\ owner' = owner
  BY DEF ClientStep, SendReport, ReportStep, ReportAccess, ReadCalendar, ListObjects, FindAnchor,
     ReadChanges, AddEntry, FinishEntries, Deliver, LoseReport, FailStatement, store, requests
<1>2. Settled(mirrored[j])' <=> Settled(mirrored[j])
  BY <1>1 DEF Settled, Cal
<1>3. ASSUME NEW t PROVE (t # None /\ t = sync_token'[mirrored'[j]] /\ Settled(mirrored[j])') <=> Live(j, t)
  BY <1>1, <1>2 DEF Live
<1>4. \A u : Known(mirrored[j], u)' <=> Known(mirrored[j], u)
  BY <1>1 DEF Known, Exists, Writing, Cal, Uid
<1>5. CASE j # k
  <2>1. /\ at'[j] = at[j] /\ token'[j] = token[j] /\ copy'[j] = copy[j]
        /\ read_token'[j] = read_token[j] /\ entries'[j] = entries[j]
    BY <1>5, OtherReports
  <2>2. /\ Live(j, token[j])' <=> Live(j, token[j])
        /\ Live(j, read_token[j])' <=> Live(j, read_token[j])
    BY <1>3, <2>1 DEF Live
  <2>3. \A i \in DOMAIN entries'[j] :
          entries'[j][i].etag # None => Known(mirrored[j], entries[j][i].uid)'
    BY <1>4, <2>1 DEF AbsenceFits, AbsenceOf
  <2> QED
    BY <1>1, <1>4, <2>1, <2>2, <2>3 DEF AbsenceFits, AbsenceOf
<1>6. CASE j = k
  <2> DEFINE c   == mirrored[k]
             obj == objects[mirrored[k]]
  <2>0. /\ mirrored[k] \in Calendars /\ entries[k] \in Seq(Entry) /\ copy[k] \in [Uids -> Nat]
        /\ ReportFits(k) /\ AbsenceFits(k)
    BY <1>6 DEF ClientsTypeOK
  <2>a. Live(k, read_token[k])' <=> Live(k, read_token'[k])
    BY <1>3, <1>6 DEF Live
  <2>b. Live(k, token[k])' <=> Live(k, token'[k])
    BY <1>3, <1>6 DEF Live
  <2> SUFFICES AbsenceOf(k, at'[k], token'[k], read_token'[k], copy'[k], entries'[k])
    <3>1. /\ \A u : Known(mirrored[k], u)' <=> Known(mirrored[k], u)
          /\ mirrored'[k] = mirrored[k] /\ objects' = objects
      BY <1>1, <1>4, <1>6
    <3>2. AbsenceOf(k, at'[k], token'[k], read_token'[k], copy'[k], entries'[k]) => AbsenceFits(k)'
      BY <2>a, <2>b, <3>1 DEF AbsenceFits, AbsenceOf
    <3> QED
      BY <1>6, <3>2
  <2>1. CASE SendReport(k) \/ ReportAccess(k) \/ FindAnchor(k) \/ LoseReport(k)
    <3>1. /\ token'[k] = token[k] /\ copy'[k] = copy[k]
          /\ at'[k] \notin {"list", "entry", "deliver"}
          /\ at'[k] \in {"anchor", "changes"} => read_token'[k] # None
          /\ entries'[k] \in {entries[k], << >>}
      BY <2>0, <2>1 DEF ClientsTypeOK, Move, SendReport, ReportAccess, FindAnchor, LoseReport,
         AbsenceFits, AbsenceOf
    <3> QED
      BY <2>0, <3>1 DEF AbsenceFits, AbsenceOf
  <2>2. CASE ReadCalendar(k)
    <3>1. /\ token'[k] = token[k] /\ copy'[k] = copy[k] /\ entries' = entries
          /\ at'[k] \in {"list", "anchor", "idle"} /\ (at'[k] = "list" => token[k] = None)
          /\ at'[k] # "idle" => Exists(mirrored[k]) /\ read_token'[k] = sync_token[mirrored[k]]
      BY <2>0, <2>2 DEF ClientsTypeOK, Move, ReadCalendar
    <3>2. at'[k] # "idle" => read_token'[k] # None
      BY <2>0, <3>1 DEF CalendarsHaveTokens
    <3> QED
      BY <2>0, <3>1, <3>2 DEF AbsenceFits, AbsenceOf
  <2>3. CASE ListObjects(k)
    <3>1. PICK seq \in Listings(mirrored[k]) : entries' = [entries EXCEPT ![k] = seq]
      BY <2>3 DEF ListObjects
    <3>2. /\ token'[k] = token[k] /\ copy'[k] = copy[k] /\ at'[k] = "deliver" /\ at[k] = "list"
          /\ read_token'[k] = read_token[k] /\ entries'[k] = seq /\ seq \in Seq(Entry)
      BY <2>0, <2>3, <3>1, ListingsType DEF ListObjects, Move, ClientsTypeOK
    <3>3. \A i \in DOMAIN seq : obj[seq[i].uid] # None
      BY <2>0, ListingSays
    <3>4. ASSUME NEW u \in Uids, obj[u] = None PROVE Applied(copy[k], seq)[u] = None
      <4>1. \A i \in DOMAIN seq : seq[i].uid # u
        BY <3>3, <3>4
      <4>2. copy[k][u] = None
        BY <2>0, <3>2 DEF AbsenceFits, AbsenceOf
      <4> QED
        BY <2>0, <4>1, <4>2, UnsaidApplied
    <3>5. \A i \in DOMAIN seq : Known(mirrored[k], seq[i].uid)
      <4>1. \A i \in DOMAIN seq : seq[i] \in Entry
        BY <3>2
      <4>2. \A i \in DOMAIN seq : seq[i].uid \in Uids
        BY <4>1 DEF Entry
      <4> QED
        BY <2>0, <3>3, <4>2, StoredIsKnown
    <3> QED
      BY <2>0, <3>2, <3>4, <3>5 DEF AbsenceFits, AbsenceOf
  <2>4. CASE ReadChanges(k)
    <3>1. /\ token'[k] = token[k] /\ copy'[k] = copy[k] /\ at'[k] = "entry" /\ at[k] = "changes"
          /\ entries' = entries /\ read_token' = read_token
      BY <2>4 DEF ReadChanges, Move, ClientsTypeOK
    <3> QED
      BY <2>0, <3>1 DEF AbsenceFits, AbsenceOf
  <2>5. CASE AddEntry(k)
    <3> DEFINE ch == Head(todo[k])
    <3>1. /\ token'[k] = token[k] /\ copy'[k] = copy[k] /\ at'[k] = "entry" /\ at[k] = "entry"
          /\ read_token'[k] = read_token[k]
      BY <2>5 DEF AddEntry
    <3>2. ch \in Change
      BY <2>5 DEF AddEntry, ClientsTypeOK
    <3>3. ch.uid \in Uids
      BY <3>2 DEF Change
    <3>4. \/ entries'[k] = entries[k]
          \/ entries'[k] = Append(entries[k], DeletedEntry(ch.uid))
          \/ obj[ch.uid] # None /\ entries'[k] = Append(entries[k], ObjectEntry(c, ch.uid))
      BY <2>5 DEF AddEntry, ClientsTypeOK, ObjectByUid
    <3>5. \/ entries'[k] = entries[k]
          \/ \E x : /\ entries'[k] = Append(entries[k], x)
                    /\ x.etag # None => Known(mirrored[k], x.uid)
      <4>1. DeletedEntry(ch.uid).etag = None
        BY DEF DeletedEntry, AddResponse
      <4>2. ObjectEntry(c, ch.uid).uid = ch.uid
        BY DEF ObjectEntry, AddResponse
      <4>3. obj[ch.uid] # None => Known(mirrored[k], ch.uid)
        BY <2>0, <3>3, StoredIsKnown
      <4> QED
        BY <3>4, <4>1, <4>2, <4>3
    <3>6. \A i \in DOMAIN entries'[k] :
            entries'[k][i].etag # None => Known(mirrored[k], entries'[k][i].uid)
      <4>1. CASE entries'[k] = entries[k]
        BY <2>0, <4>1 DEF AbsenceFits, AbsenceOf
      <4>2. ASSUME NEW x, entries'[k] = Append(entries[k], x), x.etag # None => Known(mirrored[k], x.uid),
                   NEW i \in DOMAIN entries'[k], entries'[k][i].etag # None
            PROVE  Known(mirrored[k], entries'[k][i].uid)
        <5>1. /\ Len(entries[k]) \in Nat /\ DOMAIN entries[k] = 1 .. Len(entries[k])
              /\ i \in 1 .. Len(entries[k]) + 1
          BY <2>0, <4>2
        <5>2. CASE i = Len(entries[k]) + 1
          <6>1. entries'[k][i] = x
            BY <2>0, <4>2, <5>2
          <6> QED
            BY <4>2, <6>1
        <5>3. CASE i # Len(entries[k]) + 1
          <6>1. i \in DOMAIN entries[k] /\ entries'[k][i] = entries[k][i]
            BY <2>0, <4>2, <5>1, <5>3
          <6> QED
            BY <2>0, <4>2, <6>1 DEF AbsenceFits, AbsenceOf
        <5> QED
          BY <5>2, <5>3
      <4> QED
        BY <3>5, <4>1, <4>2
    <3> QED
      BY <2>0, <3>1, <3>6 DEF AbsenceFits, AbsenceOf
  <2>6. CASE FinishEntries(k)
    <3>1. /\ token'[k] = token[k] /\ copy'[k] = copy[k] /\ at'[k] = "deliver" /\ at[k] = "entry"
          /\ read_token'[k] = read_token[k] /\ entries' = entries /\ todo[k] = << >>
      BY <2>6 DEF FinishEntries, Move, ClientsTypeOK
    <3>2. ASSUME Live(k, read_token[k]), NEW u \in Uids, obj[u] = None
          PROVE  Applied(copy[k], entries[k])[u] = None
      <4>1. PICK n \in Nat : Replayed(k, n)
        BY <2>0, <3>1, <3>2 DEF ReportFits
      <4>2. copy[k][u] # None => Known(mirrored[k], u)
        BY <2>0 DEF AbsenceFits, AbsenceOf
      <4> QED
        BY <3>1, <3>2, <4>1, <4>2, WholeLogForgets DEF Live
    <3> QED
      BY <2>0, <3>1, <3>2 DEF AbsenceFits, AbsenceOf
  <2>7. CASE Deliver(k)
    <3>1. at'[k] = "idle" /\ entries'[k] = << >> /\ at[k] = "deliver"
      BY <2>7 DEF Deliver, Move, ClientsTypeOK
    <3>2. CASE token'[k] = token[k] /\ copy'[k] = copy[k]
      BY <2>0, <3>1, <3>2 DEF AbsenceFits, AbsenceOf
    <3>3. CASE token'[k] = read_token[k] /\ copy'[k] = Applied(copy[k], entries[k])
      <4>1. read_token[k] # None
        BY <2>0, <3>1 DEF AbsenceFits, AbsenceOf
      <4>2. \A u \in Uids : copy'[k][u] # None => Known(mirrored[k], u)
        BY <2>0, <3>3, AppliedFrom DEF AbsenceFits, AbsenceOf
      <4>3. Live(k, token'[k]) => \A u \in Uids : obj[u] = None => copy'[k][u] = None
        BY <2>0, <3>1, <3>3 DEF AbsenceFits, AbsenceOf
      <4> QED
        BY <3>1, <3>3, <4>1, <4>2, <4>3 DEF AbsenceOf
    <3> QED
      BY <2>7, <3>2, <3>3 DEF Deliver, ClientsTypeOK
  <2>8. ~ FailStatement(k)
    BY DEF FailStatement
  <2> QED
    BY <2>1, <2>2, <2>3, <2>4, <2>5, <2>6, <2>7, <2>8 DEF ReportStep
<1> QED
  BY <1>5, <1>6

(* A calendar keeps having a token.                                        *)
LEMMA StepHasTokens ==
  ASSUME TypeOK, CalendarsHaveTokens, NEW r \in Requests, Arrive(r) \/ Handle(r)
  PROVE  CalendarsHaveTokens'
<1>1. owner' = owner /\ (pc[r] # "bump" => sync_token' = sync_token)
  BY StepFrame
<1>2. CASE pc[r] # "bump"
  BY <1>1, <1>2 DEF CalendarsHaveTokens, Exists
<1>3. CASE pc[r] = "bump"
  <2>1. BumpCtag(Cal(r))
    BY <1>3 DEF Arrive, Handle, VerifyAccess, CheckIfMatch, LookupEvent, SelectExisting,
       InsertRow, UpdateRow, DeleteRow, LogChange, Bump, ReadBack
  <2>2. \A c \in Calendars : sync_token'[c] \in {sync_token[c], issued + 1}
    BY <2>1 DEF BumpCtag, TypeOK, StoreTypeOK
  <2>3. issued + 1 # None
    BY DEF TypeOK, StoreTypeOK, None
  <2> QED
    BY <1>1, <2>2, <2>3 DEF CalendarsHaveTokens, Exists
<1> QED
  BY <1>2, <1>3

(* The invariant of requests and reports, as long as no calendar comes or  *)
(* goes, is inductive.                                                     *)
LEMMA SyncInvariantStep ==
  ASSUME Exclusive, Faults \subseteq {"lose"}, SyncInvariant, [SyncNext]_allVars
  PROVE  SyncInvariant'
<1> USE DEF SyncInvariant
<1>t. StoreTypeOK /\ TypeOK /\ SyncTypeOK /\ NoAnchor /\ RowsLogged
  BY DEF RefinementInvariant, TypeOK, SyncTypeOK, TokensSeparate, LogFollowsRows, RowsLogged
<1>1. ASSUME RequestStep, UNCHANGED clients PROVE SyncInvariant'
  <2>1. PICK r \in Requests : Arrive(r) \/ Handle(r)
    BY <1>1 DEF RequestStep, Drop, Fail
  <2>2. RefinementInvariant' /\ ClientsTypeOK'
    BY <1>1, StepRefinementInvariant DEF clients, ClientsTypeOK
  <2>3. LogFollowsRows' /\ CalendarsHaveTokens'
    BY <1>t, <2>1, <2>2, StepLogFollows, StepHasTokens
  <2>4. StoreNext \/ UNCHANGED store
    BY <1>t, <1>1, RequestStepStatement
  <2>5. TokensSeparate' /\ NoOrphans'
    <3>1. CASE StoreNext
      BY <1>t, <1>1, <3>1, StatementTokens, StoreNextNoOrphans
    <3>2. CASE UNCHANGED store
      BY <1>1, <3>2 DEF store, clients, TokensSeparate, TokensBounded, TokensApart, NoAnchor,
         NoOrphans, Exists
    <3> QED
      BY <2>4, <3>1, <3>2
  <2>6. \A k \in Clients : ReportFits(k)' /\ AbsenceFits(k)'
    BY <1>t, <1>1, <2>1, <2>5, StatementReports, StatementAbsence
  <2> QED
    BY <2>2, <2>3, <2>5, <2>6
<1>2. ASSUME UNCHANGED <<store, requests>> 
      PROVE  RefinementInvariant' /\ LogFollowsRows' /\ CalendarsHaveTokens' /\ NoOrphans'
  <2>1. RefinementInvariant'
    BY <1>2 DEF store, requests, RefinementInvariant, TypeOK, StoreTypeOK, RequestsTypeOK,
       EtagsFresh, EtagsBounded, EtagsApart, Pending, RowsHaveCalendars, Exists, OneWriter, Active,
       SameObject, Knowledge, StoredRow, Decided, Deletes, Mcp, Cal, Uid
  <2>2. LogFollowsRows'
    BY <1>2 DEF store, requests, LogFollowsRows, LoggedPresent, Writing, Cal, Uid
  <2>3. CalendarsHaveTokens' /\ NoOrphans'
    BY <1>2 DEF store, CalendarsHaveTokens, NoOrphans, Exists
  <2> QED
    BY <2>1, <2>2, <2>3
<1>3. ASSUME ClientStep PROVE SyncInvariant'
  <2>1. UNCHANGED <<store, requests>>
    BY <1>3 DEF ClientStep
  <2>2. ClientsTypeOK' /\ TokensSeparate'
    BY <1>t, <1>3, ClientStepType, ReportTokens
  <2>3. \A k \in Clients : ReportFits(k)' /\ AbsenceFits(k)'
    BY <1>t, <1>3, ReportStepFits, ReportStepAbsence
  <2> QED
    BY <1>2, <2>1, <2>2, <2>3
<1>4. ASSUME UNCHANGED allVars PROVE SyncInvariant'
  <2>1. UNCHANGED <<store, requests>> /\ UNCHANGED clients
    BY <1>4 DEF allVars
  <2>2. ClientsTypeOK' /\ TokensSeparate'
    BY <2>1 DEF store, clients, ClientsTypeOK, TokensSeparate, TokensBounded, TokensApart, NoAnchor
  <2>3. \A k \in Clients : ReportFits(k)' /\ AbsenceFits(k)'
    BY <1>t, <1>2, <2>1, StatementReports, StatementAbsence
  <2> QED
    BY <1>2, <2>1, <2>2, <2>3
<1> QED
  BY <1>1, <1>3, <1>4 DEF SyncNext

(* When clients take turns on an object, a client whose token is the       *)
(* calendar's current one holds exactly the stored objects, deletions      *)
(* included, however its reports interleaved with the writers' statements  *)
(* and whichever of them were lost.                                        *)
THEOREM CurrentTokenIsCurrentCopy ==
  ASSUME Exclusive, Faults \subseteq {"lose"}
  PROVE  SyncSpec => []CurrentTokenMeansCurrentCopy
<1>1. SyncInit => SyncInvariant
  <2> SUFFICES ASSUME SyncInit PROVE SyncInvariant
    OBVIOUS
  <2>1. ClientsTypeOK
    BY DEF SyncInit, ClientsInit, ClientsTypeOK, None
  <2>2. RefinementInvariant
    BY InitRefinementInvariant DEF SyncInit
  <2>3. Cardinality(Calendars) \in Nat
    BY StoreAssumptions, FS_CardinalityType
  <2>4. TokensSeparate
    BY <2>3 DEF SyncInit, ClientsInit, Init, StoreInit, TokensSeparate, TokensBounded,
       TokensApart, NoAnchor, None
  <2>5. NoOrphans /\ LogFollowsRows
    BY DEF SyncInit, Init, StoreInit, NoOrphans, Exists, LogFollowsRows, LoggedPresent
  <2>6. CalendarsHaveTokens
    BY <2>3 DEF SyncInit, Init, StoreInit, CalendarsHaveTokens, Exists, None
  <2>7. \A k \in Clients : ReportFits(k)
    BY DEF SyncInit, ClientsInit, ReportFits, Live
  <2>8. \A k \in Clients : AbsenceFits(k)
    BY DEF SyncInit, ClientsInit, AbsenceFits, AbsenceOf, Live
  <2> QED
    BY <2>1, <2>2, <2>4, <2>5, <2>6, <2>7, <2>8 DEF SyncInvariant
<1>2. SyncInvariant /\ [SyncNext]_allVars => SyncInvariant'
  BY SyncInvariantStep
<1>3. SyncInvariant => CurrentTokenMeansCurrentCopy
  <2> SUFFICES ASSUME SyncInvariant, NEW k \in Clients, Live(k, token[k])
               PROVE  copy[k] = objects[mirrored[k]]
    BY DEF CurrentTokenMeansCurrentCopy, Live
  <2>1. copy[k] \in [Uids -> Nat] /\ objects[mirrored[k]] \in [Uids -> Nat]
    BY DEF SyncInvariant, ClientsTypeOK, RefinementInvariant, TypeOK, StoreTypeOK
  <2>2. \A u \in Uids : copy[k][u] = objects[mirrored[k]][u]
    BY DEF SyncInvariant, ReportFits, AbsenceFits, AbsenceOf
  <2> QED
    BY <2>1, <2>2
<1> QED
  BY <1>1, <1>2, <1>3, PTL DEF SyncSpec

=============================================================================
