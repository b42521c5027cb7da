------------------------ MODULE ObjectRequestsProofs ------------------------
(***************************************************************************)
(* Proofs about the database statements and the object requests, and that  *)
(* the requests implement AtomicObjects for clients that take turns on an  *)
(* object, for any number of calendars, objects, users and requests.       *)
(***************************************************************************)
EXTENDS ObjectsRefinement, FiniteSetTheorems, WellFoundedInduction, TLAPS

(* Among some positions of a sequence there is a last one.                 *)
LEMMA LastIndex ==
  ASSUME NEW n \in Nat, NEW I, I \subseteq 1 .. n, I # {}
  PROVE  \E i \in I : \A j \in I : j <= i
<1> DEFINE rest == {n - i : i \in I}
<1>0. \A i \in I : i \in 1 .. n /\ n - i \in Nat
  OBVIOUS
<1>1. rest \subseteq Nat /\ rest # {}
  BY <1>0
<1>2. \E x \in rest : \A y \in rest : ~ (<<y, x>> \in OpToRel(<, Nat))
  BY <1>1, NatLessThanWellFounded, WFMin
<1>3. PICK x \in rest : \A y \in rest : ~ (<<y, x>> \in OpToRel(<, Nat))
  BY <1>2
<1>4. \A y \in rest : ~ (y < x)
  BY <1>1, <1>3 DEF OpToRel
<1>5. PICK i \in I : x = n - i
  OBVIOUS
<1>6. ASSUME NEW j \in I PROVE j <= i
  <2>1. ~ (n - j < n - i)
    BY <1>4, <1>5
  <2>2. i \in Nat /\ j \in Nat
    BY <1>0
  <2> HIDE DEF rest
  <2> QED
    BY <2>1, <2>2
<1> QED
  BY <1>5, <1>6

(* The initial database is well typed: calendars have numbers from 1 to    *)
(* their count for tokens.                                                 *)
LEMMA StoreInitType == StoreInit => StoreTypeOK
<1> SUFFICES ASSUME StoreInit PROVE StoreTypeOK
  OBVIOUS
<1>1. Cardinality(Calendars) \in Nat
  BY StoreAssumptions, FS_CardinalityType
<1>2. sync_token \in [Calendars -> Nat]
  BY <1>1 DEF StoreInit, None
<1>3. objects \in [Calendars -> [Uids -> Nat]]
  BY DEF StoreInit, None
<1>4. sync_changes \in [Calendars -> Seq(Change)]
  BY DEF StoreInit
<1> QED
  BY <1>1, <1>2, <1>3, <1>4 DEF StoreInit, StoreTypeOK

(* A row of the change log is a Change.                                    *)
LEMMA NewChangeType ==
  ASSUME NEW u \in Uids, NEW t \in ChangeType, NEW n \in Nat \ {0}
  PROVE  [uid |-> u, change |-> t, token |-> n] \in Change
BY DEF Change

(* Every writing statement keeps the tables well typed.                    *)
LEMMA InsertObjectType ==
  ASSUME StoreTypeOK, NEW c \in Calendars, NEW u \in Uids, NEW e \in Nat,
         InsertObject(c, u, e)
  PROVE  StoreTypeOK'
BY DEF StoreTypeOK, InsertObject

(* As above, for the UPDATE.                                               *)
LEMMA UpdateObjectType ==
  ASSUME StoreTypeOK, NEW c \in Calendars, NEW u \in Uids, NEW e \in Nat,
         UpdateObject(c, u, e)
  PROVE  StoreTypeOK'
BY DEF StoreTypeOK, UpdateObject, None

(* As above, for the DELETE.                                               *)
LEMMA DeleteObjectType ==
  ASSUME StoreTypeOK, NEW c \in Calendars, NEW u \in Uids, DeleteObject(c, u)
  PROVE  StoreTypeOK'
BY DEF StoreTypeOK, DeleteObject, None

(* As above, for the INSERT into sync_changes: the log stays a sequence of *)
(* changes.                                                                *)
LEMMA LogSyncChangeType ==
  ASSUME StoreTypeOK, NEW c \in Calendars, NEW u \in Uids, NEW t \in ChangeType,
         LogSyncChange(c, u, t)
  PROVE  StoreTypeOK'
<1> DEFINE entry == [uid |-> u, change |-> t, token |-> issued + 1]
<1>1. entry \in Change
  BY NewChangeType DEF StoreTypeOK
<1>2. Append(sync_changes[c], entry) \in Seq(Change)
  BY <1>1 DEF StoreTypeOK
<1>3. sync_changes' \in [Calendars -> Seq(Change)]
  BY <1>2 DEF StoreTypeOK, LogSyncChange
<1> QED
  BY <1>3 DEF StoreTypeOK, LogSyncChange

(* As above, for bump_ctag.                                                *)
LEMMA BumpCtagType ==
  ASSUME StoreTypeOK, NEW c \in Calendars, BumpCtag(c)
  PROVE  StoreTypeOK'
BY DEF StoreTypeOK, BumpCtag

----------------------------------------------------------------------------
(* The responses have the form of a status and an etag.                    *)
LEMMA RespondType ==
  ASSUME RequestsTypeOK, NEW r \in Requests, NEW s \in Statuses, NEW e \in Nat,
         Respond(r, s, e)
  PROVE  /\ pc' \in [Requests -> Statements \cup {"idle", "done"}]
         /\ answer' \in [Requests -> [status : Statuses, etag : Nat]]
BY DEF RequestsTypeOK, Respond, Goto, Statuses

(* One step of a request keeps the tables and its own variables well       *)
(* typed, whatever the other requests do.                                  *)
LEMMA RequestStepType ==
  ASSUME TypeOK, RequestStep
  PROVE  TypeOK'
<1> PICK r \in Requests : Arrive(r) \/ Handle(r) \/ Drop(r) \/ Fail(r)
  BY DEF RequestStep
<1> USE DEF TypeOK
<1>0. /\ Cal(r) \in Calendars /\ Uid(r) \in Uids
      /\ ObjectByUid(Cal(r), Uid(r)) \in Nat
      /\ etag[r] \in Nat
      /\ ChangeOf(r) \in ChangeType
  BY DEF RequestsTypeOK, StoreTypeOK, Task, Cal, Uid, ObjectByUid, ChangeOf, ChangeType
<1>00. None \in Nat /\ {"201", "204", "400", "403", "404", "412", "500"} \subseteq Statuses
  BY DEF None, Statuses
<1>1. CASE Arrive(r)
  <2>1. PICK m \in Nat : if_match' = [if_match EXCEPT ![r] = m]
    BY <1>0, <1>00, <1>1, ZenonT(40) DEF Arrive, KnownEtags, RequestsTypeOK, Others
  <2>2. pc' \in [Requests -> Statements \cup {"idle", "done"}]
    BY <1>1 DEF Arrive, Goto, RequestsTypeOK, Statements, Task, Kinds
  <2> QED
    BY <1>1, <2>1, <2>2 DEF Arrive, RequestsTypeOK, StoreTypeOK, store
<1>2. CASE VerifyAccess(r)
  BY <1>2, <1>00, RespondType DEF VerifyAccess, RequestsTypeOK, StoreTypeOK, store, Goto, Statements
<1>3. CASE CheckIfMatch(r)
  BY <1>3, <1>00, RespondType DEF CheckIfMatch, RequestsTypeOK, StoreTypeOK, store, Goto, Statements
<1>4. CASE LookupEvent(r)
  BY <1>4, <1>00, RespondType DEF LookupEvent, RequestsTypeOK, StoreTypeOK, store, Goto, Statements
<1>5. CASE SelectExisting(r)
  BY <1>5, <1>0 DEF SelectExisting, RequestsTypeOK, StoreTypeOK, Goto, Statements
<1>6. CASE InsertRow(r)
  <2>1. StoreTypeOK'
    BY <1>6, <1>0, InsertObjectType DEF InsertRow, StoreTypeOK, store
  <2> QED
    BY <2>1, <1>6, <1>00, RespondType DEF InsertRow, RequestsTypeOK, Goto, Statements
<1>7. CASE UpdateRow(r)
  <2>1. StoreTypeOK'
    BY <1>7, <1>0, UpdateObjectType DEF UpdateRow
  <2> QED
    BY <2>1, <1>7 DEF UpdateRow, RequestsTypeOK, Goto, Statements
<1>8. CASE DeleteRow(r)
  <2>1. StoreTypeOK'
    BY <1>8, <1>0, DeleteObjectType DEF DeleteRow, StoreTypeOK, store
  <2> QED
    BY <2>1, <1>8, <1>00, RespondType DEF DeleteRow, RequestsTypeOK, Goto, Statements
<1>9. CASE LogChange(r)
  <2>1. StoreTypeOK'
    BY <1>9, <1>0, LogSyncChangeType DEF LogChange, StoreTypeOK, store
  <2> QED
    BY <2>1, <1>9, <1>00, RespondType DEF LogChange, RequestsTypeOK, Goto, Statements
<1>10. CASE Bump(r)
  <2>1. StoreTypeOK'
    BY <1>10, <1>0, BumpCtagType DEF Bump
  <2> QED
    BY <2>1, <1>10, <1>00, RespondType DEF Bump, RequestsTypeOK, Goto, Statements
<1>11. CASE ReadBack(r)
  BY <1>11, <1>0, <1>00, RespondType DEF ReadBack, RequestsTypeOK, StoreTypeOK, store
<1>12. CASE Drop(r)
  BY <1>12 DEF Drop, RequestsTypeOK, StoreTypeOK, store, Goto
<1>13. CASE Fail(r)
  BY <1>13, <1>00, RespondType DEF Fail, RequestsTypeOK, StoreTypeOK, store
<1> QED
  BY <1>1, <1>2, <1>3, <1>4, <1>5, <1>6, <1>7, <1>8, <1>9, <1>10, <1>11, <1>12, <1>13
  DEF Handle

(* A step of request r changes the locals of no other request, no task, no *)
(* calendar row and no share, and of the objects only its own, and that in *)
(* the statements that write it.                                           *)
LEMMA StepFrame ==
  ASSUME TypeOK, NEW r \in Requests, Arrive(r) \/ Handle(r) \/ Drop(r) \/ Fail(r)
  PROVE  /\ task' = task /\ owner' = owner /\ shares' = shares
         /\ \A q \in Requests \ {r} :
                /\ pc'[q] = pc[q] /\ if_match'[q] = if_match[q] /\ is_new'[q] = is_new[q]
                /\ etag'[q] = etag[q] /\ answer'[q] = answer[q]
         /\ \A c \in Calendars, u \in Uids :
                c # Cal(r) \/ u # Uid(r) => objects'[c][u] = objects[c][u]
         /\ pc[r] \notin {"insert", "update", "delete"} => objects' = objects
         /\ pc[r] # "log" => sync_changes' = sync_changes
         /\ pc[r] # "bump" => sync_token' = sync_token
<1> USE DEF TypeOK, RequestsTypeOK
<1>0. Cal(r) \in Calendars /\ Uid(r) \in Uids
  BY DEF Task, Cal, Uid
<1>1. CASE Arrive(r)
  BY <1>1 DEF Arrive, Goto, store
<1>2. CASE VerifyAccess(r) \/ CheckIfMatch(r) \/ LookupEvent(r) \/ ReadBack(r) \/ Drop(r) \/ Fail(r)
  BY <1>2 DEF VerifyAccess, CheckIfMatch, LookupEvent, ReadBack, Drop, Fail, Respond, Goto, store
<1>3. CASE SelectExisting(r)
  BY <1>3 DEF SelectExisting, Goto
<1>4. CASE InsertRow(r)
  BY <1>0, <1>4 DEF InsertRow, InsertObject, Respond, Goto, store, StoreTypeOK
<1>5. CASE UpdateRow(r)
  BY <1>0, <1>5 DEF UpdateRow, UpdateObject, Goto, StoreTypeOK
<1>6. CASE DeleteRow(r)
  BY <1>0, <1>6 DEF DeleteRow, DeleteObject, Respond, Goto, store, StoreTypeOK
<1>7. CASE LogChange(r)
  BY <1>7 DEF LogChange, LogSyncChange, Respond, Goto, store
<1>8. CASE Bump(r)
  BY <1>8 DEF Bump, BumpCtag, Respond, Goto
<1> QED
  BY <1>1, <1>2, <1>3, <1>4, <1>5, <1>6, <1>7, <1>8 DEF Handle

(* The initial requests are well typed.                                    *)
LEMMA RequestsInitType == RequestsInit => RequestsTypeOK
BY RequestAssumptions DEF RequestsInit, RequestsTypeOK, Statuses, None

(* Tables and requests keep their types in every behaviour of the object   *)
(* requests, for every number of requests.                                 *)
THEOREM TypeCorrect == Spec => []TypeOK
<1>1. Init => TypeOK
  BY StoreInitType, RequestsInitType DEF Init, TypeOK
<1>2. TypeOK /\ [Next]_vars => TypeOK'
  <2>1. CASE Next
    BY <2>1, RequestStepType DEF Next
  <2>2. CASE UNCHANGED vars
    BY <2>2 DEF vars, store, requests, TypeOK, StoreTypeOK, RequestsTypeOK
  <2> QED
    BY <2>1, <2>2
<1> QED
  BY <1>1, <1>2, PTL DEF Spec

----------------------------------------------------------------------------
(* Etags *)

(* What a request has drawn and not yet stored is at most `issued`, and is *)
(* no stored, answered or otherwise pending etag.                          *)
Pending(r) == pc[r] \in {"insert", "update"}

EtagsBounded ==
    /\ \A c \in Calendars, u \in Uids : objects[c][u] <= issued
    /\ \A r \in Requests : etag[r] <= issued /\ answer[r].etag <= issued

EtagsApart ==
    \A r \in Requests : Pending(r) =>
        /\ etag[r] # None
        /\ \A c \in Calendars, u \in Uids : objects[c][u] # etag[r]
        /\ \A q \in Requests : answer[q].etag # etag[r]
        /\ \A q \in Requests \ {r} : Pending(q) => etag[q] # etag[r]

EtagsFresh == EtagsBounded /\ EtagsApart

(* How one step of a request r may change what EtagsFresh speaks of: it    *)
(* draws a new etag; or stores its pending one; or removes a row; or       *)
(* answers a stored etag or none; and only by drawing it becomes pending.  *)
LEMMA EtagStep ==
  ASSUME TypeOK, NEW r \in Requests, Arrive(r) \/ Handle(r) \/ Drop(r) \/ Fail(r)
  PROVE  /\ \A q \in Requests \ {r} :
                 pc'[q] = pc[q] /\ etag'[q] = etag[q] /\ answer'[q] = answer[q]
         /\ \/ /\ SelectExisting(r)
               /\ issued' = issued + 1 /\ etag'[r] = issued + 1
               /\ objects' = objects /\ answer' = answer
            \/ /\ ~ Pending(r)'
               /\ issued' \in {issued, issued + 1} /\ etag' = etag
               /\ \A c \in Calendars, u \in Uids :
                      objects'[c][u] \in {objects[c][u], None} \cup
                                         (IF Pending(r) THEN {etag[r]} ELSE {})
               /\ \/ answer'[r] = answer[r]
                  \/ answer'[r].etag = None
                  \/ answer'[r].etag = objects[Cal(r)][Uid(r)]
<1> USE DEF TypeOK, RequestsTypeOK
<1>0. Cal(r) \in Calendars /\ Uid(r) \in Uids
  BY DEF Task, Cal, Uid
<1>1. ASSUME NEW s, NEW e, Respond(r, s, e)
      PROVE  /\ pc'[r] = "done" /\ answer'[r].etag = e
             /\ \A q \in Requests \ {r} : pc'[q] = pc[q] /\ answer'[q] = answer[q]
  BY <1>1 DEF Respond, Goto
<1>2. ASSUME NEW l, Goto(r, l)
      PROVE  pc'[r] = l /\ \A q \in Requests \ {r} : pc'[q] = pc[q]
  BY <1>2 DEF Goto
<1>3. CASE Arrive(r)
  <2>1. pc' = [pc EXCEPT ![r] = pc'[r]] /\ pc'[r] \in {"access", "select", "lookup", "delete"}
    BY <1>3 DEF Arrive, Goto, Task, Kinds
  <2>2. objects' = objects /\ issued' = issued /\ etag' = etag /\ answer' = answer
    BY <1>3 DEF Arrive, store
  <2> QED
    BY <2>1, <2>2 DEF Pending
<1>4. CASE VerifyAccess(r) \/ CheckIfMatch(r) \/ LookupEvent(r) \/ ReadBack(r)
             \/ Drop(r) \/ Fail(r)
  BY <1>1, <1>2, <1>4 DEF VerifyAccess, CheckIfMatch, LookupEvent, ReadBack, Drop, Fail,
     store, Pending, ObjectByUid
<1>5. CASE SelectExisting(r)
  BY <1>2, <1>5 DEF SelectExisting
<1>6. CASE InsertRow(r)
  <2>1. CASE InsertObject(Cal(r), Uid(r), etag[r]) /\ Goto(r, "log") /\ UNCHANGED answer
    <3>1. \A c \in Calendars, u \in Uids : objects'[c][u] \in {objects[c][u], etag[r]}
      BY <1>0, <2>1 DEF InsertObject, StoreTypeOK
    <3> QED
      BY <1>2, <1>6, <2>1, <3>1 DEF InsertRow, InsertObject, Pending
  <2>2. CASE Respond(r, "500", None) /\ UNCHANGED store
    BY <1>1, <1>6, <2>2 DEF InsertRow, store, Pending
  <2> QED
    BY <1>6, <2>1, <2>2 DEF InsertRow
<1>7. CASE UpdateRow(r)
  BY <1>0, <1>2, <1>7 DEF UpdateRow, UpdateObject, Pending, StoreTypeOK
<1>8. CASE DeleteRow(r)
  <2>1. CASE DeleteObject(Cal(r), Uid(r)) /\ Goto(r, "log") /\ UNCHANGED answer
    <3>1. \A c \in Calendars, u \in Uids : objects'[c][u] \in {objects[c][u], None}
      BY <1>0, <2>1 DEF DeleteObject, StoreTypeOK
    <3> QED
      BY <1>2, <1>8, <2>1, <3>1 DEF DeleteRow, DeleteObject, Pending
  <2>2. CASE Respond(r, "404", None) /\ UNCHANGED store
    BY <1>1, <1>8, <2>2 DEF DeleteRow, store, Pending
  <2> QED
    BY <1>8, <2>1, <2>2 DEF DeleteRow
<1>9. CASE LogChange(r)
  BY <1>1, <1>2, <1>9 DEF LogChange, LogSyncChange, store, Pending
<1>10. CASE Bump(r)
  BY <1>1, <1>2, <1>10 DEF Bump, BumpCtag, Pending
<1> QED
  BY <1>3, <1>4, <1>5, <1>6, <1>7, <1>8, <1>9, <1>10 DEF Handle

(* A step of a request keeps pending etags fresh.                          *)
LEMMA RequestStepEtags ==
  ASSUME TypeOK, EtagsFresh, RequestStep
  PROVE  EtagsFresh'
<1> PICK r \in Requests : Arrive(r) \/ Handle(r) \/ Drop(r) \/ Fail(r)
  BY DEF RequestStep
<1>0. /\ issued \in Nat /\ None \in Nat /\ None <= issued
      /\ Cal(r) \in Calendars /\ Uid(r) \in Uids
      /\ \A c \in Calendars, u \in Uids : objects[c][u] \in Nat
      /\ \A q \in Requests : etag[q] \in Nat /\ answer[q].etag \in Nat
  BY DEF TypeOK, StoreTypeOK, RequestsTypeOK, Task, Cal, Uid, None
<1>1. CASE /\ issued' = issued + 1 /\ etag'[r] = issued + 1
           /\ objects' = objects /\ answer' = answer
  <2>1. EtagsBounded'
    BY <1>0, <1>1, EtagStep DEF EtagsFresh, EtagsBounded
  <2>2. EtagsApart'
    BY <1>0, <1>1, EtagStep DEF EtagsFresh, EtagsBounded, EtagsApart, Pending, None
  <2> QED
    BY <2>1, <2>2 DEF EtagsFresh
<1>2. CASE /\ ~ Pending(r)'
           /\ issued' \in {issued, issued + 1} /\ etag' = etag
           /\ \A c \in Calendars, u \in Uids :
                  objects'[c][u] \in {objects[c][u], None} \cup
                                     (IF Pending(r) THEN {etag[r]} ELSE {})
           /\ \/ answer'[r] = answer[r]
              \/ answer'[r].etag = None
              \/ answer'[r].etag = objects[Cal(r)][Uid(r)]
  <2>1. EtagsBounded'
    BY <1>0, <1>2, EtagStep DEF EtagsFresh, EtagsBounded
  <2>2. ASSUME NEW q \in Requests, Pending(q)'
        PROVE  q # r /\ Pending(q) /\ etag'[q] = etag[q]
    BY <1>2, <2>2, EtagStep DEF Pending
  <2>3. ASSUME NEW q \in Requests, Pending(q)', NEW c \in Calendars, NEW u \in Uids
        PROVE  objects'[c][u] # etag'[q]
    BY <1>2, <2>2, <2>3 DEF EtagsFresh, EtagsApart
  <2>4. ASSUME NEW q \in Requests, Pending(q)', NEW p \in Requests
        PROVE  answer'[p].etag # etag'[q]
    BY <1>0, <1>2, <2>2, <2>4, EtagStep DEF EtagsFresh, EtagsApart
  <2>5. EtagsApart'
    BY <2>2, <2>3, <2>4 DEF EtagsFresh, EtagsApart
  <2> QED
    BY <2>1, <2>5 DEF EtagsFresh
<1> QED
  BY <1>1, <1>2, EtagStep

----------------------------------------------------------------------------
(* The change log *)

(* The statements a deleting request never reaches.                        *)
WritersOnly ==
    \A r \in Requests :
        pc[r] \in {"precondition", "lookup", "select", "insert", "update"} => ~ Deletes(r)

RowsHaveCalendars ==
    \A c \in Calendars, u \in Uids : objects[c][u] # None => Exists(c)

Logged(c, u) ==
    \E i \in DOMAIN sync_changes[c] :
        sync_changes[c][i].uid = u /\ sync_changes[c][i].change # "deleted"

(* A stored object is logged as created or modified, or a request that     *)
(* wrote it (and does not delete) is about to log it.                      *)
LoggedOrWritten ==
    \A c \in Calendars, u \in Uids :
        objects[c][u] # None =>
            Logged(c, u) \/ \E r \in Writing(c, u) : ~ Deletes(r)

LogInvariant == WritersOnly /\ RowsHaveCalendars /\ LoggedOrWritten

(* A deleting request goes its own way.                                    *)
LEMMA StepWritersOnly ==
  ASSUME TypeOK, WritersOnly, NEW r \in Requests, Arrive(r) \/ Handle(r)
  PROVE  WritersOnly'
<1> USE DEF TypeOK, RequestsTypeOK
<1>1. \A q \in Requests : Deletes(q)' <=> Deletes(q)
  BY StepFrame DEF Deletes
<1>2. \A q \in Requests \ {r} : pc'[q] = pc[q]
  BY StepFrame
<1>3. CASE Arrive(r)
  <2>1. Deletes(r) => pc'[r] \in {"access", "delete"}
    BY <1>3 DEF Arrive, Goto, Deletes
  <2> QED
    BY <1>1, <1>2, <2>1 DEF WritersOnly
<1>4. CASE Handle(r)
  <2>1. pc'[r] \in {"precondition", "lookup", "select", "insert", "update"} => ~ Deletes(r)
    BY <1>4 DEF WritersOnly, Handle, VerifyAccess, CheckIfMatch, LookupEvent,
       SelectExisting, InsertRow, UpdateRow, DeleteRow, LogChange, Bump, ReadBack,
       Respond, Goto
  <2> QED
    BY <1>1, <1>2, <2>1 DEF WritersOnly
<1> QED
  BY <1>3, <1>4

(* A row is only inserted into a calendar that exists.                     *)
LEMMA StepRowsHaveCalendars ==
  ASSUME TypeOK, RowsHaveCalendars, NEW r \in Requests,
         Arrive(r) \/ Handle(r) \/ Drop(r) \/ Fail(r)
  PROVE  RowsHaveCalendars'
<1>0. Cal(r) \in Calendars /\ Uid(r) \in Uids
  BY DEF TypeOK, RequestsTypeOK, Task, Cal, Uid
<1>1. owner' = owner
  BY StepFrame
<1>2. pc[r] \in {"insert", "update", "delete"} =>
          \/ InsertObject(Cal(r), Uid(r), etag[r])
          \/ UpdateObject(Cal(r), Uid(r), etag[r])
          \/ DeleteObject(Cal(r), Uid(r))
          \/ objects' = objects
  BY DEF Arrive, Handle, Drop, Fail, VerifyAccess, CheckIfMatch, LookupEvent, SelectExisting,
     InsertRow, UpdateRow, DeleteRow, LogChange, Bump, ReadBack, store
<1>3. objects' = objects => RowsHaveCalendars'
  BY <1>1 DEF RowsHaveCalendars, Exists
<1>4. ASSUME \/ InsertObject(Cal(r), Uid(r), etag[r])
             \/ UpdateObject(Cal(r), Uid(r), etag[r])
             \/ DeleteObject(Cal(r), Uid(r))
      PROVE  RowsHaveCalendars'
  <2>1. ASSUME NEW c \in Calendars, NEW u \in Uids, objects'[c][u] # None
        PROVE  Exists(c)
    <3>1. CASE c = Cal(r) /\ u = Uid(r)
      BY <1>0, <1>4, <2>1, <3>1
      DEF InsertObject, CanInsertObject, UpdateObject, DeleteObject, TypeOK, StoreTypeOK,
          RowsHaveCalendars
    <3>2. CASE c # Cal(r) \/ u # Uid(r)
      BY <2>1, <3>2, StepFrame DEF RowsHaveCalendars
    <3> QED
      BY <3>1, <3>2
  <2> QED
    BY <1>1, <2>1 DEF RowsHaveCalendars, Exists
<1> QED
  BY <1>2, <1>3, <1>4, StepFrame

(* An entry of the change log stays there.                                 *)
LEMMA LogGrows ==
  ASSUME StoreTypeOK, NEW c \in Calendars, NEW u \in Uids, NEW t \in ChangeType,
         LogSyncChange(c, u, t), NEW d \in Calendars, NEW v \in Uids
  PROVE  /\ Logged(d, v) => Logged(d, v)'
         /\ t # "deleted" => Logged(c, u)'
<1> DEFINE entry == [uid |-> u, change |-> t, token |-> issued + 1]
<1>1. sync_changes'[c] = Append(sync_changes[c], entry)
  BY DEF LogSyncChange, StoreTypeOK
<1>2. sync_changes[c] \in Seq(Change) /\ entry \in Change /\ entry.uid = u /\ entry.change = t
  BY NewChangeType DEF StoreTypeOK
<1> HIDE DEF entry
<1>3. /\ Len(sync_changes[c]) + 1 \in DOMAIN sync_changes'[c]
      /\ sync_changes'[c][Len(sync_changes[c]) + 1] = entry
      /\ \A i \in DOMAIN sync_changes[c] :
             i \in DOMAIN sync_changes'[c] /\ sync_changes'[c][i] = sync_changes[c][i]
  BY <1>1, <1>2
<1>4. d # c => sync_changes'[d] = sync_changes[d]
  BY DEF LogSyncChange, StoreTypeOK
<1> QED
  BY <1>2, <1>3, <1>4 DEF Logged

(* A step of a request keeps the log invariant when no handler is cut off. *)
LEMMA RequestStepLog ==
  ASSUME TypeOK, LogInvariant, UndisturbedStep
  PROVE  LogInvariant'
<1>1. PICK r \in Requests : Arrive(r) \/ Handle(r)
  BY DEF UndisturbedStep
<1> USE DEF TypeOK, RequestsTypeOK
<1>0. /\ Cal(r) \in Calendars /\ Uid(r) \in Uids /\ ChangeOf(r) \in ChangeType
      /\ ~ Deletes(r) => ChangeOf(r) # "deleted"
  BY DEF Task, Cal, Uid, ChangeOf, ChangeType
<1>2. task' = task /\ owner' = owner
  BY <1>1 DEF Handle, Arrive, VerifyAccess, CheckIfMatch, LookupEvent, SelectExisting,
     InsertRow, UpdateRow, DeleteRow, LogChange, Bump, ReadBack, store, InsertObject,
     UpdateObject, DeleteObject, LogSyncChange, BumpCtag
<1>3. \A q \in Requests : Cal(q)' = Cal(q) /\ Uid(q)' = Uid(q) /\ (Deletes(q)' <=> Deletes(q))
  BY <1>2 DEF Cal, Uid, Deletes
<1>4. \A q \in Requests \ {r} : pc'[q] = pc[q]
  BY <1>1, EtagStep
<1>5. WritersOnly'
  BY <1>1, StepWritersOnly DEF LogInvariant
<1>6. CASE InsertRow(r) \/ UpdateRow(r)
  <2>1. CASE Respond(r, "500", None) /\ UNCHANGED store
    <3>1. pc[r] # "log"
      BY <1>6 DEF InsertRow, UpdateRow
    <3>2. \A c \in Calendars, u \in Uids : Writing(c, u) \subseteq Writing(c, u)'
      BY <1>3, <1>4, <3>1 DEF Writing
    <3> QED
      BY <1>2, <1>3, <1>5, <2>1, <3>2 DEF LogInvariant, RowsHaveCalendars, LoggedOrWritten,
         Logged, Exists, store, Writing
  <2>2. CASE /\ InsertObject(Cal(r), Uid(r), etag[r]) \/ UpdateObject(Cal(r), Uid(r), etag[r])
             /\ Goto(r, "log")
    <3>1. pc[r] \in {"insert", "update"} /\ ~ Deletes(r)
      BY <1>6 DEF InsertRow, UpdateRow, LogInvariant, WritersOnly
    <3>2. \A c \in Calendars, u \in Uids :
             objects'[c][u] # None =>
                 objects[c][u] # None \/ (c = Cal(r) /\ u = Uid(r) /\ Exists(c))
      BY <1>0, <2>2 DEF InsertObject, CanInsertObject, UpdateObject, StoreTypeOK
    <3>3. sync_changes' = sync_changes
      BY <2>2 DEF InsertObject, UpdateObject
    <3>4. pc'[r] = "log"
      BY <2>2 DEF Goto
    <3>5. r \in Writing(Cal(r), Uid(r))'
      BY <1>3, <3>4 DEF Writing
    <3>6. \A c \in Calendars, u \in Uids : Writing(c, u) \subseteq Writing(c, u)'
      BY <1>3, <1>4, <3>1 DEF Writing
    <3>7. RowsHaveCalendars'
      BY <1>2, <3>2 DEF LogInvariant, RowsHaveCalendars, Exists
    <3>8. LoggedOrWritten'
      <4> SUFFICES ASSUME NEW c \in Calendars, NEW u \in Uids, objects'[c][u] # None
                   PROVE  Logged(c, u)' \/ \E q \in Writing(c, u)' : ~ Deletes(q)'
        BY DEF LoggedOrWritten
      <4>1. CASE c = Cal(r) /\ u = Uid(r)
        BY <1>3, <3>1, <3>5, <4>1
      <4>2. CASE objects[c][u] # None
        <5>1. Logged(c, u) => Logged(c, u)'
          BY <3>3 DEF Logged
        <5>2. Logged(c, u) \/ \E q \in Writing(c, u) : ~ Deletes(q)
          BY <4>2 DEF LogInvariant, LoggedOrWritten
        <5> QED
          BY <1>3, <3>6, <5>1, <5>2 DEF Writing
      <4> QED
        BY <3>2, <4>1, <4>2
    <3> QED
      BY <1>5, <3>7, <3>8 DEF LogInvariant
  <2> QED
    BY <1>6, <2>1, <2>2 DEF InsertRow, UpdateRow
<1>7. CASE LogChange(r)
  <2>1. CASE LogSyncChange(Cal(r), Uid(r), ChangeOf(r))
    <3>1. objects' = objects
      BY <2>1 DEF LogSyncChange
    <3>2. LoggedOrWritten'
      <4> SUFFICES ASSUME NEW c \in Calendars, NEW u \in Uids, objects[c][u] # None
                   PROVE  Logged(c, u)' \/ \E q \in Writing(c, u)' : ~ Deletes(q)'
        BY <3>1 DEF LoggedOrWritten
      <4>1. CASE Logged(c, u)
        BY <1>0, <2>1, <4>1, LogGrows
      <4>2. ASSUME NEW q \in Writing(c, u), ~ Deletes(q)
            PROVE  Logged(c, u)' \/ \E p \in Writing(c, u)' : ~ Deletes(p)'
        <5>1. CASE q = r
          BY <1>0, <2>1, <4>2, <5>1, LogGrows DEF Writing
        <5>2. CASE q # r
          BY <1>3, <1>4, <4>2, <5>2 DEF Writing
        <5> QED
          BY <5>1, <5>2
      <4> QED
        BY <4>1, <4>2 DEF LogInvariant, LoggedOrWritten
    <3> QED
      BY <1>2, <1>5, <3>1, <3>2 DEF LogInvariant, RowsHaveCalendars, Exists
  <2>2. CASE ~ Exists(Cal(r)) /\ UNCHANGED store
    <3>1. objects[Cal(r)][Uid(r)] = None
      BY <1>0, <2>2 DEF LogInvariant, RowsHaveCalendars
    <3>2. LoggedOrWritten'
      <4> SUFFICES ASSUME NEW c \in Calendars, NEW u \in Uids, objects[c][u] # None
                   PROVE  Logged(c, u)' \/ \E q \in Writing(c, u)' : ~ Deletes(q)'
        BY <2>2 DEF LoggedOrWritten, store
      <4>1. r \notin Writing(c, u)
        BY <3>1 DEF Writing
      <4>2. Logged(c, u) => Logged(c, u)'
        BY <2>2 DEF Logged, store
      <4>3. \A q \in Writing(c, u) : q \in Writing(c, u)'
        BY <1>3, <1>4, <4>1 DEF Writing
      <4>4. Logged(c, u) \/ \E q \in Writing(c, u) : ~ Deletes(q)
        BY DEF LogInvariant, LoggedOrWritten
      <4> QED
        BY <1>3, <4>2, <4>3, <4>4 DEF Writing
    <3> QED
      BY <1>2, <1>5, <2>2, <3>2 DEF LogInvariant, RowsHaveCalendars, Exists, store
  <2> QED
    BY <1>7, <2>1, <2>2 DEF LogChange
<1>8. CASE /\ pc[r] # "log" /\ sync_changes' = sync_changes
           /\ \A c \in Calendars, u \in Uids : objects'[c][u] \in {objects[c][u], None}
  <2>1. \A c \in Calendars, u \in Uids : Writing(c, u) \subseteq Writing(c, u)'
    BY <1>3, <1>4, <1>8 DEF Writing
  <2>2. RowsHaveCalendars'
    BY <1>2, <1>8 DEF LogInvariant, RowsHaveCalendars, Exists
  <2>3. LoggedOrWritten'
    <3> SUFFICES ASSUME NEW c \in Calendars, NEW u \in Uids, objects[c][u] # None
                 PROVE  Logged(c, u)' \/ \E q \in Writing(c, u)' : ~ Deletes(q)'
      BY <1>8 DEF LoggedOrWritten
    <3>1. Logged(c, u) => Logged(c, u)'
      BY <1>8 DEF Logged
    <3>2. Logged(c, u) \/ \E q \in Writing(c, u) : ~ Deletes(q)
      BY DEF LogInvariant, LoggedOrWritten
    <3> QED
      BY <1>3, <2>1, <3>1, <3>2 DEF Writing
  <2> QED
    BY <1>5, <2>2, <2>3 DEF LogInvariant
<1>9. CASE DeleteRow(r)
  <2>1. \A c \in Calendars, u \in Uids : objects'[c][u] \in {objects[c][u], None}
    <3>1. ASSUME DeleteObject(Cal(r), Uid(r))
          PROVE  \A c \in Calendars, u \in Uids : objects'[c][u] \in {objects[c][u], None}
      BY <1>0, <3>1 DEF DeleteObject, StoreTypeOK
    <3> QED
      BY <1>9, <3>1 DEF DeleteRow, store
  <2> QED
    BY <1>8, <1>9, <2>1 DEF DeleteRow, DeleteObject, store
<1>10. CASE Arrive(r) \/ VerifyAccess(r) \/ CheckIfMatch(r) \/ LookupEvent(r)
              \/ SelectExisting(r) \/ Bump(r) \/ ReadBack(r)
  <2>1. pc[r] # "log" /\ sync_changes' = sync_changes /\ objects' = objects
    BY <1>10 DEF Arrive, VerifyAccess, CheckIfMatch, LookupEvent, SelectExisting, Bump,
       ReadBack, BumpCtag, store
  <2> QED
    BY <1>8, <2>1
<1> QED
  BY <1>1, <1>6, <1>7, <1>9, <1>10 DEF Handle

(* When no handler is cut off between two statements, every stored object  *)
(* has an entry in the change log, or a request is about to log it, for    *)
(* any number of racing requests.                                          *)
THEOREM EveryMutationLogged == UndisturbedSpec => []MutationsLogged
<1>1. Init => LogInvariant
  BY DEF Init, StoreInit, RequestsInit, LogInvariant, WritersOnly, RowsHaveCalendars,
     LoggedOrWritten
<1>2. TypeOK /\ LogInvariant /\ [UndisturbedStep]_vars => LogInvariant'
  <2>1. ASSUME UNCHANGED vars, LogInvariant PROVE LogInvariant'
    BY <2>1 DEF vars, store, requests, LogInvariant, WritersOnly, RowsHaveCalendars,
       LoggedOrWritten, Logged, Writing, Deletes, Cal, Uid, Exists
  <2> QED
    BY <2>1, RequestStepLog
<1>3. LogInvariant => MutationsLogged
  BY DEF LogInvariant, LoggedOrWritten, MutationsLogged, Logged
<1>4. [UndisturbedStep]_vars => [Next]_vars
  BY DEF UndisturbedStep, Next, RequestStep
<1>5. UndisturbedSpec => Spec
  BY <1>4, PTL DEF UndisturbedSpec, Spec
<1> QED
  BY <1>1, <1>2, <1>3, <1>5, TypeCorrect, PTL DEF UndisturbedSpec

----------------------------------------------------------------------------
(* Clients that take turns on an object *)

(* At most one request for an object is under way.                         *)
OneWriter ==
    \A r, q \in Requests : Active(r) /\ Active(q) /\ SameObject(r, q) => r = q

(* What a writing request has stored is still there, unless its calendar   *)
(* went away; what it answered is what it had stored.                      *)
OwnRow ==
    \A r \in Requests :
        /\ pc[r] \in {"log", "bump", "readback"} /\ ~ Deletes(r) =>
               objects[Cal(r)][Uid(r)] \in {None, etag[r]}
        /\ answer[r].status # "none" => pc[r] = "done"

TurnsTaken == OneWriter /\ OwnRow /\ AnswersOwnEtag

(* Exclusive clients wait for their predecessor on the same object.        *)
LEMMA StepOneWriter ==
  ASSUME TypeOK, Exclusive, OneWriter, RequestStep
  PROVE  OneWriter'
<1> PICK r \in Requests : Arrive(r) \/ Handle(r) \/ Drop(r) \/ Fail(r)
  BY DEF RequestStep
<1>1. \A q \in Requests : Cal(q)' = Cal(q) /\ Uid(q)' = Uid(q)
  BY StepFrame DEF Cal, Uid
<1>2. \A q \in Requests \ {r} : Active(q)' <=> Active(q)
  BY StepFrame DEF Active
<1>3. Active(r)' /\ ~ Active(r) => \A q \in Requests \ {r} : SameObject(q, r) => ~ Active(q)
  <2> SUFFICES ASSUME Active(r)', ~ Active(r)
               PROVE  \A q \in Requests \ {r} : SameObject(q, r) => ~ Active(q)
    OBVIOUS
  <2>1. Arrive(r)
    BY DEF Handle, VerifyAccess, CheckIfMatch, LookupEvent, SelectExisting, InsertRow,
       UpdateRow, DeleteRow, LogChange, Bump, ReadBack, Drop, Fail, Active, Statements
  <2> QED
    BY <2>1 DEF Arrive, Others
<1> QED
  BY <1>1, <1>2, <1>3 DEF OneWriter, SameObject

(* A request that answers success and does not delete reads its own row    *)
(* back: nobody else wrote the object since.                               *)
LEMMA StepTurns ==
  ASSUME TypeOK, Exclusive, TurnsTaken, RequestStep
  PROVE  TurnsTaken'
<1> PICK r \in Requests : Arrive(r) \/ Handle(r) \/ Drop(r) \/ Fail(r)
  BY DEF RequestStep
<1> USE DEF TypeOK, RequestsTypeOK
<1>0. Cal(r) \in Calendars /\ Uid(r) \in Uids
  BY DEF Task, Cal, Uid
<1>1. OneWriter'
  BY StepOneWriter DEF TurnsTaken
<1>2. \A q \in Requests : Cal(q)' = Cal(q) /\ Uid(q)' = Uid(q) /\ (Deletes(q)' <=> Deletes(q))
  BY StepFrame DEF Cal, Uid, Deletes
<1>3. ASSUME NEW q \in Requests \ {r}
      PROVE  /\ pc'[q] \in {"log", "bump", "readback"} /\ ~ Deletes(q) =>
                    objects'[Cal(q)][Uid(q)] \in {None, etag'[q]}
             /\ answer'[q].status # "none" => pc'[q] = "done"
             /\ answer'[q].status \in {"201", "204", "ok"} /\ ~ Deletes(q) =>
                    answer'[q].etag = etag'[q]
  <2>1. /\ pc'[q] = pc[q] /\ etag'[q] = etag[q] /\ answer'[q] = answer[q]
    BY <1>3, StepFrame
  <2>2. pc[q] \in {"log", "bump", "readback"} =>
            objects'[Cal(q)][Uid(q)] = objects[Cal(q)][Uid(q)]
    <3> SUFFICES ASSUME pc[q] \in {"log", "bump", "readback"}
                 PROVE  objects'[Cal(q)][Uid(q)] = objects[Cal(q)][Uid(q)]
      OBVIOUS
    <3>1. Cal(q) \in Calendars /\ Uid(q) \in Uids
      BY <1>3 DEF Task, Cal, Uid
    <3>2. CASE pc[r] \in {"insert", "update", "delete"}
      <4>1. Cal(q) # Cal(r) \/ Uid(q) # Uid(r)
        BY <1>3, <3>2 DEF TurnsTaken, OneWriter, Active, Statements, SameObject
      <4> QED
        BY <3>1, <4>1, StepFrame
    <3>3. CASE pc[r] \notin {"insert", "update", "delete"}
      BY <3>3, StepFrame
    <3> QED
      BY <3>2, <3>3
  <2> QED
    BY <1>3, <2>1, <2>2 DEF TurnsTaken, OwnRow, AnswersOwnEtag
<1>4. /\ pc'[r] \in {"log", "bump", "readback"} /\ ~ Deletes(r) =>
             objects'[Cal(r)][Uid(r)] \in {None, etag'[r]}
      /\ answer'[r].status # "none" => pc'[r] = "done"
      /\ answer'[r].status \in {"201", "204", "ok"} /\ ~ Deletes(r) =>
             answer'[r].etag = etag'[r]
  <2>0. pc[r] # "done" => answer[r].status = "none"
    BY DEF TurnsTaken, OwnRow
  <2>1. CASE Arrive(r)
    <3>1. pc'[r] \in {"access", "select", "lookup", "delete"}
      BY <2>1 DEF Arrive, Goto, Task, Kinds
    <3> QED
      BY <2>0, <2>1, <3>1 DEF Arrive
  <2>2. CASE VerifyAccess(r) \/ CheckIfMatch(r) \/ LookupEvent(r)
    BY <2>0, <2>2 DEF VerifyAccess, CheckIfMatch, LookupEvent, Respond, Goto
  <2>3. CASE SelectExisting(r)
    BY <2>0, <2>3 DEF SelectExisting, Goto
  <2>4. CASE InsertRow(r)
    BY <1>0, <2>0, <2>4 DEF InsertRow, InsertObject, Respond, Goto, StoreTypeOK
  <2>5. CASE UpdateRow(r)
    BY <1>0, <2>0, <2>5 DEF UpdateRow, UpdateObject, Goto, StoreTypeOK
  <2>6. CASE DeleteRow(r)
    BY <1>0, <2>0, <2>6 DEF DeleteRow, DeleteObject, Respond, Goto, StoreTypeOK,
       TurnsTaken, OwnRow, Deletes
  <2>7. CASE LogChange(r)
    BY <2>0, <2>7 DEF LogChange, LogSyncChange, Respond, Goto, store, TurnsTaken, OwnRow
  <2>8. CASE Bump(r)
    BY <2>0, <2>8 DEF Bump, BumpCtag, Respond, Goto, TurnsTaken, OwnRow
  <2>9. CASE ReadBack(r)
    BY <2>0, <2>9 DEF ReadBack, Respond, Goto, ObjectByUid, TurnsTaken, OwnRow
  <2>10. CASE Drop(r) \/ Fail(r)
    BY <2>0, <2>10 DEF Drop, Fail, Respond, Goto, Active, Statements
  <2> QED
    BY <2>1, <2>2, <2>3, <2>4, <2>5, <2>6, <2>7, <2>8, <2>9, <2>10 DEF Handle
<1>5. \A q \in Requests :
             /\ pc'[q] \in {"log", "bump", "readback"} /\ ~ Deletes(q) =>
                    objects'[Cal(q)][Uid(q)] \in {None, etag'[q]}
             /\ answer'[q].status # "none" => pc'[q] = "done"
             /\ answer'[q].status \in {"201", "204", "ok"} /\ ~ Deletes(q) =>
                    answer'[q].etag = etag'[q]
  BY <1>3, <1>4
<1>6. OwnRow' /\ AnswersOwnEtag'
  BY <1>2, <1>5 DEF OwnRow, AnswersOwnEtag
<1> QED
  BY <1>1, <1>6 DEF TurnsTaken

----------------------------------------------------------------------------
(* Creations and deletions in the change log *)

Arrived == {r \in Requests : pc[r] # "idle"}

(* What a request is about to do to its row, and to log.                   *)
Marked ==
    \A r \in Requests :
        /\ pc[r] \in {"insert", "update"} => ~ Deletes(r) /\ (is_new[r] <=> pc[r] = "insert")
        /\ pc[r] \in {"select", "precondition", "lookup"} => ~ Deletes(r)
        /\ pc[r] = "delete" => Deletes(r)
        /\ pc[r] \in {"update", "log", "bump"} => Exists(Cal(r))

(* A balance needs a finite number of requests; only finitely many have    *)
(* arrived at any time.                                                    *)
BalanceInvariant ==
    IsFiniteSet(Arrived) /\ Marked /\ RowsHaveCalendars /\ EtagsFresh /\ LogBalance

(* A step keeps that: is_new says which of the two statements follows, and  *)
(* without faults nobody deletes the calendar in between.                  *)
LEMMA StepMarked ==
  ASSUME TypeOK, Marked, RowsHaveCalendars, NEW r \in Requests, Arrive(r) \/ Handle(r)
  PROVE  Marked'
<1> USE DEF TypeOK, RequestsTypeOK
<1>0. Cal(r) \in Calendars /\ Uid(r) \in Uids
  BY DEF Task, Cal, Uid
<1>1. \A q \in Requests : /\ Cal(q)' = Cal(q) /\ (Deletes(q)' <=> Deletes(q))
                          /\ (Exists(Cal(q))' <=> Exists(Cal(q)))
  BY StepFrame DEF Cal, Deletes, Exists
<1>2. \A q \in Requests \ {r} : pc'[q] = pc[q] /\ is_new'[q] = is_new[q]
  BY StepFrame
<1>3. /\ pc'[r] \in {"insert", "update"} => ~ Deletes(r) /\ (is_new'[r] <=> pc'[r] = "insert")
      /\ pc'[r] \in {"select", "precondition", "lookup"} => ~ Deletes(r)
      /\ pc'[r] = "delete" => Deletes(r)
      /\ pc'[r] \in {"update", "log", "bump"} => Exists(Cal(r))
  <2>1. CASE Arrive(r)
    <3>1. /\ pc'[r] \in {"access", "select", "lookup", "delete"}
          /\ pc'[r] = "delete" => Deletes(r)
          /\ pc'[r] \in {"select", "lookup"} => ~ Deletes(r)
      BY <2>1 DEF Arrive, Goto, Task, Kinds, Deletes
    <3> QED
      BY <3>1
  <2>2. CASE SelectExisting(r)
    BY <1>0, <2>2 DEF SelectExisting, Goto, Marked, RowsHaveCalendars, ObjectByUid
  <2>3. CASE InsertRow(r) \/ UpdateRow(r) \/ DeleteRow(r)
    BY <1>0, <2>3 DEF InsertRow, UpdateRow, DeleteRow, InsertObject, CanInsertObject, DeleteObject,
       Respond, Goto, Marked, RowsHaveCalendars
  <2>4. CASE VerifyAccess(r) \/ CheckIfMatch(r) \/ LookupEvent(r) \/ LogChange(r) \/ Bump(r)
             \/ ReadBack(r)
    BY <2>4 DEF VerifyAccess, CheckIfMatch, LookupEvent, LogChange, LogSyncChange, Bump, ReadBack,
       Respond, Goto, Marked
  <2> QED
    BY <2>1, <2>2, <2>3, <2>4 DEF Handle
<1> QED
  BY <1>1, <1>2, <1>3 DEF Marked

\* Nobody stands between a row write in c and the bump of c's tokens.
AtRest(c) == \A r \in Requests : Cal(r) = c => pc[r] \notin {"log", "bump"}

\* Every token was drawn.
TokensDrawn == \A c \in Calendars : sync_token[c] <= issued

(* A token that is current after a step, with nobody on the way to the     *)
(* bump, was current before it, and the step wrote no row of the calendar. *)
LEMMA StillCurrent ==
  ASSUME TypeOK, NEW r \in Requests, Arrive(r) \/ Handle(r),
         NEW c \in Calendars, sync_token'[c] <= issued, AtRest(c)',
         Cal(r) = c /\ pc[r] \in {"log", "bump"} => Exists(c)
  PROVE  /\ sync_token'[c] = sync_token[c] /\ AtRest(c)
         /\ objects'[c] = objects[c] /\ sync_changes'[c] = sync_changes[c]
<1> USE DEF TypeOK, RequestsTypeOK, StoreTypeOK
<1>0. Cal(r) \in Calendars /\ Uid(r) \in Uids /\ issued \in Nat
  BY DEF Task, Cal, Uid
<1>1. /\ \A q \in Requests : Cal(q)' = Cal(q)
      /\ \A q \in Requests \ {r} : pc'[q] = pc[q]
      /\ Cal(r) = c => pc'[r] \notin {"log", "bump"}
  BY StepFrame DEF Cal, AtRest
<1>2. sync_token'[c] = sync_token[c] /\ ~ (Cal(r) = c /\ pc[r] = "bump")
  <2>1. CASE pc[r] = "bump"
    <3>1. Bump(r) /\ (Cal(r) = c => Exists(Cal(r)))
      BY <2>1 DEF Arrive, Handle, VerifyAccess, CheckIfMatch, LookupEvent, SelectExisting,
         InsertRow, UpdateRow, DeleteRow, LogChange, ReadBack
    <3> QED
      BY <1>0, <3>1 DEF Bump, BumpCtag
  <2> QED
    BY <2>1, StepFrame
<1>3. ~ (Cal(r) = c /\ pc[r] = "log")
  <2> SUFFICES ASSUME Cal(r) = c, pc[r] = "log" PROVE FALSE
    OBVIOUS
  <2>1. LogChange(r) /\ Exists(Cal(r))
    BY DEF Arrive, Handle, VerifyAccess, CheckIfMatch, LookupEvent, SelectExisting,
       InsertRow, UpdateRow, DeleteRow, Bump, ReadBack
  <2> QED
    BY <1>1, <2>1 DEF LogChange, Goto
<1>4. AtRest(c)
  BY <1>1, <1>2, <1>3 DEF AtRest
<1>5. objects'[c] = objects[c]
  <2>1. CASE Cal(r) # c
    <3>1. \A u \in Uids : objects'[c][u] = objects[c][u]
      BY <2>1, StepFrame
    <3>2. objects'[c] \in [Uids -> Nat] /\ objects[c] \in [Uids -> Nat]
      BY RequestStepType DEF RequestStep
    <3> QED
      BY <3>1, <3>2
  <2>2. CASE Cal(r) = c /\ pc[r] \in {"insert", "update", "delete"}
    <3>1. InsertRow(r) \/ UpdateRow(r) \/ DeleteRow(r)
      BY <2>2 DEF Arrive, Handle, VerifyAccess, CheckIfMatch, LookupEvent, SelectExisting,
         LogChange, Bump, ReadBack
    <3> QED
      BY <1>1, <2>2, <3>1 DEF InsertRow, UpdateRow, DeleteRow, Goto, store
  <2> QED
    BY <2>1, <2>2, StepFrame
<1>6. sync_changes'[c] = sync_changes[c]
  <2>1. CASE LogSyncChange(Cal(r), Uid(r), ChangeOf(r)) /\ Cal(r) # c
    BY <1>0, <2>1 DEF LogSyncChange
  <2>2. pc[r] = "log" => \/ LogSyncChange(Cal(r), Uid(r), ChangeOf(r))
                        \/ sync_changes' = sync_changes
    BY DEF Arrive, Handle, VerifyAccess, CheckIfMatch, LookupEvent, SelectExisting,
       InsertRow, UpdateRow, DeleteRow, LogChange, Bump, ReadBack, store
  <2> QED
    BY <1>3, <2>1, <2>2, StepFrame
<1> QED
  BY <1>2, <1>4, <1>5, <1>6

(* Steps draw the tokens they store.                                       *)
LEMMA StepTokensDrawn ==
  ASSUME TypeOK, TokensDrawn, NEW r \in Requests, Arrive(r) \/ Handle(r) \/ Drop(r) \/ Fail(r)
  PROVE  TokensDrawn' /\ issued <= issued'
<1> USE DEF TypeOK, RequestsTypeOK, StoreTypeOK
<1>1. CASE Bump(r)
  <2>1. Cal(r) \in Calendars
    BY DEF Task, Cal
  <2> QED
    BY <1>1, <2>1 DEF Bump, BumpCtag, TokensDrawn
<1>2. CASE ~ Bump(r)
  <2>1. sync_token' = sync_token
    BY <1>2 DEF Arrive, Handle, VerifyAccess, CheckIfMatch, LookupEvent, SelectExisting,
       InsertRow, InsertObject, UpdateRow, UpdateObject, DeleteRow, DeleteObject, LogChange,
       LogSyncChange, ReadBack, Drop, Fail, store
  <2>2. issued' \in {issued, issued + 1}
    BY <1>2 DEF Arrive, Handle, VerifyAccess, CheckIfMatch, LookupEvent, SelectExisting,
       InsertRow, InsertObject, UpdateRow, UpdateObject, DeleteRow, DeleteObject, LogChange,
       LogSyncChange, ReadBack, Drop, Fail, store
  <2> QED
    BY <2>1, <2>2 DEF TokensDrawn
<1> QED
  BY <1>1, <1>2

(* A step moves only its own request to or from the ones that are about to *)
(* log a change.                                                           *)
LEMMA UnloggedStep ==
  ASSUME TypeOK, NEW r \in Requests, Arrive(r) \/ Handle(r),
         NEW c \in Calendars, NEW u \in Uids, NEW t \in ChangeType
  PROVE  Unlogged(c, u, t)' =
             IF pc'[r] = "log" /\ Cal(r) = c /\ Uid(r) = u /\ ChangeOf(r) = t
               THEN Unlogged(c, u, t) \cup {r} ELSE Unlogged(c, u, t) \ {r}
<1>1. \A q \in Requests : Cal(q)' = Cal(q) /\ Uid(q)' = Uid(q)
  BY StepFrame DEF Cal, Uid
<1>2. \A q \in Requests \ {r} : pc'[q] = pc[q] /\ ChangeOf(q)' = ChangeOf(q)
  BY StepFrame DEF ChangeOf, Deletes
<1>3. pc'[r] = "log" => ChangeOf(r)' = ChangeOf(r)
  <2>1. pc'[r] = "log" => is_new' = is_new
    BY DEF Arrive, Handle, VerifyAccess, CheckIfMatch, LookupEvent, SelectExisting, InsertRow,
       UpdateRow, DeleteRow, LogChange, Bump, ReadBack, Goto, TypeOK, RequestsTypeOK
  <2> QED
    BY <2>1, StepFrame DEF ChangeOf, Deletes
<1> QED
  BY <1>1, <1>2, <1>3 DEF Unlogged

(* An entry is added to the entries of its object and kind only.           *)
LEMMA EntriesStep ==
  ASSUME StoreTypeOK, NEW c \in Calendars, NEW u \in Uids, NEW t \in ChangeType,
         LogSyncChange(c, u, t), NEW d \in Calendars, NEW v \in Uids, NEW s \in ChangeType
  PROVE  /\ Len(sync_changes[c]) + 1 \notin Entries(c, u, t)
         /\ Entries(d, v, s)' = IF d = c /\ v = u /\ s = t
                                  THEN Entries(c, u, t) \cup {Len(sync_changes[c]) + 1}
                                  ELSE Entries(d, v, s)
<1> DEFINE entry == [uid |-> u, change |-> t, token |-> issued + 1]
           old == sync_changes[c]
           new == sync_changes'[c]
<1>1. new = Append(old, entry) /\ old \in Seq(Change) /\ entry \in Change
      /\ entry.uid = u /\ entry.change = t
  BY NewChangeType DEF LogSyncChange, StoreTypeOK
<1> HIDE DEF entry, old, new
<1>2. /\ DOMAIN old = 1 .. Len(old) /\ Len(old) \in Nat
      /\ DOMAIN new = 1 .. Len(old) + 1
      /\ new[Len(old) + 1] = entry
      /\ \A i \in 1 .. Len(old) : new[i] = old[i]
  BY <1>1
<1>3. 1 .. Len(old) + 1 = (1 .. Len(old)) \cup {Len(old) + 1}
  BY <1>2
<1>4. d # c => sync_changes'[d] = sync_changes[d]
  BY DEF LogSyncChange, StoreTypeOK
<1>5. Len(old) + 1 \notin DOMAIN old
  BY <1>2
<1>6. CASE d = c
  <2>1. {i \in DOMAIN new : new[i].uid = v /\ new[i].change = s}
          = {i \in DOMAIN old : old[i].uid = v /\ old[i].change = s}
            \cup (IF v = u /\ s = t THEN {Len(old) + 1} ELSE {})
    BY <1>1, <1>2, <1>3
  <2> QED
    BY <1>5, <1>6, <2>1 DEF Entries, old, new
<1>7. CASE d # c
  BY <1>4, <1>5, <1>7 DEF Entries, old
<1> QED
  BY <1>6, <1>7

(* The counted sets are finite.                                            *)
LEMMA CountedFinite ==
  ASSUME TypeOK, IsFiniteSet(Arrived), NEW c \in Calendars, NEW u \in Uids, NEW t \in ChangeType
  PROVE  /\ IsFiniteSet(Entries(c, u, t)) /\ Cardinality(Entries(c, u, t)) \in Nat
         /\ IsFiniteSet(Unlogged(c, u, t)) /\ Cardinality(Unlogged(c, u, t)) \in Nat
<1>1. Unlogged(c, u, t) \subseteq Arrived
  BY DEF Unlogged, Arrived
<1>2. Entries(c, u, t) \subseteq 1 .. Len(sync_changes[c]) /\ Len(sync_changes[c]) \in Nat
  BY DEF Entries, TypeOK, StoreTypeOK
<1>3. IsFiniteSet(1 .. Len(sync_changes[c]))
  BY <1>2, FS_Interval
<1> QED
  BY <1>1, <1>2, <1>3, FS_Subset, FS_CardinalityType

(* Only finitely many requests have arrived.                               *)
LEMMA StepArrived ==
  ASSUME TypeOK, IsFiniteSet(Arrived), NEW r \in Requests, Arrive(r) \/ Handle(r)
  PROVE  IsFiniteSet(Arrived')
<1>1. Arrived' \subseteq Arrived \cup {r}
  BY StepFrame DEF Arrived
<1>2. IsFiniteSet(Arrived \cup {r})
  BY FS_AddElement
<1> QED
  BY <1>1, <1>2, FS_Subset

(* Each step keeps the balance: a row that appears or goes away is paid    *)
(* for by its request's unlogged change, and that one by a log entry.      *)
LEMMA StepBalance ==
  ASSUME TypeOK, BalanceInvariant, NEW r \in Requests, Arrive(r) \/ Handle(r)
  PROVE  LogBalance'
<1> SUFFICES ASSUME NEW c \in Calendars, NEW u \in Uids
             PROVE  Cardinality(Entries(c, u, "created")') + Cardinality(Unlogged(c, u, "created")')
                    = Cardinality(Entries(c, u, "deleted")') + Cardinality(Unlogged(c, u, "deleted")')
                      + (IF objects'[c][u] = None THEN 0 ELSE 1)
  BY DEF LogBalance
<1> DEFINE E(t) == Entries(c, u, t)
           U(t) == Unlogged(c, u, t)
           row  == IF objects[c][u] = None THEN 0 ELSE 1
<1>0. /\ StoreTypeOK /\ Cal(r) \in Calendars /\ Uid(r) \in Uids
      /\ ChangeOf(r) \in ChangeType /\ (ChangeOf(r) = "deleted" <=> Deletes(r))
      /\ ~ Deletes(r) => (ChangeOf(r) = "created" <=> is_new[r])
      /\ {"created", "deleted"} \subseteq ChangeType
  BY DEF TypeOK, RequestsTypeOK, Task, Cal, Uid, ChangeOf, ChangeType
<1>1. Cardinality(E("created")) + Cardinality(U("created"))
        = Cardinality(E("deleted")) + Cardinality(U("deleted")) + row
  BY DEF BalanceInvariant, LogBalance
<1>2. \A t \in {"created", "deleted"} :
          /\ IsFiniteSet(E(t)) /\ Cardinality(E(t)) \in Nat
          /\ IsFiniteSet(U(t)) /\ Cardinality(U(t)) \in Nat
  BY <1>0, CountedFinite DEF BalanceInvariant
<1>3. /\ Cardinality(E("created")) \in Nat /\ Cardinality(E("deleted")) \in Nat
      /\ Cardinality(U("created")) \in Nat /\ Cardinality(U("deleted")) \in Nat
  BY <1>2
<1>4. \A t \in {"created", "deleted"} :
          /\ Cardinality(U(t) \cup {r}) = IF r \in U(t) THEN Cardinality(U(t)) ELSE Cardinality(U(t)) + 1
          /\ Cardinality(U(t) \ {r}) = IF r \in U(t) THEN Cardinality(U(t)) - 1 ELSE Cardinality(U(t))
          /\ Cardinality(E(t) \cup {Len(sync_changes[c]) + 1})
               = IF Len(sync_changes[c]) + 1 \in E(t) THEN Cardinality(E(t)) ELSE Cardinality(E(t)) + 1
  BY <1>2, FS_AddElement, FS_RemoveElement
<1>5. \A t \in {"created", "deleted"} :
          Unlogged(c, u, t)' = IF pc'[r] = "log" /\ Cal(r) = c /\ Uid(r) = u /\ ChangeOf(r) = t
                                 THEN U(t) \cup {r} ELSE U(t) \ {r}
  BY <1>0, UnloggedStep
<1>6. \A t \in {"created", "deleted"} :
          r \in U(t) <=> pc[r] = "log" /\ Cal(r) = c /\ Uid(r) = u /\ ChangeOf(r) = t
  BY DEF Unlogged
<1> HIDE DEF E, U
<1>7. ASSUME sync_changes' = sync_changes
      PROVE  \A t \in {"created", "deleted"} : Entries(c, u, t)' = E(t)
  BY <1>7 DEF Entries, E
<1>8. CASE pc[r] = "log"
  <2>1. LogSyncChange(Cal(r), Uid(r), ChangeOf(r)) /\ pc'[r] = "bump"
    <3>1. Exists(Cal(r))
      BY <1>8 DEF BalanceInvariant, Marked
    <3> QED
      BY <1>8, <3>1 DEF Arrive, Handle, VerifyAccess, CheckIfMatch, LookupEvent, SelectExisting,
         InsertRow, UpdateRow, DeleteRow, LogChange, Bump, ReadBack, Goto, TypeOK, RequestsTypeOK
  <2>2. objects' = objects
    BY <2>1 DEF LogSyncChange
  <2>3. \A t \in {"created", "deleted"} :
          Entries(c, u, t)' = IF c = Cal(r) /\ u = Uid(r) /\ t = ChangeOf(r)
                                THEN E(t) \cup {Len(sync_changes[c]) + 1} ELSE E(t)
    BY <1>0, <2>1, EntriesStep DEF E
  <2>4. c = Cal(r) /\ u = Uid(r) => Len(sync_changes[c]) + 1 \notin E(ChangeOf(r))
    BY <1>0, <2>1, EntriesStep DEF E
  <2>5. ASSUME NEW t \in {"created", "deleted"}
        PROVE  Cardinality(Entries(c, u, t)') + Cardinality(Unlogged(c, u, t)')
                 = Cardinality(E(t)) + Cardinality(U(t))
    <3>1. Cardinality(E(t)) \in Nat /\ Cardinality(U(t)) \in Nat
      BY <1>2
    <3>2. Unlogged(c, u, t)' = U(t) \ {r}
      BY <1>5, <2>1
    <3>3. CASE c = Cal(r) /\ u = Uid(r) /\ t = ChangeOf(r)
      <4>1. r \in U(t)
        BY <1>6, <1>8, <3>3
      <4>2. Cardinality(U(t) \ {r}) = Cardinality(U(t)) - 1
        BY <1>4, <4>1
      <4>3. Cardinality(E(t) \cup {Len(sync_changes[c]) + 1}) = Cardinality(E(t)) + 1
        BY <1>4, <2>4, <3>3
      <4>4. Entries(c, u, t)' = E(t) \cup {Len(sync_changes[c]) + 1}
        BY <2>3, <3>3
      <4> QED
        BY <3>1, <3>2, <4>2, <4>3, <4>4
    <3>4. CASE ~ (c = Cal(r) /\ u = Uid(r) /\ t = ChangeOf(r))
      <4>1. U(t) \ {r} = U(t)
        BY <1>6, <3>4
      <4>2. Entries(c, u, t)' = E(t)
        BY <2>3, <3>4
      <4> QED
        BY <3>2, <4>1, <4>2
    <3> QED
      BY <3>3, <3>4
  <2> QED
    BY <1>1, <1>3, <2>2, <2>5
<1>9. CASE pc[r] # "log" /\ (pc'[r] # "log" \/ c # Cal(r) \/ u # Uid(r)
                              \/ ChangeOf(r) \notin {"created", "deleted"})
           /\ (objects'[c][u] = None <=> objects[c][u] = None)
  <2>1. \A t \in {"created", "deleted"} : Unlogged(c, u, t)' = U(t)
    BY <1>5, <1>6, <1>9
  <2>2. \A t \in {"created", "deleted"} : Entries(c, u, t)' = E(t)
    BY <1>7, <1>9, StepFrame
  <2> QED
    BY <1>1, <1>9, <2>1, <2>2
<1>10. CASE c = Cal(r) /\ u = Uid(r) /\ InsertRow(r) /\ pc'[r] = "log"
  <2>1. InsertObject(c, u, etag[r]) /\ pc[r] = "insert"
    BY <1>10 DEF InsertRow, Respond, Goto, TypeOK, RequestsTypeOK
  <2>2. ChangeOf(r) = "created" /\ etag[r] # None
    BY <1>0, <2>1 DEF BalanceInvariant, Marked, EtagsFresh, EtagsApart, Pending
  <2>3. objects[c][u] = None /\ objects'[c][u] # None /\ sync_changes' = sync_changes
    BY <1>0, <2>1, <2>2 DEF InsertObject, CanInsertObject, StoreTypeOK
  <2>4. Unlogged(c, u, "created")' = U("created") \cup {r} /\ r \notin U("created")
        /\ Unlogged(c, u, "deleted")' = U("deleted")
    BY <1>5, <1>6, <1>10, <2>1, <2>2
  <2>5. /\ Cardinality(Entries(c, u, "created")') = Cardinality(E("created"))
        /\ Cardinality(Entries(c, u, "deleted")') = Cardinality(E("deleted"))
    BY <1>7, <2>3
  <2>6. Cardinality(Unlogged(c, u, "created")') = Cardinality(U("created")) + 1
    BY <1>4, <2>4
  <2> QED
    BY <1>1, <1>3, <2>3, <2>4, <2>5, <2>6
<1>11. CASE c = Cal(r) /\ u = Uid(r) /\ DeleteRow(r) /\ pc'[r] = "log"
  <2>1. DeleteObject(c, u) /\ pc[r] = "delete"
    BY <1>11 DEF DeleteRow, Respond, Goto, TypeOK, RequestsTypeOK
  <2>2. ChangeOf(r) = "deleted"
    BY <1>0, <2>1 DEF BalanceInvariant, Marked
  <2>3. objects[c][u] # None /\ objects'[c][u] = None /\ sync_changes' = sync_changes
    BY <1>0, <2>1 DEF DeleteObject, StoreTypeOK
  <2>4. Unlogged(c, u, "deleted")' = U("deleted") \cup {r} /\ r \notin U("deleted")
        /\ Unlogged(c, u, "created")' = U("created")
    BY <1>5, <1>6, <1>11, <2>1, <2>2
  <2>5. /\ Cardinality(Entries(c, u, "created")') = Cardinality(E("created"))
        /\ Cardinality(Entries(c, u, "deleted")') = Cardinality(E("deleted"))
    BY <1>7, <2>3
  <2>6. Cardinality(Unlogged(c, u, "deleted")') = Cardinality(U("deleted")) + 1
    BY <1>4, <2>4
  <2> QED
    BY <1>1, <1>3, <2>3, <2>4, <2>5, <2>6
<1>12. CASE UpdateRow(r)
  <2>1. pc[r] = "update"
    BY <1>12 DEF UpdateRow
  <2>2. ~ Deletes(r) /\ ~ is_new[r] /\ etag[r] # None
    BY <2>1 DEF BalanceInvariant, Marked, EtagsFresh, EtagsApart, Pending
  <2>3. ChangeOf(r) \notin {"created", "deleted"}
    BY <2>2 DEF ChangeOf
  <2>4. objects'[c][u] = None <=> objects[c][u] = None
    BY <1>0, <1>12, <2>2 DEF UpdateRow, UpdateObject, StoreTypeOK
  <2> QED
    BY <1>9, <2>1, <2>3, <2>4
<1>13. CASE /\ pc[r] # "log" /\ ~ UpdateRow(r)
            /\ ~ (c = Cal(r) /\ u = Uid(r) /\ pc'[r] = "log" /\ (InsertRow(r) \/ DeleteRow(r)))
  <2>1. pc'[r] = "log" => InsertRow(r) \/ DeleteRow(r)
    <3>1. Arrive(r) => pc'[r] # "log"
      BY DEF Arrive, Goto, TypeOK, RequestsTypeOK, Task, Kinds
    <3> QED
      BY <1>13, <3>1 DEF Handle, VerifyAccess, CheckIfMatch, LookupEvent, SelectExisting,
         LogChange, Bump, ReadBack, Respond, Goto, TypeOK, RequestsTypeOK
  <2>2. CASE c # Cal(r) \/ u # Uid(r)
    BY <1>9, <1>13, <2>2, StepFrame
  <2>3. CASE c = Cal(r) /\ u = Uid(r)
    <3>1. pc'[r] # "log"
      BY <1>13, <2>1, <2>3
    <3>2. objects' = objects
      BY <1>13, <3>1, StepFrame DEF Arrive, Handle, VerifyAccess, CheckIfMatch, LookupEvent,
         SelectExisting, InsertRow, DeleteRow, LogChange, Bump, ReadBack, Goto, store, TypeOK,
         RequestsTypeOK
    <3> QED
      BY <1>9, <1>13, <3>1, <3>2
  <2> QED
    BY <2>2, <2>3
<1> QED
  BY <1>8, <1>10, <1>11, <1>12, <1>13

(* In every interleaving of any number of requests without faults, each    *)
(* creation in the change log is paid for by a deletion or by the row that *)
(* is there: no row is created twice and no deletion logged that removed   *)
(* nothing.                                                                *)
THEOREM BalancedLog == UndisturbedSpec => []LogBalance
<1>1. Init => BalanceInvariant
  <2> SUFFICES ASSUME Init PROVE BalanceInvariant
    OBVIOUS
  <2>1. TypeOK
    BY StoreInitType, RequestsInitType DEF Init, TypeOK
  <2>2. Arrived = {} /\ Marked /\ RowsHaveCalendars
    BY DEF Init, StoreInit, RequestsInit, Arrived, Marked, RowsHaveCalendars
  <2>3. EtagsFresh
    BY <2>1 DEF Init, StoreInit, RequestsInit, EtagsFresh, EtagsBounded, EtagsApart, Pending,
       None, TypeOK, StoreTypeOK
  <2>4. ASSUME NEW c \in Calendars, NEW u \in Uids, NEW t \in ChangeType
        PROVE  Entries(c, u, t) = {} /\ Unlogged(c, u, t) = {} /\ objects[c][u] = None
    BY DEF Init, StoreInit, RequestsInit, Entries, Unlogged
  <2>5. LogBalance
    BY <2>4, FS_EmptySet DEF LogBalance, ChangeType
  <2> QED
    BY <2>2, <2>3, <2>5, FS_EmptySet DEF BalanceInvariant
<1>2. TypeOK /\ BalanceInvariant /\ [UndisturbedStep]_vars => BalanceInvariant'
  <2>1. ASSUME UNCHANGED vars, BalanceInvariant PROVE BalanceInvariant'
    BY <2>1 DEF vars, store, requests, BalanceInvariant, Arrived, Marked, RowsHaveCalendars,
       EtagsFresh, EtagsBounded, EtagsApart, Pending, LogBalance, Entries, Unlogged, ChangeOf,
       Deletes, Cal, Uid, Exists
  <2>2. ASSUME TypeOK, BalanceInvariant, NEW r \in Requests, Arrive(r) \/ Handle(r)
        PROVE  BalanceInvariant'
    <3>1. EtagsFresh'
      BY <2>2, RequestStepEtags DEF BalanceInvariant, RequestStep
    <3>2. LogBalance'
      BY <2>2, StepBalance
    <3>3. IsFiniteSet(Arrived') /\ Marked' /\ RowsHaveCalendars'
      BY <2>2, StepArrived, StepMarked, StepRowsHaveCalendars DEF BalanceInvariant
    <3> QED
      BY <3>1, <3>2, <3>3 DEF BalanceInvariant
  <2> QED
    BY <2>1, <2>2 DEF UndisturbedStep
<1>3. BalanceInvariant => LogBalance
  BY DEF BalanceInvariant
<1>4. [UndisturbedStep]_vars => [Next]_vars
  BY DEF UndisturbedStep, Next, RequestStep
<1>5. UndisturbedSpec => Spec
  BY <1>4, PTL DEF UndisturbedSpec, Spec
<1> QED
  BY <1>1, <1>2, <1>3, <1>5, TypeCorrect, PTL DEF UndisturbedSpec

----------------------------------------------------------------------------
(* The refinement of AtomicObjects: all five kinds of requests *)

StoredRow(r) == objects[Cal(r)][Uid(r)]

(* What a request has found out stays true until it writes the row, and    *)
(* what it wrote stays there until it answers.                             *)
Knowledge(r) ==
    /\ pc[r] = "access" => ~ Mcp(r)
    /\ pc[r] = "precondition" => task[r].kind = "PUT" /\ if_match[r] # None
    /\ pc[r] = "lookup" => task[r].kind = "update_event"
    /\ pc[r] = "delete" => Deletes(r)
    /\ pc[r] \in {"precondition", "select", "insert", "update", "readback"} => ~ Deletes(r)
    /\ if_match[r] # None => task[r].kind = "PUT"
    /\ pc[r] \in {"select", "insert", "update"} =>
           /\ if_match[r] \in {None, StoredRow(r)}
           /\ task[r].kind = "update_event" => StoredRow(r) # None
           /\ ~ Mcp(r) => Exists(Cal(r))
    /\ pc[r] = "precondition" => Exists(Cal(r))
    /\ pc[r] = "insert" => StoredRow(r) = None /\ is_new[r]
    /\ pc[r] = "update" => StoredRow(r) # None /\ ~ is_new[r]
    /\ Decided(r) => Exists(Cal(r))
    /\ Decided(r) /\ ~ Deletes(r) => StoredRow(r) = etag[r] /\ etag[r] # None
    /\ Decided(r) /\ Deletes(r) => StoredRow(r) = None
    /\ pc[r] # "done" => answer[r] = [status |-> "none", etag |-> None]

RefinementInvariant ==
    /\ TypeOK
    /\ EtagsFresh
    /\ RowsHaveCalendars
    /\ OneWriter
    /\ \A r \in Requests : Knowledge(r)

(* Another request's step does not touch what a request knows: it is about *)
(* another object, or it does not write.                                   *)
LEMMA OthersKnow ==
  ASSUME RefinementInvariant, NEW r \in Requests,
         Arrive(r) \/ Handle(r) \/ Drop(r) \/ Fail(r), NEW q \in Requests \ {r}
  PROVE  Knowledge(q)'
<1> USE DEF RefinementInvariant
<1>1. /\ pc'[q] = pc[q] /\ if_match'[q] = if_match[q] /\ is_new'[q] = is_new[q]
      /\ etag'[q] = etag[q] /\ answer'[q] = answer[q] /\ task' = task /\ owner' = owner
  BY StepFrame
<1>2. Active(q) => StoredRow(q)' = StoredRow(q)
  <2>0. Cal(q) \in Calendars /\ Uid(q) \in Uids
    BY DEF TypeOK, RequestsTypeOK, Task, Cal, Uid
  <2>1. Cal(q)' = Cal(q) /\ Uid(q)' = Uid(q)
    BY <1>1 DEF Cal, Uid
  <2>2. CASE pc[r] \in {"insert", "update", "delete"}
    BY <2>0, <2>1, <2>2, StepFrame DEF OneWriter, Active, Statements, SameObject, StoredRow
  <2>3. CASE pc[r] \notin {"insert", "update", "delete"}
    BY <2>1, <2>3, StepFrame DEF StoredRow
  <2> QED
    BY <2>2, <2>3
<1>3. /\ Active(q) <=> pc[q] \in Statements
      /\ Deletes(q)' <=> Deletes(q)
      /\ Mcp(q)' <=> Mcp(q)
      /\ Exists(Cal(q))' <=> Exists(Cal(q))
      /\ Decided(q)' <=> Decided(q)
  BY <1>1 DEF Active, Deletes, Mcp, Exists, Cal, Decided
<1>4. CASE Active(q)
  BY <1>1, <1>2, <1>3, <1>4 DEF Knowledge
<1>5. CASE ~ Active(q)
  BY <1>1, <1>3, <1>5 DEF Knowledge, Statements, Decided
<1> QED
  BY <1>4, <1>5

(* A request keeps what it knows up to date itself.                        *)
LEMMA SelfKnows ==
  ASSUME RefinementInvariant, NEW r \in Requests,
         Arrive(r) \/ Handle(r) \/ Drop(r) \/ Fail(r)
  PROVE  Knowledge(r)'
<1> USE DEF RefinementInvariant, TypeOK, RequestsTypeOK
<1>0. Cal(r) \in Calendars /\ Uid(r) \in Uids /\ StoredRow(r) = ObjectByUid(Cal(r), Uid(r))
  BY DEF Task, Cal, Uid, StoredRow, ObjectByUid
<1>1. /\ task' = task /\ owner' = owner
      /\ Cal(r)' = Cal(r) /\ Uid(r)' = Uid(r) /\ (Deletes(r)' <=> Deletes(r))
      /\ (Mcp(r)' <=> Mcp(r)) /\ (Exists(Cal(r))' <=> Exists(Cal(r)))
  BY StepFrame DEF Cal, Uid, Deletes, Mcp, Exists
<1>2. /\ Mcp(r) <=> task[r].kind \notin {"PUT", "DELETE"}
      /\ Deletes(r) => task[r].kind \notin {"PUT", "update_event", "create_event"}
      /\ ~ Deletes(r) => task[r].kind \notin {"DELETE", "delete_event"}
  BY DEF Mcp, Deletes, Task, Kinds
<1>3. pc[r] \notin {"insert", "update", "delete"} => StoredRow(r)' = StoredRow(r)
  BY <1>1, StepFrame DEF StoredRow
<1>4. Knowledge(r)
  OBVIOUS
<1>5. ASSUME NEW s, NEW e, Respond(r, s, e), UNCHANGED if_match
      PROVE  Knowledge(r)'
  BY <1>1, <1>4, <1>5 DEF Respond, Goto, Knowledge, Decided
<1>6. CASE Arrive(r)
  <2>1. CASE task[r].kind \in {"PUT", "DELETE"}
    <3>1. pc'[r] = "access"
      BY <1>6, <2>1 DEF Arrive, Goto
    <3>2. if_match'[r] # None => task[r].kind = "PUT"
      BY <1>6, <2>1 DEF Arrive
    <3> QED
      BY <1>1, <1>2, <1>4, <1>6, <2>1, <3>1, <3>2 DEF Arrive, Knowledge, Decided
  <2>2. CASE task[r].kind \notin {"PUT", "DELETE"}
    <3>1. pc'[r] = IF task[r].kind = "create_event" THEN "select"
                   ELSE IF task[r].kind = "update_event" THEN "lookup" ELSE "delete"
      BY <1>6, <2>2 DEF Arrive, Goto, Task, Kinds
    <3>2. if_match'[r] = None
      BY <1>6, <2>2 DEF Arrive
    <3>3. task[r].kind \in {"create_event", "update_event", "delete_event"}
      BY <2>2 DEF Task, Kinds
    <3>4. answer'[r] = answer[r] /\ pc[r] = "idle"
      BY <1>6 DEF Arrive
    <3> QED
      BY <1>1, <1>2, <1>4, <2>2, <3>1, <3>2, <3>3, <3>4 DEF Knowledge, Decided, Deletes
  <2> QED
    BY <2>1, <2>2
<1>7. CASE VerifyAccess(r)
  <2>1. CASE /\ HasAccess(task[r].user, Cal(r))
             /\ Goto(r, IF Deletes(r) THEN "delete"
                        ELSE IF if_match[r] # None THEN "precondition" ELSE "select")
             /\ UNCHANGED answer
    <3>1. Exists(Cal(r))
      BY <2>1, StoreAssumptions DEF HasAccess, Accessible, Exists, Task
    <3>2. pc'[r] = IF Deletes(r) THEN "delete"
                   ELSE IF if_match[r] # None THEN "precondition" ELSE "select"
      BY <2>1 DEF Goto
    <3> QED
      BY <1>1, <1>2, <1>3, <1>4, <1>7, <2>1, <3>1, <3>2 DEF VerifyAccess, Knowledge, Decided
  <2>2. ASSUME NEW s, Respond(r, s, None) PROVE Knowledge(r)'
    BY <1>5, <1>7, <2>2 DEF VerifyAccess
  <2> QED
    BY <1>7, <2>1, <2>2 DEF VerifyAccess
<1>8. CASE CheckIfMatch(r) \/ LookupEvent(r)
  <2>1. CASE Goto(r, "select") /\ UNCHANGED answer
    <3>1. /\ pc'[r] = "select" /\ if_match' = if_match
          /\ pc[r] = "precondition" => ObjectByUid(Cal(r), Uid(r)) = if_match[r]
          /\ pc[r] = "lookup" => ObjectByUid(Cal(r), Uid(r)) # None
          /\ pc[r] \in {"precondition", "lookup"}
      BY <1>8, <2>1 DEF CheckIfMatch, LookupEvent, Goto, Respond
    <3> QED
      BY <1>0, <1>1, <1>2, <1>3, <1>4, <2>1, <3>1 DEF Knowledge, Decided
  <2>2. ASSUME NEW s, Respond(r, s, None) PROVE Knowledge(r)'
    BY <1>5, <1>8, <2>2 DEF CheckIfMatch, LookupEvent
  <2> QED
    BY <1>8, <2>1, <2>2 DEF CheckIfMatch, LookupEvent
<1>9. CASE SelectExisting(r)
  BY <1>0, <1>1, <1>3, <1>4, <1>9 DEF SelectExisting, Goto, Knowledge, Decided
<1>10. CASE InsertRow(r) \/ UpdateRow(r)
  <2>1. CASE /\ \/ pc[r] = "insert" /\ InsertObject(Cal(r), Uid(r), etag[r])
                \/ pc[r] = "update" /\ UpdateObject(Cal(r), Uid(r), etag[r])
             /\ Goto(r, "log") /\ UNCHANGED answer
    <3>1. pc'[r] = "log" /\ if_match' = if_match /\ etag' = etag
          /\ pc[r] \in {"insert", "update"}
      BY <1>10, <2>1 DEF InsertRow, UpdateRow, Goto
    <3>2. StoredRow(r)' = etag[r]
      BY <1>0, <1>1, <1>4, <1>10, <2>1
      DEF InsertRow, UpdateRow, InsertObject, UpdateObject, StoreTypeOK, StoredRow, Knowledge
    <3>3. Exists(Cal(r))
      BY <1>0, <1>4, <1>10, <2>1
      DEF InsertObject, CanInsertObject, InsertRow, UpdateRow, Knowledge, RowsHaveCalendars,
          StoredRow
    <3>4. etag[r] # None
      BY <3>1 DEF EtagsFresh, EtagsApart, Pending
    <3> QED
      BY <1>1, <1>4, <2>1, <3>1, <3>2, <3>3, <3>4 DEF Knowledge, Decided
  <2>2. CASE Respond(r, "500", None)
    BY <1>5, <1>10, <2>2 DEF InsertRow, UpdateRow
  <2> QED
    BY <1>10, <2>1, <2>2 DEF InsertRow, UpdateRow
<1>11. CASE DeleteRow(r)
  <2>1. CASE DeleteObject(Cal(r), Uid(r)) /\ Goto(r, "log") /\ UNCHANGED answer
    <3>1. Exists(Cal(r)) /\ Deletes(r) /\ pc'[r] = "log" /\ if_match' = if_match
      BY <1>0, <1>4, <1>11, <2>1 DEF DeleteObject, DeleteRow, Goto, RowsHaveCalendars,
         Knowledge
    <3>2. StoredRow(r)' = None
      BY <1>0, <1>1, <2>1 DEF DeleteObject, StoredRow, StoreTypeOK
    <3> QED
      BY <1>1, <1>4, <1>11, <2>1, <3>1, <3>2 DEF DeleteRow, Knowledge, Decided
  <2>2. CASE Respond(r, "404", None)
    BY <1>5, <1>11, <2>2 DEF DeleteRow
  <2> QED
    BY <1>11, <2>1, <2>2 DEF DeleteRow
<1>12. CASE LogChange(r) \/ Bump(r)
  <2>1. CASE Goto(r, IF pc[r] = "log" THEN "bump" ELSE "readback") /\ UNCHANGED answer
    BY <1>1, <1>3, <1>4, <1>12, <2>1 DEF LogChange, Bump, Respond, Goto, Knowledge, Decided
  <2>2. ASSUME NEW s, Respond(r, s, None) PROVE Knowledge(r)'
    BY <1>5, <1>12, <2>2 DEF LogChange, Bump
  <2> QED
    BY <1>12, <2>1, <2>2 DEF LogChange, Bump
<1>13. CASE ReadBack(r) \/ Fail(r)
  BY <1>5, <1>13 DEF ReadBack, Fail
<1>14. CASE Drop(r)
  BY <1>1, <1>4, <1>14 DEF Drop, Goto, Knowledge, Decided
<1> QED
  BY <1>6, <1>7, <1>8, <1>9, <1>10, <1>11, <1>12, <1>13, <1>14 DEF Handle

(* The invariant is inductive.                                             *)
LEMMA StepRefinementInvariant ==
  ASSUME RefinementInvariant, Exclusive, RequestStep
  PROVE  RefinementInvariant'
<1> PICK r \in Requests : Arrive(r) \/ Handle(r) \/ Drop(r) \/ Fail(r)
  BY DEF RequestStep
<1>1. \A q \in Requests : Knowledge(q)'
  BY SelfKnows, OthersKnow
<1>2. TypeOK' /\ EtagsFresh' /\ OneWriter' /\ RowsHaveCalendars'
  BY RequestStepType, RequestStepEtags, StepOneWriter, StepRowsHaveCalendars
  DEF RefinementInvariant
<1> QED
  BY <1>1, <1>2 DEF RefinementInvariant

(* Nothing is stored and nobody knows anything at the start.               *)
LEMMA InitRefinementInvariant == Init => RefinementInvariant
<1> SUFFICES ASSUME Init PROVE RefinementInvariant
  OBVIOUS
<1>1. TypeOK
  BY StoreInitType, RequestsInitType DEF Init, TypeOK
<1>2. EtagsFresh /\ RowsHaveCalendars
  BY <1>1 DEF Init, StoreInit, RequestsInit, EtagsFresh, EtagsBounded, EtagsApart, Pending,
     None, RowsHaveCalendars, TypeOK, StoreTypeOK
<1>3. OneWriter /\ \A r \in Requests : Knowledge(r)
  BY DEF Init, RequestsInit, OneWriter, Active, Statements, Knowledge, Decided
<1> QED
  BY <1>1, <1>2, <1>3 DEF RefinementInvariant

(* The invariant holds in every behaviour, with every fault.               *)
LEMMA RefinementInvariantHolds ==
  ASSUME Exclusive
  PROVE  Init /\ [][Next]_vars => []RefinementInvariant
<1>1. RefinementInvariant /\ [Next]_vars => RefinementInvariant'
  <2>1. ASSUME RefinementInvariant, UNCHANGED vars PROVE RefinementInvariant'
    BY <2>1 DEF vars, store, requests, RefinementInvariant, TypeOK, StoreTypeOK, RequestsTypeOK,
       EtagsFresh, EtagsBounded, EtagsApart, Pending, RowsHaveCalendars, Exists, OneWriter, Active,
       SameObject, Knowledge, StoredRow, Decided, Deletes, Mcp, Cal, Uid
  <2> QED
    BY <2>1, StepRefinementInvariant DEF Next
<1> QED
  BY <1>1, InitRefinementInvariant, PTL

----------------------------------------------------------------------------
(* The refinement *)

(* A function that changes in one place at most.                           *)
LEMMA OnePlace ==
  ASSUME NEW S, NEW f, NEW g, NEW x \in S,
         f = [y \in S |-> f[y]], g = [y \in S |-> g[y]], \A y \in S \ {x} : g[y] = f[y]
  PROVE  g = [f EXCEPT ![x] = g[x]] /\ (g[x] = f[x] => g = f)
<1>1. \A y \in S : g[y] = [f EXCEPT ![x] = g[x]][y]
  OBVIOUS
<1>2. g[x] = f[x] => \A y \in S : g[y] = f[y]
  OBVIOUS
<1> QED
  BY <1>1, <1>2

(* A step of a request changes its own progress and outcome only.          *)
LEMMA AbstractFrame ==
  ASSUME TypeOK, NEW r \in Requests, Arrive(r) \/ Handle(r)
  PROVE  /\ Progress' = [Progress EXCEPT ![r] = Progress'[r]]
         /\ Outcome' = [Outcome EXCEPT ![r] = Outcome'[r]]
         /\ Progress'[r] = Progress[r] => Progress' = Progress
         /\ Outcome'[r] = Outcome[r] => Outcome' = Outcome
<1>1. \A q \in Requests \ {r} :
          /\ Progress'[q] = Progress[q]
          /\ Outcome'[q] = Outcome[q]
  <2> SUFFICES ASSUME NEW q \in Requests \ {r}
               PROVE  Progress'[q] = Progress[q] /\ Outcome'[q] = Outcome[q]
    OBVIOUS
  <2>1. /\ pc'[q] = pc[q] /\ is_new'[q] = is_new[q] /\ etag'[q] = etag[q]
        /\ answer'[q] = answer[q] /\ task' = task
    BY StepFrame
  <2> QED
    BY <2>1 DEF Progress, Outcome, Decided, Promised, Mcp, Deletes
<1>2. /\ Progress = [q \in Requests |-> Progress[q]]
      /\ Outcome = [q \in Requests |-> Outcome[q]]
  BY DEF Progress, Outcome
<1>3. /\ Progress' = [q \in Requests |-> Progress'[q]]
      /\ Outcome' = [q \in Requests |-> Outcome'[q]]
  BY DEF Progress, Outcome
<1>4. /\ Progress' = [Progress EXCEPT ![r] = Progress'[r]]
      /\ Progress'[r] = Progress[r] => Progress' = Progress
  BY <1>1, <1>2, <1>3, OnePlace
<1>5. /\ Outcome' = [Outcome EXCEPT ![r] = Outcome'[r]]
      /\ Outcome'[r] = Outcome[r] => Outcome' = Outcome
  BY <1>1, <1>2, <1>3, OnePlace
<1> QED
  BY <1>4, <1>5

(* Where a request stands, as AtomicObjects sees it.                       *)
LEMMA ProgressOf ==
  ASSUME TypeOK, NEW r \in Requests
  PROVE  /\ pc[r] = "idle" => Progress[r] = "idle"
         /\ pc[r] = "done" => Progress[r] = "returned" /\ Outcome[r] = answer[r]
         /\ Decided(r) => Progress[r] = "decided" /\ Outcome[r] = Promised(r)
         /\ Active(r) /\ ~ Decided(r) => Progress[r] = "called" /\ Outcome[r] = answer[r]
         /\ pc[r] = "idle" => Outcome[r] = answer[r]
BY DEF Progress, Outcome, Decided, Active, Statements

(* An etag that was drawn and not stored yet is new to AtomicObjects.      *)
LEMMA PendingIsFresh ==
  ASSUME RefinementInvariant, NEW r \in Requests, Pending(r)
  PROVE  Atomic!Fresh(etag[r])
<1> USE DEF RefinementInvariant
<1>1. etag[r] # None /\ \A c \in Calendars, u \in Uids : objects[c][u] # etag[r]
  BY DEF EtagsFresh, EtagsApart
<1>2. ASSUME NEW q \in Requests PROVE Outcome[q].etag # etag[r]
  <2>0. Cal(q) \in Calendars /\ Uid(q) \in Uids
    BY DEF TypeOK, RequestsTypeOK, Task, Cal, Uid
  <2>1. CASE Decided(q)
    <3>1. Outcome[q].etag = IF Deletes(q) THEN None ELSE etag[q]
      BY <2>1 DEF Outcome, Promised
    <3>2. ~ Deletes(q) => objects[Cal(q)][Uid(q)] = etag[q]
      BY <2>1 DEF Knowledge, StoredRow
    <3> QED
      BY <1>1, <2>0, <3>1, <3>2
  <2>2. CASE ~ Decided(q)
    BY <2>2 DEF Outcome, EtagsFresh, EtagsApart
  <2> QED
    BY <2>1, <2>2
<1> QED
  BY <1>1, <1>2 DEF Atomic!Fresh
(* Every statement of a request is a step of AtomicObjects or none.        *)
LEMMA Simulation ==
  ASSUME RefinementInvariant, RefinementInvariant', NEW r \in Requests, Arrive(r) \/ Handle(r)
  PROVE  Atomic!AtomicNext \/ UNCHANGED Atomic!avars
<1> USE DEF RefinementInvariant
<1>0. /\ Cal(r) \in Calendars /\ Uid(r) \in Uids
      /\ task[r].kind \in Kinds
  BY DEF TypeOK, RequestsTypeOK, Task, Cal, Uid
<1>1. /\ Progress' = [Progress EXCEPT ![r] = Progress'[r]]
      /\ Outcome' = [Outcome EXCEPT ![r] = Outcome'[r]]
      /\ task' = task /\ owner' = owner
      /\ Cal(r)' = Cal(r) /\ Uid(r)' = Uid(r) /\ (Deletes(r)' <=> Deletes(r))
      /\ (Mcp(r)' <=> Mcp(r))
  BY AbstractFrame, StepFrame DEF Cal, Uid, Deletes, Mcp
<1>2. /\ Outcome'[r] = Outcome[r] => Outcome' = Outcome
      /\ Progress'[r] = Progress[r] => Progress' = Progress
  BY AbstractFrame
<1>3. /\ Atomic!Row(r) = StoredRow(r)
      /\ Atomic!Removes(r) <=> Deletes(r)
      /\ \A st : Atomic!Named(r, st) = IF ~ Mcp(r) THEN st
                                       ELSE IF st \in {"201", "204"} THEN "ok" ELSE "error"
  BY <1>0 DEF Atomic!Row, Atomic!Removes, Atomic!Named, StoredRow, Cal, Uid, Deletes, Mcp, Kinds
<1>4. ASSUME Active(r), ~ Decided(r), Active(r)', ~ Decided(r)', UNCHANGED <<objects, if_match, answer>>
      PROVE  UNCHANGED Atomic!avars
  <2>1. Progress'[r] = Progress[r] /\ Outcome'[r] = Outcome[r]
    BY <1>4, ProgressOf DEF Progress, Outcome, Active, Statements
  <2> QED
    BY <1>1, <1>2, <1>4, <2>1 DEF Atomic!avars
<1>5. ASSUME NEW st, Active(r), ~ Decided(r), Respond(r, st, None), UNCHANGED <<objects, if_match>>,
             \/ st = "412" /\ if_match[r] \notin {None, StoredRow(r)}
             \/ st = "404" /\ (Deletes(r) \/ task[r].kind = "update_event") /\ StoredRow(r) = None
             \/ st = "403"
             \/ st = "400" /\ task[r].kind = "PUT"
             \/ st = "500" /\ Mcp(r)
      PROVE  Atomic!Reject(r)
  <2>1. pc'[r] = "done" /\ answer'[r] = [status |-> Atomic!Named(r, st), etag |-> None]
    BY <1>3, <1>5 DEF Respond, Goto, TypeOK, RequestsTypeOK
  <2>2. Progress[r] = "called" /\ Progress'[r] = "returned" /\ Outcome'[r] = answer'[r]
    BY <1>5, <2>1, ProgressOf DEF Progress, Outcome, Decided
  <2>3. st = "500" => Atomic!Named(r, st) = Atomic!Named(r, "403")
    BY <1>3, <1>5
  <2>4. \E s \in {st, "403"} :
          /\ Outcome'[r] = [status |-> Atomic!Named(r, s), etag |-> None]
          /\ s = "500" => FALSE
          /\ s # st => s = "403"
    BY <2>1, <2>2, <2>3
  <2>5. \E s \in {"412", "404", "403", "400"} :
          /\ Atomic!Results(r, s, None)
          /\ s = "412" => if_match[r] \notin {None, StoredRow(r)}
          /\ s = "404" => (Deletes(r) \/ task[r].kind = "update_event") /\ StoredRow(r) = None
          /\ s = "400" => task[r].kind = "PUT"
    BY <1>1, <1>5, <2>4 DEF Atomic!Results
  <2> QED
    BY <1>1, <1>3, <1>5, <2>2, <2>5 DEF Atomic!Reject, Atomic!Enter
<1>6. CASE Arrive(r)
  <2>1. /\ pc[r] = "idle" /\ Active(r)' /\ ~ Decided(r)'
    BY <1>0, <1>6 DEF Arrive, Goto, Active, Decided, Statements, Kinds, TypeOK, RequestsTypeOK
  <2>2. /\ Progress[r] = "idle" /\ Progress'[r] = "called" /\ Outcome'[r] = Outcome[r]
    BY <1>6, <2>1, ProgressOf DEF Progress, Outcome, Decided, Active, Statements, Arrive
  <2>3. objects' = objects /\ if_match' = [if_match EXCEPT ![r] = if_match'[r]]
    BY <1>6 DEF Arrive, store, TypeOK, RequestsTypeOK
  <2> QED
    BY <1>1, <1>2, <2>2, <2>3 DEF Atomic!AtomicNext, Atomic!Call, Atomic!Enter
<1>7. CASE VerifyAccess(r)
  <2>1. Active(r) /\ ~ Decided(r) /\ UNCHANGED <<objects, if_match>>
    BY <1>7 DEF VerifyAccess, Active, Decided, Statements, store
  <2>2. CASE /\ Goto(r, IF Deletes(r) THEN "delete"
                        ELSE IF if_match[r] # None THEN "precondition" ELSE "select")
             /\ UNCHANGED answer
    <3>1. Active(r)' /\ ~ Decided(r)'
      BY <2>2 DEF Goto, Active, Decided, Statements, TypeOK, RequestsTypeOK
    <3> QED
      BY <1>4, <2>1, <2>2, <3>1
  <2>3. CASE task[r].kind = "PUT" /\ Respond(r, "400", None)
    BY <1>5, <2>1, <2>3 DEF Atomic!AtomicNext
  <2>4. CASE Respond(r, "403", None)
    BY <1>5, <2>1, <2>4 DEF Atomic!AtomicNext
  <2> QED
    BY <1>7, <2>2, <2>3, <2>4 DEF VerifyAccess
<1>8. CASE CheckIfMatch(r) \/ LookupEvent(r)
  <2>1. Active(r) /\ ~ Decided(r) /\ UNCHANGED <<objects, if_match>>
    BY <1>8 DEF CheckIfMatch, LookupEvent, Active, Decided, Statements, store
  <2>2. CASE Goto(r, "select") /\ UNCHANGED answer
    <3>1. Active(r)' /\ ~ Decided(r)'
      BY <2>2 DEF Goto, Active, Decided, Statements, TypeOK, RequestsTypeOK
    <3> QED
      BY <1>4, <2>1, <2>2, <3>1
  <2>3. CASE pc[r] = "precondition" /\ StoredRow(r) # if_match[r] /\ Respond(r, "412", None)
    <3>1. if_match[r] # None
      BY <2>3 DEF Knowledge
    <3> QED
      BY <1>5, <2>1, <2>3, <3>1 DEF Atomic!AtomicNext
  <2>4. CASE pc[r] = "lookup" /\ StoredRow(r) = None /\ Respond(r, "404", None)
    <3>1. task[r].kind = "update_event"
      BY <2>4 DEF Knowledge
    <3> QED
      BY <1>5, <2>1, <2>4, <3>1 DEF Atomic!AtomicNext
  <2> QED
    BY <1>8, <2>2, <2>3, <2>4 DEF CheckIfMatch, LookupEvent, ObjectByUid, StoredRow
<1>9. CASE SelectExisting(r)
  BY <1>4, <1>9 DEF SelectExisting, Goto, Active, Decided, Statements, TypeOK, RequestsTypeOK
<1>10. CASE InsertRow(r) \/ UpdateRow(r)
  <2>1. Active(r) /\ ~ Decided(r) /\ Pending(r) /\ if_match' = if_match /\ etag' = etag
        /\ is_new' = is_new
    BY <1>10 DEF InsertRow, UpdateRow, Active, Decided, Statements, Pending
  <2>2. CASE /\ \/ pc[r] = "insert" /\ InsertObject(Cal(r), Uid(r), etag[r])
                \/ pc[r] = "update" /\ UpdateObject(Cal(r), Uid(r), etag[r])
             /\ Goto(r, "log")
    <3>1. ~ Deletes(r)
      BY <2>1 DEF Knowledge, Pending
    <3>2. pc'[r] = "log" /\ Decided(r)'
      BY <2>2 DEF Goto, Decided, TypeOK, RequestsTypeOK
    <3>3. objects' = [objects EXCEPT ![Cal(r)][Uid(r)] = etag[r]]
      BY <1>0, <2>2 DEF InsertObject, UpdateObject, Knowledge, StoredRow, TypeOK, StoreTypeOK
    <3>4. objects'[Cal(r)][Uid(r)] = etag[r]
      BY <1>0, <3>3 DEF TypeOK, StoreTypeOK
    <3>5. /\ if_match[r] \in {None, StoredRow(r)}
          /\ task[r].kind = "update_event" => StoredRow(r) # None
          /\ is_new[r] <=> StoredRow(r) = None
      BY <2>2 DEF Knowledge
    <3>6. /\ Progress[r] = "called" /\ Progress'[r] = "decided"
          /\ Outcome'[r] = [status |-> Atomic!Named(r, IF StoredRow(r) = None THEN "201" ELSE "204"),
                            etag |-> etag[r]]
      <4>1. Outcome'[r] = Promised(r)' /\ Progress'[r] = "decided"
        BY <3>2 DEF Outcome, Progress, Decided
      <4>2. Promised(r)' = [status |-> Atomic!Named(r, IF StoredRow(r) = None THEN "201" ELSE "204"),
                            etag |-> etag[r]]
        BY <1>1, <1>3, <2>1, <3>1, <3>5 DEF Promised
      <4> QED
        BY <2>1, <4>1, <4>2, ProgressOf
    <3>7. Atomic!Fresh(etag[r])
      BY <2>1, PendingIsFresh
    <3>8. Atomic!Write(r)
      BY <1>1, <1>3, <2>1, <3>1, <3>3, <3>4, <3>5, <3>6, <3>7
      DEF Atomic!Write, Atomic!Results, Atomic!Enter, Cal, Uid
    <3> QED
      BY <3>8 DEF Atomic!AtomicNext
  <2>3. CASE pc[r] = "insert" /\ ~ CanInsertObject(Cal(r), Uid(r)) /\ Respond(r, "500", None)
             /\ UNCHANGED store
    <3>1. Mcp(r)
      BY <2>3 DEF CanInsertObject, Knowledge, StoredRow
    <3> QED
      BY <1>5, <2>1, <2>3, <3>1 DEF Atomic!AtomicNext, store
  <2> QED
    BY <1>10, <2>2, <2>3 DEF InsertRow, UpdateRow
<1>11. CASE DeleteRow(r)
  <2>1. Active(r) /\ ~ Decided(r) /\ if_match' = if_match /\ Deletes(r) /\ etag' = etag
    BY <1>11 DEF DeleteRow, Active, Decided, Statements, Knowledge
  <2>2. CASE DeleteObject(Cal(r), Uid(r)) /\ Goto(r, "log")
    <3>1. pc'[r] = "log" /\ Decided(r)'
      BY <2>2 DEF Goto, Decided, TypeOK, RequestsTypeOK
    <3>2. objects' = [objects EXCEPT ![Cal(r)][Uid(r)] = None] /\ StoredRow(r) # None
      BY <2>2 DEF DeleteObject, StoredRow
    <3>3. /\ Progress[r] = "called" /\ Progress'[r] = "decided"
          /\ Outcome'[r] = [status |-> Atomic!Named(r, "204"), etag |-> None]
      <4>1. Outcome'[r] = Promised(r)' /\ Progress'[r] = "decided"
        BY <3>1 DEF Outcome, Progress, Decided
      <4>2. Promised(r)' = [status |-> Atomic!Named(r, "204"), etag |-> None]
        BY <1>1, <1>3, <2>1 DEF Promised
      <4> QED
        BY <2>1, <4>1, <4>2, ProgressOf
    <3>4. Atomic!Remove(r)
      BY <1>1, <1>3, <2>1, <3>2, <3>3 DEF Atomic!Remove, Atomic!Results, Atomic!Enter, Cal, Uid
    <3> QED
      BY <3>4 DEF Atomic!AtomicNext
  <2>3. CASE StoredRow(r) = None /\ Respond(r, "404", None) /\ UNCHANGED store
    BY <1>5, <2>1, <2>3 DEF Atomic!AtomicNext, store
  <2> QED
    BY <1>11, <2>2, <2>3 DEF DeleteRow, ObjectByUid, StoredRow
<1>12. CASE LogChange(r) \/ Bump(r) \/ ReadBack(r)
  <2>1. /\ Decided(r) /\ Exists(Cal(r))
        /\ UNCHANGED <<objects, if_match, etag, is_new>>
        /\ ~ Deletes(r) => StoredRow(r) = etag[r] /\ etag[r] # None
    BY <1>12 DEF LogChange, Bump, ReadBack, Decided, LogSyncChange, BumpCtag, store, Knowledge
  <2>2. Progress[r] = "decided" /\ Outcome[r] = Promised(r) /\ Promised(r)' = Promised(r)
    BY <1>1, <2>1, ProgressOf DEF Promised
  <2>3. CASE pc'[r] # "done"
    <3>1. Decided(r)'
      BY <1>12, <2>1, <2>3
      DEF LogChange, Bump, ReadBack, Respond, Goto, Decided, TypeOK, RequestsTypeOK
    <3>2. Progress'[r] = "decided" /\ Outcome'[r] = Promised(r)'
      BY <3>1 DEF Progress, Outcome, Decided
    <3> QED
      BY <1>1, <1>2, <2>1, <2>2, <3>2 DEF Atomic!avars
  <2>4. CASE pc'[r] = "done"
    <3>1. answer'[r] = Promised(r)
      <4>1. CASE LogChange(r)
        BY <2>1, <2>4, <4>1 DEF LogChange, Goto, TypeOK, RequestsTypeOK
      <4>2. CASE Bump(r)
        BY <2>4, <4>2 DEF Bump, Respond, Goto, TypeOK, RequestsTypeOK, Promised
      <4>3. CASE ReadBack(r) /\ Deletes(r)
        BY <4>3 DEF Knowledge, ReadBack
      <4>4. CASE ReadBack(r) /\ ~ Deletes(r)
        BY <2>1, <4>4
        DEF ReadBack, Respond, TypeOK, RequestsTypeOK, Promised, StoredRow, ObjectByUid
      <4> QED
        BY <1>12, <4>1, <4>2, <4>3, <4>4
    <3>2. Progress'[r] = "returned" /\ Outcome'[r] = Outcome[r]
      BY <2>2, <2>4, <3>1 DEF Progress, Outcome, Decided
    <3> QED
      BY <1>1, <1>2, <2>1, <2>2, <3>2 DEF Atomic!AtomicNext, Atomic!Return, Atomic!Enter
  <2> QED
    BY <2>3, <2>4
<1> QED
  BY <1>6, <1>7, <1>8, <1>9, <1>10, <1>11, <1>12 DEF Handle

(* Clients that take turns on an object see atomic operations: the         *)
(* If-Match comparison, the SELECT of upsert_object, the row write and the *)
(* answer of each request are as if done in one instant, for any number of *)
(* requests of all five kinds on any number of objects, as long as no      *)
(* handler is cut off.                                                     *)
THEOREM Atomicity ==
  ASSUME Exclusive
  PROVE  UndisturbedSpec => ImplementsAtomicObjects
<1>1. Init => Atomic!AtomicInit
  BY DEF Init, StoreInit, RequestsInit, Atomic!AtomicInit, Atomic!NoResult, Progress, Outcome,
     Decided
<1>2. RefinementInvariant /\ RefinementInvariant' /\ [UndisturbedStep]_vars
        => [Atomic!AtomicNext]_(Atomic!avars)
  <2>1. ASSUME UNCHANGED vars PROVE UNCHANGED Atomic!avars
    BY <2>1 DEF vars, store, requests, Atomic!avars, Progress, Outcome, Decided, Promised, Mcp,
       Deletes
  <2> QED
    BY <2>1, Simulation DEF UndisturbedStep
<1>3. [UndisturbedStep]_vars => [Next]_vars
  BY DEF UndisturbedStep, Next, RequestStep
<1> QED
  BY <1>1, <1>2, <1>3, RefinementInvariantHolds, PTL
  DEF UndisturbedSpec, ImplementsAtomicObjects, Atomic!AtomicSpec

----------------------------------------------------------------------------
(* The change log of clients that take turns *)

(* The last entry of an object is no deletion.                             *)
LoggedPresent(c, u) ==
    \E i \in DOMAIN sync_changes[c] :
        /\ sync_changes[c][i].uid = u /\ sync_changes[c][i].change # "deleted"
        /\ \A j \in DOMAIN sync_changes[c] : sync_changes[c][j].uid = u => j <= i

LogFollowsRows ==
    \A c \in Calendars, u \in Uids :
        Writing(c, u) = {} => (objects[c][u] # None <=> LoggedPresent(c, u))

(* A new entry is its object's last one, and nobody else's.                *)
LEMMA AppendedIsLast ==
  ASSUME StoreTypeOK, NEW c \in Calendars, NEW u \in Uids, NEW t \in ChangeType,
         LogSyncChange(c, u, t)
  PROVE  /\ LoggedPresent(c, u)' <=> t # "deleted"
         /\ \A d \in Calendars, v \in Uids :
                d # c \/ v # u => (LoggedPresent(d, v)' <=> LoggedPresent(d, v))
<1> DEFINE entry == [uid |-> u, change |-> t, token |-> issued + 1]
           old == sync_changes[c]
           new == sync_changes'[c]
<1>1. new = Append(old, entry) /\ old \in Seq(Change) /\ entry \in Change
      /\ entry.uid = u /\ entry.change = t
  BY NewChangeType DEF LogSyncChange, StoreTypeOK
<1> HIDE DEF entry, old, new
<1>2. /\ DOMAIN old = 1 .. Len(old) /\ Len(old) \in Nat
      /\ DOMAIN new = 1 .. Len(old) + 1
      /\ new[Len(old) + 1] = entry
      /\ \A i \in 1 .. Len(old) : new[i] = old[i]
  BY <1>1
<1>3. (\E i \in DOMAIN new : /\ new[i].uid = u /\ new[i].change # "deleted"
                             /\ \A j \in DOMAIN new : new[j].uid = u => j <= i)
      <=> t # "deleted"
  <2>1. ASSUME NEW i \in DOMAIN new, \A j \in DOMAIN new : new[j].uid = u => j <= i
        PROVE  i = Len(old) + 1
    BY <1>1, <1>2, <2>1
  <2>2. \A j \in DOMAIN new : j <= Len(old) + 1
    BY <1>2
  <2> QED
    BY <1>1, <1>2, <2>1, <2>2
<1>4. ASSUME NEW v \in Uids, v # u
      PROVE  (\E i \in DOMAIN new : /\ new[i].uid = v /\ new[i].change # "deleted"
                                    /\ \A j \in DOMAIN new : new[j].uid = v => j <= i)
             <=> (\E i \in DOMAIN old : /\ old[i].uid = v /\ old[i].change # "deleted"
                                        /\ \A j \in DOMAIN old : old[j].uid = v => j <= i)
  <2>1. \A i \in DOMAIN new : new[i].uid = v <=> i \in DOMAIN old /\ old[i].uid = v
    BY <1>1, <1>2, <1>4
  <2> QED
    BY <1>2, <2>1
<1>5. \A d \in Calendars : d # c => sync_changes'[d] = sync_changes[d]
  BY DEF LogSyncChange, StoreTypeOK
<1> QED
  BY <1>3, <1>4, <1>5 DEF LoggedPresent, old, new

(* Without faults every row write of a request is followed by its entry    *)
(* before another request writes the row.                                  *)
LEMMA StepLogFollows ==
  ASSUME RefinementInvariant, RefinementInvariant', LogFollowsRows,
         NEW r \in Requests, Arrive(r) \/ Handle(r)
  PROVE  LogFollowsRows'
<1> SUFFICES ASSUME NEW c \in Calendars, NEW u \in Uids, Writing(c, u)' = {}
             PROVE  objects'[c][u] # None <=> LoggedPresent(c, u)'
  BY DEF LogFollowsRows
<1> USE DEF RefinementInvariant
<1>0. /\ TypeOK /\ StoreTypeOK /\ Cal(r) \in Calendars /\ Uid(r) \in Uids
      /\ ChangeOf(r) \in ChangeType /\ (ChangeOf(r) = "deleted" <=> Deletes(r))
  BY DEF TypeOK, RequestsTypeOK, Task, Cal, Uid, ChangeOf, ChangeType
<1>1. \A q \in Requests : Cal(q)' = Cal(q) /\ Uid(q)' = Uid(q)
  BY StepFrame DEF Cal, Uid
<1>2. \A q \in Requests \ {r} : pc'[q] = pc[q]
  BY StepFrame
<1>3. CASE c = Cal(r) /\ u = Uid(r) /\ pc[r] = "log"
  <2>1. Exists(Cal(r)) /\ (objects[c][u] # None <=> ~ Deletes(r))
    BY <1>3 DEF Knowledge, Decided, StoredRow
  <2>2. LogSyncChange(Cal(r), Uid(r), ChangeOf(r))
    BY <1>3, <2>1 DEF Arrive, Handle, VerifyAccess, CheckIfMatch, LookupEvent, SelectExisting,
       InsertRow, UpdateRow, DeleteRow, LogChange, Bump, ReadBack
  <2>3. objects' = objects
    BY <2>2 DEF LogSyncChange
  <2> QED
    BY <1>0, <1>3, <2>1, <2>2, <2>3, AppendedIsLast
<1>4. CASE c = Cal(r) /\ u = Uid(r) /\ pc[r] # "log"
  <2>1. Writing(c, u) = {}
    BY <1>1, <1>2, <1>4 DEF Writing
  <2>2. pc'[r] # "log"
    BY <1>1, <1>4 DEF Writing
  <2>3. objects'[c][u] = objects[c][u] /\ sync_changes' = sync_changes
    <3>1. sync_changes' = sync_changes
      BY <1>4, StepFrame
    <3>2. CASE pc[r] \in {"insert", "update", "delete"}
      BY <2>2, <3>2 DEF Arrive, Handle, VerifyAccess, CheckIfMatch, LookupEvent, SelectExisting,
         InsertRow, UpdateRow, DeleteRow, LogChange, Bump, ReadBack, Goto, store, TypeOK,
         RequestsTypeOK
    <3>3. CASE pc[r] \notin {"insert", "update", "delete"}
      BY <3>1, <3>3, StepFrame
    <3> QED
      BY <3>1, <3>2, <3>3
  <2> QED
    BY <2>1, <2>3 DEF LogFollowsRows, LoggedPresent
<1>5. CASE c # Cal(r) \/ u # Uid(r)
  <2>1. Writing(c, u) = {}
    BY <1>1, <1>2, <1>5 DEF Writing
  <2>2. objects'[c][u] = objects[c][u]
    BY <1>5, StepFrame
  <2>3. LoggedPresent(c, u)' <=> LoggedPresent(c, u)
    <3>1. CASE sync_changes' = sync_changes
      BY <3>1 DEF LoggedPresent
    <3>2. CASE LogSyncChange(Cal(r), Uid(r), ChangeOf(r))
      BY <1>0, <1>5, <3>2, AppendedIsLast
    <3>3. sync_changes' = sync_changes \/ LogSyncChange(Cal(r), Uid(r), ChangeOf(r))
      BY StepFrame DEF Arrive, Handle, VerifyAccess, CheckIfMatch, LookupEvent, SelectExisting,
         InsertRow, UpdateRow, DeleteRow, LogChange, Bump, ReadBack, store
    <3> QED
      BY <3>1, <3>2, <3>3
  <2> QED
    BY <2>1, <2>2, <2>3 DEF LogFollowsRows
<1> QED
  BY <1>3, <1>4, <1>5

(* LastChange is the last entry of an object that has one.                 *)
LEMMA LastChangeIsLast ==
  ASSUME StoreTypeOK, NEW c \in Calendars, NEW u \in Uids,
         \E i \in DOMAIN sync_changes[c] : sync_changes[c][i].uid = u
  PROVE  /\ LastChange(c, u) \in DOMAIN sync_changes[c]
         /\ sync_changes[c][LastChange(c, u)].uid = u
         /\ \A j \in DOMAIN sync_changes[c] :
                sync_changes[c][j].uid = u => j <= LastChange(c, u)
<1> DEFINE indices == {i \in DOMAIN sync_changes[c] : sync_changes[c][i].uid = u}
<1>1. indices \subseteq 1 .. Len(sync_changes[c]) /\ indices # {} /\ Len(sync_changes[c]) \in Nat
  BY DEF StoreTypeOK
<1>2. PICK i \in indices : \A j \in indices : j <= i
  BY <1>1, LastIndex
<1> QED
  BY <1>2 DEF LastChange

(* For clients that take turns on an object, the change log ends for an    *)
(* object in "deleted", or has nothing, exactly when its row is absent,    *)
(* once the request that wrote the row has logged it.                      *)
THEOREM LogAgreement ==
  ASSUME Exclusive
  PROVE  UndisturbedSpec => []LogAgreesWithRows
<1>1. Init => LogFollowsRows
  BY DEF Init, StoreInit, LogFollowsRows, LoggedPresent
<1>2. RefinementInvariant /\ RefinementInvariant' /\ LogFollowsRows /\ [UndisturbedStep]_vars
        => LogFollowsRows'
  <2>1. ASSUME UNCHANGED vars, LogFollowsRows PROVE LogFollowsRows'
    BY <2>1 DEF vars, store, requests, LogFollowsRows, LoggedPresent, Writing, Cal, Uid
  <2> QED
    BY <2>1, StepLogFollows DEF UndisturbedStep
<1>3. RefinementInvariant /\ LogFollowsRows => LogAgreesWithRows
  <2> SUFFICES ASSUME RefinementInvariant, LogFollowsRows, NEW c \in Calendars, NEW u \in Uids,
                      Writing(c, u) = {}
               PROVE  (objects[c][u] # None) <=>
                          /\ \E i \in DOMAIN sync_changes[c] : sync_changes[c][i].uid = u
                          /\ sync_changes[c][LastChange(c, u)].change # "deleted"
    BY DEF LogAgreesWithRows
  <2>1. objects[c][u] # None <=> LoggedPresent(c, u)
    BY DEF LogFollowsRows
  <2>2. CASE ~ \E i \in DOMAIN sync_changes[c] : sync_changes[c][i].uid = u
    BY <2>1, <2>2 DEF LoggedPresent
  <2>3. CASE \E i \in DOMAIN sync_changes[c] : sync_changes[c][i].uid = u
    <3>1. /\ LastChange(c, u) \in DOMAIN sync_changes[c]
          /\ sync_changes[c][LastChange(c, u)].uid = u
          /\ \A j \in DOMAIN sync_changes[c] :
                 sync_changes[c][j].uid = u => j <= LastChange(c, u)
      BY <2>3, LastChangeIsLast DEF RefinementInvariant, TypeOK
    <3>2. DOMAIN sync_changes[c] \subseteq Nat
      BY DEF RefinementInvariant, TypeOK, StoreTypeOK
    <3>3. ASSUME NEW i \in DOMAIN sync_changes[c], sync_changes[c][i].uid = u,
                 \A j \in DOMAIN sync_changes[c] : sync_changes[c][j].uid = u => j <= i
          PROVE  i = LastChange(c, u)
      BY <3>1, <3>2, <3>3
    <3> QED
      BY <2>1, <2>3, <3>1, <3>3 DEF LoggedPresent
  <2> QED
    BY <2>2, <2>3
<1>4. [UndisturbedStep]_vars => [Next]_vars
  BY DEF UndisturbedStep, Next, RequestStep
<1> QED
  BY <1>1, <1>2, <1>3, <1>4, RefinementInvariantHolds, PTL DEF UndisturbedSpec

=============================================================================
