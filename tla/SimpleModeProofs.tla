-------------------------- MODULE SimpleModeProofs --------------------------
(***************************************************************************)
(* Proofs about simple mode: calls that do not overlap all work on one     *)
(* calendar of their user, for any number of calls, users and calendars.   *)
(***************************************************************************)
EXTENDS SimpleMode, ObjectRequestsProofs

(* Under Exclusive, one call at a time is under way.                       *)
UnderWay(r) == resolve[r] # "no" /\ pc[r] # "done"

OneCall == \A r, q \in Requests : UnderWay(r) /\ UnderWay(q) => r = q

(* Nothing in simple mode shares a calendar.                               *)
NobodyShares == \A c \in Calendars : shares[c] = {}

Owned(u) == {c \in Calendars : owner[c] = u}

(* A user who owns a default calendar owns no other.                       *)
DefaultsAlone ==
    \A c \in Defaults, d \in Calendars :
        owner[c] # NoUser /\ owner[c] = owner[d] => c = d

(* A call's handler starts when its calendar is resolved, and goes the way *)
(* of its kind.                                                            *)
CallsFit ==
    \A r \in Requests :
        /\ resolve[r] # "yes" => pc[r] = "idle"
        /\ r \in Listing => pc[r] \in {"idle", "done"}
        /\ pc[r] = "delete" => Deletes(r)
        /\ pc[r] \in {"insert", "update"} => etag[r] # None
        /\ answer[r].status # "none" => pc[r] = "done"

(* While a call is about to create a calendar its user has none; from then *)
(* on, as for a call that found one, its calendar stays the first.         *)
Resolution ==
    \A r \in Requests :
        /\ resolve[r] = "create" => Owned(task[r].user) = {}
        /\ resolve[r] \in {"readback", "yes"} => First(task[r].user, Cal(r))

Undeleted(u) == \A d \in Requests \ Listing : Deletes(d) => Uid(d) # u

(* What add_event confirmed is stored, if no call deletes it.              *)
AddedIsStored ==
    \A r \in Requests :
        Confirmed(r) /\ ~ Deletes(r) /\ Undeleted(Uid(r)) =>
            objects[Cal(r)][Uid(r)] # None

SimpleInvariant ==
    /\ OneCall
    /\ NobodyShares
    /\ DefaultsAlone
    /\ CallsFit
    /\ Resolution
    /\ AddedIsStored

----------------------------------------------------------------------------
(* What a user can access is what the user owns.                           *)
LEMMA AccessIsOwnership ==
  ASSUME NobodyShares, NEW u \in Users
  PROVE  Accessible(u) = Owned(u)
BY DEF NobodyShares, Accessible, Owned

(* The initial state satisfies the invariant.                              *)
LEMMA SimpleInitially == SimpleInit => SimpleTypeOK /\ SimpleInvariant
<1> SUFFICES ASSUME SimpleInit PROVE SimpleTypeOK /\ SimpleInvariant
  OBVIOUS
<1>1. SimpleTypeOK
  BY StoreInitType, RequestsInitType DEF SimpleInit, Init, SimpleTypeOK, TypeOK, Listed
<1>2. NobodyShares /\ DefaultsAlone
  BY SimpleAssumptions DEF SimpleInit, Init, StoreInit, NobodyShares, DefaultsAlone
<1>3. OneCall /\ Resolution
  BY DEF SimpleInit, OneCall, UnderWay, Resolution
<1>4. CallsFit /\ AddedIsStored
  BY DEF SimpleInit, Init, RequestsInit, CallsFit, AddedIsStored, Confirmed
<1> QED
  BY <1>1, <1>2, <1>3, <1>4 DEF SimpleInvariant

(* Resolving a call's calendar keeps the types.                            *)
LEMMA ResolvedType ==
  ASSUME SimpleTypeOK, NEW r \in Requests, NEW c \in Calendars, Resolved(r, c)
  PROVE  RequestsTypeOK' /\ resolve' \in [Requests -> {"no", "list", "create", "readback", "yes"}]
         /\ listed' \in [Requests -> Listed]
<1> USE DEF SimpleTypeOK, TypeOK, RequestsTypeOK
<1>1. task' \in [Requests -> Task]
  BY DEF Resolved, Task
<1>2. None \in Nat /\ "204" \in Statuses
  BY DEF None, Statuses
<1>3. /\ pc' \in [Requests -> Statements \cup {"idle", "done"}]
      /\ answer' \in [Requests -> [status : Statuses, etag : Nat]]
  BY <1>2, RespondType DEF Resolved, Goto, Statements
<1>4. ASSUME ListEvents(r, c) PROVE listed' \in [Requests -> Listed]
  <2>1. PICK ranged \in BOOLEAN, n \in Limits, us \in SUBSET StoredIn(c) :
           listed' = [listed EXCEPT ![r] = [uids |-> us, ranged |-> ranged, limit |-> n]]
    BY <1>4 DEF ListEvents
  <2>2. [uids |-> us, ranged |-> ranged, limit |-> n] \in Listed
    BY SimpleAssumptions DEF Listed, StoredIn
  <2>3. listed \in [Requests -> Listed]
    OBVIOUS
  <2> QED
    BY <2>1, <2>2, <2>3, Zenon
<1>5. listed' \in [Requests -> Listed]
  BY <1>4 DEF Resolved
<1> QED
  BY <1>1, <1>3, <1>5 DEF Resolved, Step

(* Every step keeps the types.                                             *)
LEMMA SimpleStepType ==
  ASSUME SimpleTypeOK, NEW r \in Requests,
         \/ Call(r) \/ ListCalendars(r) \/ CreateDefault(r) \/ ReadDefault(r)
         \/ Handle(r) /\ UNCHANGED <<resolve, listed>>
  PROVE  SimpleTypeOK'
<1> USE DEF SimpleTypeOK
<1>1. CASE Call(r)
  BY <1>1 DEF Call, Step, TypeOK, StoreTypeOK, RequestsTypeOK, store, requests
<1>2. CASE ListCalendars(r)
  <2>1. StoreTypeOK'
    BY <1>2 DEF ListCalendars, TypeOK, StoreTypeOK, store
  <2>2. CASE \E c \in Calendars : Resolved(r, c)
    BY <2>1, <2>2, ResolvedType DEF TypeOK
  <2>3. CASE Step(r, "create") /\ UNCHANGED <<requests, listed>>
    BY <2>1, <2>3 DEF Step, TypeOK, RequestsTypeOK, requests
  <2> QED
    BY <1>2, <2>2, <2>3 DEF ListCalendars
<1>3. CASE CreateDefault(r)
  <2>1. PICK c \in Defaults : InsertCalendar(c, task[r].user)
                              /\ task' = [task EXCEPT ![r].calendar = c]
    BY <1>3 DEF CreateDefault
  <2>2. c \in Calendars /\ task[r] \in Task /\ task[r].user \in Users
    BY SimpleAssumptions DEF TypeOK, RequestsTypeOK, Task
  <2>3. StoreTypeOK'
    BY <2>1, <2>2 DEF InsertCalendar, TypeOK, StoreTypeOK
  <2>4. task' \in [Requests -> Task]
    BY <2>1, <2>2 DEF TypeOK, RequestsTypeOK, Task
  <2> QED
    BY <1>3, <2>3, <2>4 DEF CreateDefault, Step, TypeOK, RequestsTypeOK
<1>4. CASE ReadDefault(r)
  <2>1. StoreTypeOK' /\ Cal(r) \in Calendars
    BY <1>4 DEF ReadDefault, TypeOK, StoreTypeOK, RequestsTypeOK, Task, Cal, store
  <2> QED
    BY <1>4, <2>1, ResolvedType DEF ReadDefault, TypeOK
<1>5. CASE Handle(r) /\ UNCHANGED <<resolve, listed>>
  <2>1. RequestStep
    BY <1>5 DEF RequestStep
  <2> QED
    BY <1>5, <2>1, RequestStepType
<1> QED
  BY <1>1, <1>2, <1>3, <1>4, <1>5

----------------------------------------------------------------------------
(* A call that arrives waits for the one under way.                        *)
LEMMA CallKeeps ==
  ASSUME Exclusive, SimpleTypeOK, SimpleInvariant, NEW r \in Requests, Call(r)
  PROVE  SimpleInvariant'
<1> USE DEF SimpleTypeOK
<1>0. /\ resolve[r] = "no" /\ resolve' = [resolve EXCEPT ![r] = "list"]
      /\ UNCHANGED <<store, requests, listed>>
      /\ \A q \in Requests : resolve[q] = "no" \/ pc[q] = "done"
  BY DEF Call, Step
<1>1. OneCall'
  BY <1>0 DEF OneCall, UnderWay, requests
<1>2. (NobodyShares /\ DefaultsAlone)'
  BY <1>0 DEF SimpleInvariant, NobodyShares, DefaultsAlone, store
<1>3. CallsFit'
  BY <1>0 DEF SimpleInvariant, CallsFit, Deletes, requests
<1>4. Resolution'
  BY <1>0 DEF SimpleInvariant, Resolution, First, Owned, Accessible, Exists, Cal, store, requests
<1>5. AddedIsStored'
  BY <1>0 DEF SimpleInvariant, AddedIsStored, Undeleted, Confirmed, Deletes, Cal, Uid, store, requests
<1> QED
  BY <1>1, <1>2, <1>3, <1>4, <1>5 DEF SimpleInvariant

(* A call that goes on with its user's first calendar.                     *)
LEMMA ResolvedKeeps ==
  ASSUME SimpleTypeOK, SimpleInvariant, NEW r \in Requests, NEW c \in Calendars,
         resolve[r] \in {"list", "readback"}, First(task[r].user, c),
         Resolved(r, c), UNCHANGED store
  PROVE  SimpleInvariant'
<1> USE DEF SimpleTypeOK
<1>0. /\ resolve' = [resolve EXCEPT ![r] = "yes"]
      /\ task' = [task EXCEPT ![r].calendar = c]
      /\ UNCHANGED <<if_match, is_new, etag>>
  BY DEF Resolved, Step
<1>1. \A q \in Requests \ {r} : pc'[q] = pc[q] /\ answer'[q] = answer[q] /\ task'[q] = task[q]
                                /\ resolve'[q] = resolve[q]
  BY <1>0 DEF Resolved, Goto, Respond, TypeOK, RequestsTypeOK
<1>2. /\ task'[r].kind = task[r].kind /\ task'[r].user = task[r].user
      /\ task'[r].uid = task[r].uid /\ task'[r].calendar = c
      /\ resolve'[r] = "yes" /\ pc[r] = "idle" /\ answer[r].status = "none"
  BY <1>0 DEF TypeOK, RequestsTypeOK, Task, SimpleInvariant, CallsFit
<1>3. /\ r \in Listing => pc'[r] = "done"
      /\ r \notin Listing => /\ pc'[r] = IF Deletes(r) THEN "delete" ELSE "select"
                             /\ answer' = answer
  BY DEF Resolved, Goto, Respond, TypeOK, RequestsTypeOK
<1>4. \A q \in Requests : (Deletes(q)' <=> Deletes(q)) /\ Uid(q)' = Uid(q)
  BY <1>1, <1>2 DEF Deletes, Uid
<1>5. OneCall'
  BY <1>0, <1>1, <1>2 DEF SimpleInvariant, OneCall, UnderWay
<1>6. (NobodyShares /\ DefaultsAlone)'
  BY DEF SimpleInvariant, NobodyShares, DefaultsAlone, store
<1>7. CallsFit'
  <2>1. \A q \in Requests \ {r} : etag'[q] = etag[q]
    BY <1>0
  <2> QED
    BY <1>1, <1>2, <1>3, <1>4, <2>1 DEF SimpleInvariant, CallsFit
<1>8. Resolution'
  <2>1. \A u, d : First(u, d)' <=> First(u, d)
    BY DEF First, Accessible, Exists, store
  <2>2. \A u : Owned(u)' = Owned(u)
    BY DEF Owned, store
  <2>3. Cal(r)' = c /\ \A q \in Requests \ {r} : Cal(q)' = Cal(q)
    BY <1>1, <1>2 DEF Cal
  <2> QED
    BY <1>1, <1>2, <2>1, <2>2, <2>3 DEF SimpleInvariant, Resolution
<1>9. AddedIsStored'
  <2>1. ASSUME NEW q \in Requests, Confirmed(q)' PROVE q # r /\ Confirmed(q)
    BY <1>1, <1>2, <1>3, <2>1 DEF Confirmed
  <2>2. \A q \in Requests : Undeleted(Uid(q))' => Undeleted(Uid(q))
    BY <1>4 DEF Undeleted
  <2>3. \A q \in Requests \ {r} : Cal(q)' = Cal(q)
    BY <1>1 DEF Cal
  <2> QED
    BY <1>4, <2>1, <2>2, <2>3 DEF SimpleInvariant, AddedIsStored, store
<1> QED
  BY <1>5, <1>6, <1>7, <1>8, <1>9 DEF SimpleInvariant

(* A call that finds no calendar: its user owns none.                      *)
LEMMA NothingFoundKeeps ==
  ASSUME SimpleTypeOK, SimpleInvariant, NEW r \in Requests, resolve[r] = "list",
         Accessible(task[r].user) = {}, Step(r, "create"),
         UNCHANGED <<store, requests, listed>>
  PROVE  SimpleInvariant'
<1> USE DEF SimpleTypeOK
<1>0. /\ resolve' = [resolve EXCEPT ![r] = "create"]
      /\ \A q \in Requests \ {r} : resolve'[q] = resolve[q]
      /\ resolve'[r] = "create"
  BY DEF Step
<1>1. Owned(task[r].user) = {}
  BY AccessIsOwnership DEF SimpleInvariant, TypeOK, RequestsTypeOK, Task
<1>2. OneCall'
  BY <1>0 DEF SimpleInvariant, OneCall, UnderWay, requests
<1>3. (NobodyShares /\ DefaultsAlone)'
  BY DEF SimpleInvariant, NobodyShares, DefaultsAlone, store
<1>4. CallsFit'
  BY <1>0 DEF SimpleInvariant, CallsFit, Deletes, requests
<1>5. Resolution'
  BY <1>0, <1>1 DEF SimpleInvariant, Resolution, First, Owned, Accessible, Exists, Cal, store, requests
<1>6. AddedIsStored'
  BY DEF SimpleInvariant, AddedIsStored, Undeleted, Confirmed, Deletes, Cal, Uid, store, requests
<1> QED
  BY <1>2, <1>3, <1>4, <1>5, <1>6 DEF SimpleInvariant

(* The new default calendar is its user's only one.                        *)
LEMMA CreateKeeps ==
  ASSUME SimpleTypeOK, SimpleInvariant, NEW r \in Requests, CreateDefault(r)
  PROVE  SimpleInvariant'
<1> USE DEF SimpleTypeOK
<1>a. PICK me \in Users : me = task[r].user
  BY DEF TypeOK, RequestsTypeOK, Task
<1>0. PICK c \in Defaults : InsertCalendar(c, me) /\ task' = [task EXCEPT ![r].calendar = c]
  BY <1>a DEF CreateDefault
<1>1. /\ c \in Calendars /\ me \in Users /\ me # NoUser
      /\ resolve[r] = "create" /\ resolve' = [resolve EXCEPT ![r] = "readback"]
      /\ UNCHANGED <<pc, if_match, is_new, etag, answer, listed>>
      /\ owner[c] = NoUser /\ owner' = [owner EXCEPT ![c] = me]
      /\ UNCHANGED <<shares, objects, sync_changes>>
  <2>1. c \in Calendars /\ me # NoUser
    BY SimpleAssumptions, StoreAssumptions
  <2>2. /\ owner[c] = NoUser /\ owner' = [owner EXCEPT ![c] = me]
        /\ UNCHANGED <<shares, objects, sync_changes>>
    BY <1>0 DEF InsertCalendar, Exists
  <2> QED
    BY <2>1, <2>2 DEF CreateDefault, Step
<1>2. \A d \in Calendars : owner[d] # me
  BY <1>a, <1>1 DEF SimpleInvariant, Resolution, Owned
<1>3. /\ \A q \in Requests \ {r} : task'[q] = task[q] /\ resolve'[q] = resolve[q]
      /\ task'[r].kind = task[r].kind /\ task'[r].user = me /\ task'[r].uid = task[r].uid
      /\ Cal(r)' = c /\ resolve'[r] = "readback"
  BY <1>a, <1>0, <1>1 DEF TypeOK, RequestsTypeOK, Task, Cal
<1>4. \A q \in Requests : (Deletes(q)' <=> Deletes(q)) /\ Uid(q)' = Uid(q)
  BY <1>3 DEF Deletes, Uid
<1>5. owner'[c] = me /\ \A d \in Calendars \ {c} : owner'[d] = owner[d]
  BY <1>1 DEF TypeOK, StoreTypeOK
<1>6. NobodyShares'
  BY <1>1 DEF SimpleInvariant, NobodyShares
<1>7. OneCall'
  BY <1>1, <1>3 DEF SimpleInvariant, OneCall, UnderWay
<1>8. DefaultsAlone'
  BY <1>1, <1>2, <1>5, SimpleAssumptions DEF SimpleInvariant, DefaultsAlone
<1>9. CallsFit'
  BY <1>1, <1>3, <1>4 DEF SimpleInvariant, CallsFit
<1>10. Resolution'
  <2>1. ASSUME NEW q \in Requests, resolve[q] \in {"create", "readback", "yes"}, q # r
        PROVE  /\ resolve[q] \in {"readback", "yes"} =>
                    task[q].user # me /\ owner'[Cal(q)] = task[q].user /\ Cal(q) \in Calendars
               /\ task[q].user \in Users
    <3>1. Cal(q) \in Calendars /\ task[q].user \in Users
      BY DEF TypeOK, RequestsTypeOK, Task, Cal
    <3>2. resolve[q] \in {"readback", "yes"} => owner[Cal(q)] = task[q].user
      BY <3>1, AccessIsOwnership DEF SimpleInvariant, Resolution, First, Owned
    <3> QED
      BY <1>1, <1>2, <1>5, <3>1, <3>2, StoreAssumptions
  <2>2. \A u \in Users : Accessible(u)' = {d \in Calendars : owner'[d] = u}
    BY <1>6 DEF NobodyShares, Accessible
  <2>3. \A u \in Users : Accessible(u) = {d \in Calendars : owner[d] = u}
    BY AccessIsOwnership DEF SimpleInvariant, Owned
  <2>4. ASSUME NEW u \in Users \ {me} PROVE Accessible(u)' = Accessible(u)
    <3>1. \A d \in Calendars : owner'[d] = u <=> owner[d] = u
      BY <1>1, <1>5, StoreAssumptions
    <3>2. {d \in Calendars : owner'[d] = u} = {d \in Calendars : owner[d] = u}
      BY <3>1
    <3> QED
      BY <2>2, <2>3, <3>2, Zenon
  <2>5. Accessible(me)' = {c}
    BY <1>1, <1>2, <1>5, <2>2
  <2>6. First(me, c)'
    BY <2>5, <1>1, SimpleAssumptions DEF First
  <2>7. ASSUME NEW q \in Requests, q # r, resolve'[q] \in {"readback", "yes"}
        PROVE  First(task[q].user, Cal(q))'
    <3>1. First(task[q].user, Cal(q)) /\ Cal(q)' = Cal(q) /\ task'[q] = task[q]
      BY <1>3, <2>7 DEF SimpleInvariant, Resolution, Cal
    <3>2. task[q].user \in Users \ {me}
      BY <1>3, <2>1, <2>7
    <3> QED
      BY <2>4, <3>1, <3>2 DEF First
  <2>8. ASSUME NEW q \in Requests, q # r, resolve'[q] = "create"
        PROVE  FALSE
    <3>1. UnderWay(q) /\ UnderWay(r)
      BY <1>1, <1>3, <2>8 DEF SimpleInvariant, CallsFit, UnderWay
    <3> QED
      BY <3>1, <2>8 DEF SimpleInvariant, OneCall
  <2> QED
    BY <1>3, <2>6, <2>7, <2>8 DEF Resolution
<1>11. AddedIsStored'
  <2>1. ASSUME NEW q \in Requests, Confirmed(q)' PROVE q # r /\ Confirmed(q)
    <3>1. pc[r] = "idle" /\ answer[r].status = "none"
      BY <1>1 DEF SimpleInvariant, CallsFit
    <3> QED
      BY <1>1, <2>1, <3>1 DEF Confirmed
  <2>2. \A q \in Requests : Undeleted(Uid(q))' => Undeleted(Uid(q))
    BY <1>4 DEF Undeleted
  <2>3. \A q \in Requests \ {r} : Cal(q)' = Cal(q)
    BY <1>3 DEF Cal
  <2> QED
    BY <1>1, <1>4, <2>1, <2>2, <2>3 DEF SimpleInvariant, AddedIsStored
<1> QED
  BY <1>6, <1>7, <1>8, <1>9, <1>10, <1>11 DEF SimpleInvariant

(* A call's handler writes its own object in its own calendar, and removes *)
(* it only if it is a delete_event.                                        *)
LEMMA HandleKeeps ==
  ASSUME SimpleTypeOK, SimpleInvariant, NEW r \in Requests, Handle(r),
         UNCHANGED <<resolve, listed>>
  PROVE  SimpleInvariant'
<1> USE DEF SimpleTypeOK
<1>0. Cal(r) \in Calendars /\ Uid(r) \in Uids
  BY DEF TypeOK, RequestsTypeOK, Task, Cal, Uid
<1>1. /\ task' = task /\ owner' = owner /\ shares' = shares
      /\ \A q \in Requests \ {r} : pc'[q] = pc[q] /\ etag'[q] = etag[q] /\ answer'[q] = answer[q]
  BY StepFrame
<1>2. pc[r] \in Statements
  BY DEF Handle, VerifyAccess, CheckIfMatch, LookupEvent, SelectExisting, InsertRow, UpdateRow,
     DeleteRow, LogChange, Bump, ReadBack, Statements
<1>3. resolve[r] = "yes" /\ r \notin Listing /\ answer[r].status = "none"
  BY <1>2 DEF SimpleInvariant, CallsFit, Statements
<1>4. /\ pc'[r] # "idle"
      /\ pc'[r] = "delete" => Deletes(r)
      /\ pc'[r] \in {"insert", "update"} => etag'[r] # None
      /\ answer'[r].status # "none" => pc'[r] = "done"
      /\ answer'[r].status = "ok" /\ ~ Deletes(r) => objects'[Cal(r)][Uid(r)] # None
  <2> USE DEF TypeOK, RequestsTypeOK
  <2>1. CASE VerifyAccess(r) \/ CheckIfMatch(r) \/ LookupEvent(r)
    BY <1>3, <2>1 DEF VerifyAccess, CheckIfMatch, LookupEvent, Goto, Respond
  <2>2. CASE SelectExisting(r)
    BY <1>3, <2>2 DEF SelectExisting, Goto, StoreTypeOK, None
  <2>3. CASE InsertRow(r)
    BY <1>3, <2>3 DEF InsertRow, Goto, Respond
  <2>4. CASE UpdateRow(r)
    BY <1>3, <2>4 DEF UpdateRow, Goto, Respond
  <2>5. CASE DeleteRow(r)
    BY <1>3, <2>5 DEF DeleteRow, Goto, Respond
  <2>6. CASE LogChange(r)
    BY <1>3, <2>6 DEF LogChange, Goto, Respond
  <2>7. CASE Bump(r)
    BY <1>3, <2>7 DEF Bump, Goto, Respond
  <2>8. CASE ReadBack(r)
    BY <1>3, <2>8 DEF ReadBack, Goto, Respond, ObjectByUid, store
  <2> QED
    BY <2>1, <2>2, <2>3, <2>4, <2>5, <2>6, <2>7, <2>8 DEF Handle
<1>5. \A q \in Requests : /\ Deletes(q)' <=> Deletes(q)
                          /\ Uid(q)' = Uid(q) /\ Cal(q)' = Cal(q)
  BY <1>1 DEF Deletes, Uid, Cal
<1>6. OneCall'
  BY <1>1, <1>2, <1>3 DEF SimpleInvariant, OneCall, UnderWay, Statements
<1>7. (NobodyShares /\ DefaultsAlone)'
  BY <1>1 DEF SimpleInvariant, NobodyShares, DefaultsAlone
<1>8. CallsFit'
  <2>1. pc'[r] = "delete" => Deletes(r)
    BY <1>4
  <2>2. r \notin Listing /\ resolve'[r] = "yes"
    BY <1>3
  <2> QED
    BY <1>1, <1>4, <1>5, <2>1, <2>2 DEF SimpleInvariant, CallsFit
<1>9. Resolution'
  BY <1>1, <1>5 DEF SimpleInvariant, Resolution, First, Owned, Accessible, Exists
<1>10. AddedIsStored'
  <2> SUFFICES ASSUME NEW q \in Requests, Confirmed(q)', ~ Deletes(q), Undeleted(Uid(q))
               PROVE  objects'[Cal(q)][Uid(q)] # None
    BY <1>5 DEF AddedIsStored, Undeleted
  <2>0. Cal(q) \in Calendars /\ Uid(q) \in Uids
    BY DEF TypeOK, RequestsTypeOK, Task, Cal, Uid
  <2>1. CASE q = r
    BY <1>4, <2>1 DEF Confirmed
  <2>2. CASE q # r
    <3>1. objects[Cal(q)][Uid(q)] # None
      BY <1>1, <2>2 DEF Confirmed, SimpleInvariant, AddedIsStored
    <3>2. CASE Cal(q) # Cal(r) \/ Uid(q) # Uid(r)
      BY <2>0, <3>1, <3>2, StepFrame
    <3>3. CASE SameObject(q, r)
      <4>1. pc[r] # "delete"
        BY <1>3, <3>3 DEF SimpleInvariant, CallsFit, Undeleted, SameObject
      <4>2. CASE pc[r] \in {"insert", "update"}
        <5>1. etag[r] # None
          BY <4>2 DEF SimpleInvariant, CallsFit
        <5>2. InsertRow(r) \/ UpdateRow(r)
          BY <4>2 DEF Handle, VerifyAccess, CheckIfMatch, LookupEvent, SelectExisting,
             DeleteRow, LogChange, Bump, ReadBack
        <5> QED
          BY <1>0, <3>1, <3>3, <5>1, <5>2
          DEF InsertRow, UpdateRow, InsertObject, UpdateObject, SameObject, TypeOK, StoreTypeOK, store
      <4>3. CASE pc[r] \notin {"insert", "update", "delete"}
        BY <3>1, <4>3, StepFrame
      <4> QED
        BY <4>1, <4>2, <4>3
    <3> QED
      BY <3>2, <3>3 DEF SameObject
  <2> QED
    BY <2>1, <2>2
<1> QED
  BY <1>6, <1>7, <1>8, <1>9, <1>10 DEF SimpleInvariant

(* Every step keeps the invariant.                                         *)
LEMMA SimpleStep ==
  ASSUME Exclusive, SimpleTypeOK, SimpleInvariant, [SimpleNext]_simpleVars
  PROVE  SimpleTypeOK' /\ SimpleInvariant'
<1>1. CASE UNCHANGED simpleVars
  <2>1. SimpleTypeOK'
    BY <1>1 DEF simpleVars, store, requests, SimpleTypeOK, TypeOK, StoreTypeOK, RequestsTypeOK
  <2>2. OneCall' /\ NobodyShares' /\ DefaultsAlone'
    BY <1>1 DEF simpleVars, store, requests, SimpleInvariant, OneCall, UnderWay, NobodyShares,
       DefaultsAlone
  <2>3. CallsFit'
    BY <1>1 DEF simpleVars, requests, SimpleInvariant, CallsFit, Deletes
  <2>4. Resolution'
    BY <1>1 DEF simpleVars, store, requests, SimpleInvariant, Resolution, First, Owned,
       Accessible, Exists, Cal
  <2>5. AddedIsStored'
    BY <1>1 DEF simpleVars, store, requests, SimpleInvariant, AddedIsStored, Undeleted, Confirmed,
       Deletes, Cal, Uid
  <2> QED
    BY <2>1, <2>2, <2>3, <2>4, <2>5 DEF SimpleInvariant
<1>2. CASE SimpleNext
  <2> PICK r \in Requests : \/ Call(r) \/ ListCalendars(r) \/ CreateDefault(r) \/ ReadDefault(r)
                            \/ Handle(r) /\ UNCHANGED <<resolve, listed>>
    BY <1>2 DEF SimpleNext
  <2>1. SimpleTypeOK'
    BY SimpleStepType
  <2>2. CASE Call(r)
    BY <2>1, <2>2, CallKeeps
  <2>3. CASE ListCalendars(r)
    <3>1. CASE \E c \in Calendars : First(task[r].user, c) /\ Resolved(r, c)
      BY <2>1, <2>3, <3>1, ResolvedKeeps DEF ListCalendars
    <3>2. CASE /\ Accessible(task[r].user) = {} /\ Step(r, "create")
               /\ UNCHANGED <<requests, listed>>
      BY <2>1, <2>3, <3>2, NothingFoundKeeps DEF ListCalendars
    <3> QED
      BY <2>3, <3>1, <3>2 DEF ListCalendars
  <2>4. CASE CreateDefault(r)
    BY <2>1, <2>4, CreateKeeps
  <2>5. CASE ReadDefault(r)
    <3>1. /\ Cal(r) \in Calendars /\ resolve[r] = "readback" /\ First(task[r].user, Cal(r))
          /\ Resolved(r, Cal(r)) /\ UNCHANGED store
      BY <2>5 DEF ReadDefault, SimpleInvariant, Resolution, First, Accessible
    <3> QED
      BY <2>1, <3>1, ResolvedKeeps
  <2>6. CASE Handle(r) /\ UNCHANGED <<resolve, listed>>
    BY <2>1, <2>6, HandleKeeps
  <2> QED
    BY <2>2, <2>3, <2>4, <2>5, <2>6
<1> QED
  BY <1>1, <1>2

(* When calls do not overlap, resolve_calendar never creates a second      *)
(* default calendar for a user, for any number of calls, users and         *)
(* existing calendars.                                                     *)
THEOREM OneDefault ==
  ASSUME Exclusive
  PROVE  SimpleSpec => []OneDefaultCalendar
<1>1. SimpleTypeOK /\ SimpleInvariant /\ [SimpleNext]_simpleVars => (SimpleTypeOK /\ SimpleInvariant)'
  BY SimpleStep
<1>2. SimpleTypeOK /\ SimpleInvariant => OneDefaultCalendar
  <2> SUFFICES ASSUME SimpleTypeOK, SimpleInvariant, NEW u \in Users
               PROVE  Cardinality({c \in Defaults : owner[c] = u}) <= 1
    BY DEF OneDefaultCalendar
  <2> DEFINE mine == {c \in Defaults : owner[c] = u}
  <2>1. \A c, d \in mine : c = d
    BY SimpleAssumptions, StoreAssumptions DEF SimpleInvariant, DefaultsAlone
  <2>2. CASE mine = {}
    BY <2>2, FS_EmptySet
  <2>3. CASE mine # {}
    <3>1. PICK c \in mine : mine = {c}
      BY <2>1, <2>3
    <3>2. Cardinality(mine) = 1
      BY <3>1, FS_Singleton
    <3> QED
      BY <3>2
  <2> QED
    BY <2>2, <2>3
<1> QED
  BY <1>1, <1>2, SimpleInitially, PTL DEF SimpleSpec

(* When calls do not overlap and the names of the existing calendars       *)
(* differ, a list_events answer without a range and shorter than its limit *)
(* has every event that an earlier add_event confirmed and no call         *)
(* deletes: the later call resolves to the calendar that the earlier one   *)
(* resolved to, or created, and handle_list cuts at the limit only.        *)
THEOREM AddedThenListed ==
  ASSUME Exclusive, \A c, d \in Calendars \ Defaults : Rank[c] = Rank[d] => c = d
  PROVE  SimpleSpec => AddedIsListed
<1>1. SimpleTypeOK /\ SimpleInvariant /\ [SimpleNext]_simpleVars => (SimpleTypeOK /\ SimpleInvariant)'
  BY SimpleStep
<1> DEFINE Shown(q, r) ==
      /\ pc[q] # "done" /\ pc'[q] = "done"
      /\ ~ listed'[q].ranged /\ Cardinality(listed'[q].uids) < listed'[q].limit
      /\ Confirmed(r) /\ ~ Deletes(r) /\ task[r].user = task[q].user
      /\ \A d \in Requests \ Listing : Deletes(d) => Uid(d) # Uid(r)
      => Uid(r) \in listed'[q].uids
<1>2. SimpleTypeOK /\ SimpleInvariant /\ [SimpleNext]_simpleVars
        => [\A q \in Listing, r \in Requests : Shown(q, r)]_simpleVars
  <2> SUFFICES ASSUME SimpleTypeOK, SimpleInvariant, SimpleNext,
                      NEW q \in Listing, NEW r \in Requests,
                      pc[q] # "done", pc'[q] = "done", Confirmed(r), ~ Deletes(r),
                      ~ listed'[q].ranged, Cardinality(listed'[q].uids) < listed'[q].limit,
                      task[r].user = task[q].user, Undeleted(Uid(r))
               PROVE  Uid(r) \in listed'[q].uids
    BY DEF Undeleted
  <2> USE DEF SimpleTypeOK, TypeOK, RequestsTypeOK
  <2>0. /\ q \in Requests /\ Cal(r) \in Calendars /\ Uid(r) \in Uids
        /\ task[r].user \in Users
    BY SimpleAssumptions DEF Task, Cal, Uid
  <2>1. PICK p \in Requests : \/ Call(p) \/ ListCalendars(p) \/ CreateDefault(p) \/ ReadDefault(p)
                              \/ Handle(p) /\ UNCHANGED <<resolve, listed>>
    BY DEF SimpleNext
  <2>2. pc[q] = "idle"
    BY <2>0 DEF SimpleInvariant, CallsFit
  <2>3. \E c \in Calendars : Resolved(p, c) /\ First(task[p].user, c)
    <3>1. CASE Call(p) \/ CreateDefault(p)
      BY <3>1 DEF Call, CreateDefault, requests
    <3>2. CASE Handle(p)
      <4>1. q # p
        BY <2>2, <3>2 DEF Handle, VerifyAccess, CheckIfMatch, LookupEvent, SelectExisting,
           InsertRow, UpdateRow, DeleteRow, LogChange, Bump, ReadBack
      <4> QED
        BY <2>0, <3>2, <4>1, StepFrame
    <3>3. CASE ListCalendars(p)
      BY <3>3 DEF ListCalendars, requests
    <3>4. CASE ReadDefault(p)
      BY <3>4 DEF ReadDefault, SimpleInvariant, Resolution, First, Accessible
    <3> QED
      BY <2>1, <3>1, <3>2, <3>3, <3>4
  <2>4. PICK c \in Calendars : Resolved(p, c) /\ First(task[p].user, c)
    BY <2>3
  <2>5. p = q /\ ListEvents(q, c)
    BY <2>0, <2>4 DEF Resolved, Goto, Respond
  <2>9. listed'[q].uids = StoredIn(c)
    <3>1. PICK ranged \in BOOLEAN, n \in Limits, found, us \in SUBSET StoredIn(c) :
             /\ ~ ranged => found = StoredIn(c)
             /\ Take(found, n, us)
             /\ listed' = [listed EXCEPT ![q] = [uids |-> us, ranged |-> ranged, limit |-> n]]
      BY <2>5 DEF ListEvents
    <3>2. listed'[q] = [uids |-> us, ranged |-> ranged, limit |-> n]
      BY <2>0, <3>1
    <3>3. n \in Nat
      BY SimpleAssumptions
    <3>4. Cardinality(us) # n /\ found = StoredIn(c)
      BY <3>1, <3>2, <3>3
    <3>5. us = found
      BY <3>1, <3>4 DEF Take
    <3> QED
      BY <3>2, <3>4, <3>5
  <2>6. First(task[q].user, Cal(r))
    BY DEF Confirmed, SimpleInvariant, CallsFit, Resolution
  <2>7. c = Cal(r)
    <3>1. /\ owner[c] = task[q].user /\ owner[Cal(r)] = task[q].user
          /\ Rank[c] <= Rank[Cal(r)] /\ Rank[Cal(r)] <= Rank[c]
      BY <2>0, <2>4, <2>5, <2>6, AccessIsOwnership DEF First, Owned, SimpleInvariant
    <3>a. Rank[c] \in Nat /\ Rank[Cal(r)] \in Nat
      BY <2>0, SimpleAssumptions
    <3>2. Rank[c] = Rank[Cal(r)]
      <4>1. \A x, y \in Nat : x <= y /\ y <= x => x = y
        OBVIOUS
      <4> QED
        BY <3>1, <3>a, <4>1, Zenon
    <3>3. task[q].user # NoUser
      BY <2>0, StoreAssumptions
    <3>4. CASE c \in Defaults \/ Cal(r) \in Defaults
      BY <2>0, <3>1, <3>3, <3>4 DEF SimpleInvariant, DefaultsAlone
    <3>5. CASE c \notin Defaults /\ Cal(r) \notin Defaults
      BY <2>0, <3>2, <3>5
    <3> QED
      BY <3>4, <3>5
  <2>8. objects[Cal(r)][Uid(r)] # None
    BY DEF SimpleInvariant, AddedIsStored
  <2> QED
    BY <2>0, <2>7, <2>8, <2>9 DEF StoredIn
<1> QED
  BY <1>1, <1>2, SimpleInitially, PTL DEF SimpleSpec, AddedIsListed

=============================================================================
