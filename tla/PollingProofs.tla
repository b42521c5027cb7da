--------------------------- MODULE PollingProofs ---------------------------
(***************************************************************************)
(* Theorems about the reading requests, for any number of readers and of   *)
(* racing writers.                                                         *)
(***************************************************************************)
EXTENDS Polling, ObjectRequestsProofs

\* The stages after the list, while the bodies are fetched.
Fetching == {"report", "multiget", "query", "object", "get", "get_event"}

\* What is not to be fetched any more is as stored, if nothing happened since
\* the ctag was read.
ListedIsCurrent(k) ==
    /\ stage[k] \in Fetching /\ listed_ctag[k] = sync_token[Of(k)]
    /\ Quiet(Of(k)) /\ Whole(k)
    => \A u \in Uids \ wanted[k] : held[k][u] = objects[Of(k)][u]

KeptIsCurrent(k) ==
    /\ ctag[k] # None /\ ctag[k] = sync_token[Of(k)] /\ Quiet(Of(k)) /\ Whole(k)
    /\ ~ misread[k]
    => held[k] = objects[Of(k)]

\* Only an agent calls the tools.
ToolsByAgent(k) ==
    stage[k] \in {"list_calendars", "get_calendar", "query_events", "get_event"} => Agent(k)

ReadsCurrent(k) ==
    /\ ToolsByAgent(k)
    /\ ctag[k] <= issued /\ listed_ctag[k] <= issued
    /\ ListedIsCurrent(k) /\ KeptIsCurrent(k)

PollingInvariant ==
    /\ Marked /\ RowsHaveCalendars /\ TokensDrawn
    /\ \A k \in Readers : ReadsCurrent(k)

ReadersTypeOK ==
    /\ stage \in [Readers -> Stages]
    /\ depth \in [Readers -> {0, 1}]
    /\ reader \in [Readers -> Reader]
    /\ ctag \in [Readers -> Nat]
    /\ listed_ctag \in [Readers -> Nat]
    /\ wanted \in [Readers -> SUBSET Uids]
    /\ held \in [Readers -> [Uids -> Nat]]
    /\ misread \in [Readers -> BOOLEAN]

\* A step of one reader.
ReaderMoves(k) == StartRead(k) \/ ReadStep(k) \/ FailRead(k)

----------------------------------------------------------------------------
(* Types *)

(* The rows a query returns, failing or not, are rows of the calendar.     *)
LEMMA RowsAreUids ==
  ASSUME NEW c, NEW rows \in RowsRead(c)
  PROVE  rows \subseteq Uids /\ (rows = Present(c) \/ rows = {})
BY DEF RowsRead, Present

(* A reader's step keeps the types of what it notes.                       *)
LEMMA ReadStepType ==
  ASSUME PollingTypeOK, NEW k \in Readers, ReaderMoves(k)
  PROVE  ReadersTypeOK'
<1> USE DEF PollingTypeOK, ReadersTypeOK, Stages
<1>0. Of(k) \in Calendars /\ objects \in [Calendars -> [Uids -> Nat]]
      /\ sync_token \in [Calendars -> Nat] /\ None \in Nat
  BY DEF Of, Reader, TypeOK, StoreTypeOK, None
<1>1. CASE StartRead(k)
  <2>1. \E label \in {"list_calendars", "home", "access"} : Enter(k, label)
    BY <1>1 DEF StartRead
  <2> QED
    BY <1>0, <1>1, <2>1 DEF StartRead, Enter
<1>2. CASE PropfindHome(k) \/ ReadAccess(k) \/ ListCalendarsTool(k)
  BY <1>2 DEF PropfindHome, ReadAccess, ListCalendarsTool, Enter
<1>3. CASE PropfindCalendar(k) \/ GetCalendarTool(k)
  BY <1>0, <1>3 DEF PropfindCalendar, GetCalendarTool, Enter
<1>4. CASE PropfindObjects(k)
  <2>1. PICK rows \in RowsRead(Of(k)) :
            /\ held' = [held EXCEPT ![k] = [u \in Uids |-> IF u \in rows THEN @[u] ELSE None]]
            /\ wanted' = [wanted EXCEPT ![k] = {u \in rows : held[k][u] # objects[Of(k)][u]}]
            /\ \/ Enter(k, "idle") /\ Keep(k, rows # Present(Of(k)))
               \/ Enter(k, "report") /\ UNCHANGED <<ctag, misread>>
               \/ Enter(k, "object") /\ UNCHANGED <<ctag, misread>>
    BY <1>4 DEF PropfindObjects
  <2>2. rows \subseteq Uids
    BY RowsAreUids
  <2>3. wanted' \in [Readers -> SUBSET Uids]
    BY <2>1, <2>2
  <2>4. held' \in [Readers -> [Uids -> Nat]]
    BY <1>0, <2>1
  <2>5. UNCHANGED <<depth, reader, listed_ctag>>
    BY <1>4 DEF PropfindObjects
  <2> QED
    BY <2>1, <2>3, <2>4, <2>5 DEF Enter, Keep
<1>5. CASE Multiget(k) \/ Query(k)
  <2>1. /\ wanted' = [wanted EXCEPT ![k] = {}] /\ Enter(k, "idle")
        /\ UNCHANGED <<depth, reader, listed_ctag>>
    BY <1>5 DEF Multiget, Query
  <2>2. /\ \/ UNCHANGED <<ctag, misread>>
           \/ \E cut \in BOOLEAN : Keep(k, cut)
        /\ \/ held' = held
           \/ \E new \in [Uids -> Nat] : held' = [held EXCEPT ![k] = new]
    <3>1. CASE Multiget(k)
      <4>1. PICK rows \in RowsRead(Of(k)) :
                \/ /\ held' = [held EXCEPT ![k] =
                        [u \in Uids |-> IF u \in wanted[k] \cap rows THEN objects[Of(k)][u]
                                       ELSE IF u \in wanted[k] THEN None ELSE @[u]]]
                   /\ Keep(k, wanted[k] \cap rows # wanted[k] \cap Present(Of(k)))
                \/ UNCHANGED <<held, ctag, misread>>
        BY <3>1 DEF Multiget
      <4>2. [u \in Uids |-> IF u \in wanted[k] \cap rows THEN objects[Of(k)][u]
                            ELSE IF u \in wanted[k] THEN None ELSE held[k][u]] \in [Uids -> Nat]
        BY <1>0
      <4>3. (wanted[k] \cap rows # wanted[k] \cap Present(Of(k))) \in BOOLEAN
        OBVIOUS
      <4> QED
        BY <4>1, <4>2, <4>3
    <3>2. CASE Query(k)
      <4>1. PICK rows \in RowsRead(Of(k)) :
                \/ /\ held' = [held EXCEPT ![k] =
                        [u \in Uids |-> IF u \in rows THEN objects[Of(k)][u] ELSE None]]
                   /\ Keep(k, rows # Present(Of(k)))
                \/ UNCHANGED <<held, ctag, misread>>
        BY <3>2 DEF Query
      <4>2. [u \in Uids |-> IF u \in rows THEN objects[Of(k)][u] ELSE None] \in [Uids -> Nat]
        BY <1>0
      <4>3. (rows # Present(Of(k))) \in BOOLEAN
        OBVIOUS
      <4> QED
        BY <4>1, <4>2, <4>3
    <3> QED
      BY <1>5, <3>1, <3>2
  <2>3. held' \in [Readers -> [Uids -> Nat]]
    BY <2>2
  <2>4. ctag' \in [Readers -> Nat] /\ misread' \in [Readers -> BOOLEAN]
    BY <2>2 DEF Keep
  <2> QED
    BY <2>1, <2>3, <2>4 DEF Enter
<1>6. CASE QueryEvents(k)
  <2>1. PICK seen \in SUBSET Present(Of(k)) :
            /\ wanted' = [wanted EXCEPT ![k] = seen]
            /\ held' = [held EXCEPT ![k] = [u \in Uids |-> IF u \in seen THEN @[u] ELSE None]]
            /\ \/ seen = {} /\ Enter(k, "idle") /\ Keep(k, FALSE)
               \/ seen # {} /\ Enter(k, "get_event") /\ UNCHANGED <<ctag, misread>>
    BY <1>6 DEF QueryEvents
  <2>2. wanted' \in [Readers -> SUBSET Uids]
    BY <2>1 DEF Present
  <2>3. held' \in [Readers -> [Uids -> Nat]]
    BY <1>0, <2>1
  <2>4. UNCHANGED <<depth, reader, listed_ctag>>
    BY <1>6 DEF QueryEvents
  <2> QED
    BY <2>1, <2>2, <2>3, <2>4 DEF Enter, Keep
<1>7. ASSUME NEW label \in {"object", "get_event"}, TakeOne(k, label, "idle"),
             UNCHANGED <<depth, reader, listed_ctag>>
      PROVE  ReadersTypeOK'
  <2>1. PICK u \in wanted[k] :
            /\ held' = [held EXCEPT ![k][u] = ObjectByUid(Of(k), u)]
            /\ wanted' = [wanted EXCEPT ![k] = @ \ {u}]
            /\ Enter(k, IF wanted[k] = {u} THEN "idle" ELSE label)
            /\ \/ wanted[k] = {u} /\ Keep(k, FALSE)
               \/ wanted[k] # {u} /\ UNCHANGED <<ctag, misread>>
    BY <1>7 DEF TakeOne
  <2>2. u \in Uids /\ ObjectByUid(Of(k), u) \in Nat
    BY <1>0 DEF ObjectByUid
  <2>3. held' \in [Readers -> [Uids -> Nat]]
    BY <2>1, <2>2
  <2> QED
    BY <1>7, <2>1, <2>3 DEF Enter, Keep
<1>8. CASE Get(k) \/ GetEvent(k)
  BY <1>7, <1>8 DEF Get, GetEvent
<1>9. CASE FailRead(k)
  BY <1>0, <1>9 DEF FailRead, Enter
<1> QED
  BY <1>1, <1>2, <1>3, <1>4, <1>5, <1>6, <1>8, <1>9 DEF ReaderMoves, ReadStep

(* Readers and writers keep their types in every behaviour.                *)
THEOREM PollingTypeCorrect == PollingSpec => []PollingTypeOK
<1>1. PollingInit => PollingTypeOK
  BY StoreInitType, RequestsInitType
     DEF PollingInit, Init, ReadersInit, PollingTypeOK, TypeOK, Stages, None
<1>2. PollingTypeOK /\ [PollingNext]_pollingVars => PollingTypeOK'
  <2> SUFFICES ASSUME PollingTypeOK, [PollingNext]_pollingVars PROVE PollingTypeOK'
    OBVIOUS
  <2>0. PollingTypeOK <=> TypeOK /\ ReadersTypeOK
    BY DEF PollingTypeOK, ReadersTypeOK
  <2>1. CASE WritersStep
    <3>1. TypeOK'
      BY <2>0, <2>1, RequestStepType DEF WritersStep, RequestStep
    <3> QED
      BY <2>1, <3>1 DEF WritersStep, readers, PollingTypeOK
  <2>2. CASE ReadersStep
    <3>1. ReadersTypeOK'
      BY <2>2, ReadStepType DEF ReadersStep, ReaderMoves
    <3>2. TypeOK'
      BY <2>0, <2>2 DEF ReadersStep, store, requests, TypeOK, StoreTypeOK, RequestsTypeOK
    <3> QED
      BY <3>1, <3>2 DEF PollingTypeOK, ReadersTypeOK
  <2>3. CASE UNCHANGED pollingVars
    BY <2>3 DEF pollingVars, store, requests, readers, PollingTypeOK, TypeOK, StoreTypeOK,
       RequestsTypeOK
  <2> QED
    BY <2>1, <2>2, <2>3 DEF PollingNext
<1> QED
  BY <1>1, <1>2, PTL DEF PollingSpec

----------------------------------------------------------------------------
(* A current ctag means a current copy *)

(* A writer spoils no copy that is current with its ctag.                  *)
LEMMA WriterKeepsReads ==
  ASSUME PollingTypeOK, PollingInvariant, NEW r \in Requests, Arrive(r) \/ Handle(r),
         UNCHANGED readers, NEW k \in Readers
  PROVE  ReadsCurrent(k)'
<1>0. TypeOK /\ Of(k) \in Calendars /\ issued \in Nat /\ issued' \in Nat
  BY RequestStepType DEF PollingTypeOK, Of, Reader, TypeOK, StoreTypeOK, RequestStep
<1>1. /\ stage' = stage /\ ctag' = ctag /\ listed_ctag' = listed_ctag /\ wanted' = wanted
      /\ held' = held /\ reader' = reader /\ misread' = misread
  BY DEF readers
<1>2. issued <= issued'
  BY <1>0, StepTokensDrawn DEF PollingInvariant
<1>3. ctag[k] <= issued /\ listed_ctag[k] <= issued /\ ctag[k] \in Nat /\ listed_ctag[k] \in Nat
  BY DEF PollingInvariant, ReadsCurrent, PollingTypeOK
<1>4. ctag'[k] <= issued' /\ listed_ctag'[k] <= issued'
  BY <1>0, <1>1, <1>2, <1>3
<1>5. ASSUME Quiet(Of(k))', sync_token'[Of(k)] <= issued
      PROVE  /\ sync_token'[Of(k)] = sync_token[Of(k)] /\ Quiet(Of(k))
             /\ objects'[Of(k)] = objects[Of(k)]
  <2>1. AtRest(Of(k))'
    BY <1>5 DEF Quiet, AtRest
  <2>2. /\ sync_token'[Of(k)] = sync_token[Of(k)] /\ AtRest(Of(k))
        /\ objects'[Of(k)] = objects[Of(k)]
    BY <1>0, <1>1, <1>5, <2>1, StillCurrent DEF PollingInvariant, Of, Marked
  <2> QED
    BY <2>2 DEF Quiet, AtRest
<1>6. /\ Of(k)' = Of(k)
      /\ objects'[Of(k)] = objects[Of(k)] => (Whole(k)' <=> Whole(k))
  BY <1>1 DEF Of, Whole, Agent, Present
<1>7. ToolsByAgent(k)'
  BY <1>1 DEF PollingInvariant, ReadsCurrent, ToolsByAgent, Agent
<1>8. ListedIsCurrent(k)'
  BY <1>1, <1>3, <1>5, <1>6 DEF PollingInvariant, ReadsCurrent, ListedIsCurrent
<1>9. KeptIsCurrent(k)'
  BY <1>1, <1>3, <1>5, <1>6 DEF PollingInvariant, ReadsCurrent, KeptIsCurrent
<1> QED
  BY <1>4, <1>7, <1>8, <1>9 DEF ReadsCurrent

(* Readers leave each other's copies alone.                                *)
LEMMA OtherReaders ==
  ASSUME PollingTypeOK, NEW k \in Readers, ReaderMoves(k), NEW j \in Readers \ {k}
  PROVE  /\ stage'[j] = stage[j] /\ ctag'[j] = ctag[j] /\ listed_ctag'[j] = listed_ctag[j]
         /\ wanted'[j] = wanted[j] /\ held'[j] = held[j] /\ misread'[j] = misread[j]
BY DEF PollingTypeOK, ReaderMoves, FailRead, StartRead, ReadStep, PropfindHome, ReadAccess, PropfindCalendar,
   PropfindObjects, Multiget, Query, Get, ListCalendarsTool, GetCalendarTool, QueryEvents,
   GetEvent, TakeOne, Enter, Keep

(* The query's limit cuts nothing off that fits.                           *)
LEMMA SeenIsAll ==
  ASSUME NEW c \in Calendars, NEW seen \in SUBSET Present(c),
         Cardinality(seen) = QueryLimit \/ seen = Present(c),
         Cardinality(Present(c)) <= QueryLimit
  PROVE  seen = Present(c)
<1>1. IsFiniteSet(Present(c))
  BY StoreAssumptions, FS_Subset DEF Present
<1>2. Cardinality(Present(c)) \in Nat
  BY <1>1, FS_CardinalityType
<1>3. /\ Cardinality(seen) <= Cardinality(Present(c))
      /\ Cardinality(Present(c)) = Cardinality(seen) => Present(c) = seen
  BY <1>1, FS_Subset
<1>4. Cardinality(seen) \in Nat /\ QueryLimit \in Nat
  BY <1>1, FS_Subset, FS_CardinalityType, PollingAssumptions
<1> QED
  BY <1>2, <1>3, <1>4

(* Each statement of a reader keeps its copy current with its ctag.        *)
LEMMA ReaderKeepsReads ==
  ASSUME PollingTypeOK, PollingInvariant, NEW k \in Readers, ReaderMoves(k),
         UNCHANGED <<store, requests>>
  PROVE  ReadsCurrent(k)'
<1> DEFINE c == Of(k)
           still(n) == n = sync_token[c] /\ Quiet(c) /\ Whole(k)
<1>0. /\ c \in Calendars /\ objects[c] \in [Uids -> Nat] /\ held[k] \in [Uids -> Nat]
      /\ wanted[k] \in SUBSET Uids /\ issued \in Nat
  BY DEF PollingTypeOK, Of, Reader, TypeOK, StoreTypeOK
<1>1. /\ objects' = objects /\ sync_token' = sync_token /\ issued' = issued
      /\ reader' = reader /\ Of(k)' = c
      /\ (Quiet(c)' <=> Quiet(c)) /\ (Whole(k)' <=> Whole(k))
  <2>1. reader' = reader
    BY DEF ReaderMoves, FailRead, StartRead, ReadStep, PropfindHome, ReadAccess, PropfindCalendar, PropfindObjects,
       Multiget, Query, Get, ListCalendarsTool, GetCalendarTool, QueryEvents, GetEvent
  <2> QED
    BY <2>1 DEF store, requests, Of, Quiet, Cal, Whole, Agent, Present
<1>2. /\ ctag[k] <= issued /\ listed_ctag[k] <= issued
      /\ ToolsByAgent(k)
      /\ stage[k] \in Fetching /\ still(listed_ctag[k]) =>
             \A u \in Uids \ wanted[k] : held[k][u] = objects[c][u]
      /\ ctag[k] # None /\ still(ctag[k]) /\ ~ misread[k] => held[k] = objects[c]
  BY DEF PollingInvariant, ReadsCurrent, ListedIsCurrent, KeptIsCurrent
<1>3. SUFFICES /\ ctag'[k] <= issued /\ listed_ctag'[k] <= issued
               /\ stage'[k] \in Fetching /\ still(listed_ctag'[k]) =>
                      \A u \in Uids \ wanted'[k] : held'[k][u] = objects[c][u]
               /\ ctag'[k] # None /\ still(ctag'[k]) /\ ~ misread'[k] => held'[k] = objects[c]
  <2>1. ToolsByAgent(k)'
    <3>1. Agent(k)' <=> Agent(k)
      BY <1>1 DEF Agent
    <3> QED
      BY <1>2, <3>1 DEF ToolsByAgent, PollingTypeOK, ReaderMoves, FailRead, StartRead, ReadStep, PropfindHome, ReadAccess,
         PropfindCalendar, PropfindObjects, Multiget, Query, Get, ListCalendarsTool,
         GetCalendarTool, QueryEvents, GetEvent, TakeOne, Enter
  <2> QED
    BY <1>1, <2>1 DEF ReadsCurrent, ListedIsCurrent, KeptIsCurrent
<1> HIDE DEF c, still
<1>4. CASE StartRead(k) \/ PropfindHome(k) \/ ListCalendarsTool(k) \/ FailRead(k)
  <2>1. stage'[k] \in {"list_calendars", "home", "access", "idle", "failed", "get_calendar"}
    BY <1>4 DEF StartRead, PropfindHome, ListCalendarsTool, FailRead, Enter, PollingTypeOK
  <2>2. /\ ctag' = ctag /\ held' = held /\ misread' = misread
        /\ listed_ctag'[k] \in {listed_ctag[k], None}
    BY <1>4 DEF StartRead, PropfindHome, ListCalendarsTool, FailRead, PollingTypeOK
  <2> QED
    BY <1>0, <1>2, <2>1, <2>2 DEF Fetching, None
<1>5. CASE PropfindCalendar(k) \/ GetCalendarTool(k)
  <2>1. stage'[k] \in {"list", "access", "idle", "query_events"}
    BY <1>5 DEF PropfindCalendar, GetCalendarTool, Enter, PollingTypeOK
  <2>2. listed_ctag'[k] \in {listed_ctag[k], sync_token[c]}
    BY <1>5 DEF PropfindCalendar, GetCalendarTool, PollingTypeOK, c
  <2>3. sync_token[c] <= issued
    BY <1>0 DEF PollingInvariant, TokensDrawn
  <2> QED
    BY <1>2, <1>5, <2>1, <2>2, <2>3 DEF PropfindCalendar, GetCalendarTool, Fetching
<1>6. CASE ReadAccess(k)
  <2>1. stage'[k] \in Fetching => stage[k] \in Fetching
    BY <1>6 DEF ReadAccess, Enter, Fetching, PollingTypeOK
  <2> QED
    BY <1>2, <1>6, <2>1 DEF ReadAccess
<1>7. CASE PropfindObjects(k)
  <2>1. PICK rows \in RowsRead(c) :
            /\ held'[k] = [u \in Uids |-> IF u \in rows THEN held[k][u] ELSE None]
            /\ wanted'[k] = {u \in rows : held[k][u] # objects[c][u]}
            /\ listed_ctag'[k] = listed_ctag[k]
            /\ \/ /\ wanted'[k] # {} /\ ctag'[k] = ctag[k] /\ misread'[k] = misread[k]
               \/ /\ wanted'[k] = {} /\ ctag'[k] = listed_ctag[k] /\ stage'[k] = "idle"
                  /\ misread'[k] = (rows # Present(c))
    BY <1>7 DEF PropfindObjects, Keep, Enter, PollingTypeOK, c
  <2>2. rows = Present(c) => \A u \in Uids \ wanted'[k] : held'[k][u] = objects[c][u]
    BY <1>0, <2>1 DEF Present
  <2>3. rows = Present(c) /\ (wanted'[k] = {} \/ held[k] = objects[c]) => held'[k] = objects[c]
    BY <1>0, <2>1 DEF Present
  <2>4. wanted'[k] # {} => rows = Present(c)
    BY <2>1, RowsAreUids
  <2> QED
    BY <1>2, <2>1, <2>2, <2>3, <2>4 DEF Fetching
<1>8. CASE Multiget(k)
  <2>1. stage[k] = "multiget" /\ stage'[k] = "idle" /\ listed_ctag'[k] = listed_ctag[k]
    BY <1>8 DEF Multiget, Enter, PollingTypeOK
  <2>2. PICK rows \in RowsRead(c) :
            \/ held'[k] = held[k] /\ ctag'[k] = ctag[k] /\ misread'[k] = misread[k]
            \/ /\ held'[k] = [u \in Uids |-> IF u \in wanted[k] \cap rows THEN objects[c][u]
                                            ELSE IF u \in wanted[k] THEN None ELSE held[k][u]]
               /\ ctag'[k] = listed_ctag[k]
               /\ misread'[k] = (wanted[k] \cap rows # wanted[k] \cap Present(c))
    BY <1>8 DEF Multiget, Keep, PollingTypeOK, c
  <2>3. /\ stage[k] \in Fetching /\ stage'[k] \notin Fetching
    BY <2>1 DEF Fetching
  <2>4. /\ \A u \in Uids \ wanted[k] : held[k][u] = objects[c][u]
        /\ wanted[k] \cap rows = wanted[k] \cap Present(c)
        => [u \in Uids |-> IF u \in wanted[k] \cap rows THEN objects[c][u]
                          ELSE IF u \in wanted[k] THEN None ELSE held[k][u]] = objects[c]
    BY <1>0 DEF Present
  <2> QED
    BY <1>2, <2>1, <2>2, <2>3, <2>4
<1>9. CASE Query(k)
  <2>1. stage'[k] \notin Fetching /\ listed_ctag'[k] = listed_ctag[k]
    BY <1>9 DEF Query, Enter, PollingTypeOK, Fetching
  <2>2. PICK rows \in RowsRead(c) :
            \/ held'[k] = held[k] /\ ctag'[k] = ctag[k] /\ misread'[k] = misread[k]
            \/ /\ held'[k] = [u \in Uids |-> IF u \in rows THEN objects[c][u] ELSE None]
               /\ ctag'[k] = listed_ctag[k] /\ misread'[k] = (rows # Present(c))
    BY <1>9 DEF Query, Keep, PollingTypeOK, c
  <2>3. [u \in Uids |-> IF u \in Present(c) THEN objects[c][u] ELSE None] = objects[c]
    BY <1>0 DEF Present
  <2> QED
    BY <1>2, <2>1, <2>2, <2>3
<1>10. CASE QueryEvents(k)
  <2>1. PICK seen \in SUBSET Present(c) :
            /\ Cardinality(seen) = QueryLimit \/ seen = Present(c)
            /\ wanted'[k] = seen
            /\ held'[k] = [u \in Uids |-> IF u \in seen THEN held[k][u] ELSE None]
            /\ \/ seen = {} /\ ctag'[k] = listed_ctag[k] /\ misread'[k] = FALSE
               \/ seen # {} /\ ctag'[k] = ctag[k] /\ misread'[k] = misread[k]
            /\ stage'[k] \in {"idle", "get_event"}
    BY <1>10 DEF QueryEvents, Enter, Keep, PollingTypeOK, c
  <2>2. listed_ctag' = listed_ctag /\ Agent(k)
    BY <1>2, <1>10 DEF QueryEvents, ToolsByAgent
  <2>3. Whole(k) => seen = Present(c)
    BY <1>0, <2>1, <2>2, SeenIsAll DEF Whole, c
  <2>4. seen = Present(c) => \A u \in Uids \ seen : held'[k][u] = objects[c][u]
    BY <1>0, <2>1 DEF Present
  <2>5. seen = Present(c) /\ (held[k] = objects[c] \/ seen = {}) => held'[k] = objects[c]
    BY <1>0, <2>1 DEF Present
  <2> QED
    BY <1>2, <2>1, <2>2, <2>3, <2>4, <2>5 DEF still
<1>11. CASE Get(k) \/ GetEvent(k)
  <2>1. /\ listed_ctag'[k] = listed_ctag[k] /\ stage[k] \in Fetching
        /\ TakeOne(k, "object", "idle") \/ TakeOne(k, "get_event", "idle")
    BY <1>11 DEF Get, GetEvent, Fetching
  <2>2. PICK u \in wanted[k] :
            /\ held'[k] = [held[k] EXCEPT ![u] = objects[c][u]]
            /\ wanted'[k] = wanted[k] \ {u}
            /\ \/ wanted[k] = {u} /\ ctag'[k] = listed_ctag[k] /\ misread'[k] = FALSE
               \/ wanted[k] # {u} /\ ctag'[k] = ctag[k] /\ misread'[k] = misread[k]
    BY <2>1 DEF TakeOne, Keep, ObjectByUid, PollingTypeOK, c
  <2>3. u \in Uids
    BY <1>0
  <2>4. (\A v \in Uids \ wanted[k] : held[k][v] = objects[c][v]) =>
            \A v \in Uids \ wanted'[k] : held'[k][v] = objects[c][v]
    BY <1>0, <2>2, <2>3
  <2>5. wanted[k] = {u} /\ (\A v \in Uids \ wanted'[k] : held'[k][v] = objects[c][v]) =>
            held'[k] = objects[c]
    BY <1>0, <2>2, <2>3
  <2>6. held[k] = objects[c] => held'[k] = objects[c]
    BY <1>0, <2>2, <2>3
  <2> QED
    BY <1>2, <2>1, <2>2, <2>4, <2>5, <2>6
<1> QED
  BY <1>4, <1>5, <1>6, <1>7, <1>8, <1>9, <1>10, <1>11 DEF ReaderMoves, ReadStep

(* A reader that holds the current ctag of a calendar at rest holds the    *)
(* stored objects: it may skip every fetch until the ctag changes.         *)
THEOREM CurrentCtagSuffices == PollingSpec => []CurrentCtagMeansCurrentCopy
<1>1. PollingInit => PollingInvariant
  <2> SUFFICES ASSUME PollingInit PROVE PollingInvariant
    OBVIOUS
  <2>1. /\ TypeOK /\ Marked /\ RowsHaveCalendars
    BY StoreInitType, RequestsInitType DEF PollingInit, Init, TypeOK, StoreInit, RequestsInit,
       Marked, RowsHaveCalendars
  <2>2. TokensDrawn
    <3>1. Cardinality(Calendars) \in Nat
      BY StoreAssumptions, FS_CardinalityType
    <3> QED
      BY <3>1 DEF PollingInit, Init, StoreInit, TokensDrawn, None
  <2>3. issued \in Nat
    BY <2>1 DEF TypeOK, StoreTypeOK
  <2>4. ASSUME NEW k \in Readers PROVE ReadsCurrent(k)
    BY <2>3 DEF PollingInit, ReadersInit, ReadsCurrent, ToolsByAgent, ListedIsCurrent,
       KeptIsCurrent, Fetching, None
  <2> QED
    BY <2>1, <2>2, <2>4 DEF PollingInvariant
<1>2. PollingTypeOK /\ PollingInvariant /\ [PollingNext]_pollingVars => PollingInvariant'
  <2> SUFFICES ASSUME PollingTypeOK, PollingInvariant, [PollingNext]_pollingVars
               PROVE  PollingInvariant'
    OBVIOUS
  <2>0. TypeOK
    BY DEF PollingTypeOK
  <2>1. ASSUME NEW r \in Requests, Arrive(r) \/ Handle(r), UNCHANGED readers
        PROVE  PollingInvariant'
    <3>1. Marked' /\ RowsHaveCalendars' /\ TokensDrawn'
      BY <2>0, <2>1, StepMarked, StepRowsHaveCalendars, StepTokensDrawn DEF PollingInvariant
    <3>2. \A k \in Readers : ReadsCurrent(k)'
      BY <2>1, WriterKeepsReads
    <3> QED
      BY <3>1, <3>2 DEF PollingInvariant
  <2>2. ASSUME UNCHANGED <<store, requests>>
        PROVE  Marked' /\ RowsHaveCalendars' /\ TokensDrawn'
    BY <2>2 DEF store, requests, PollingInvariant, Marked, RowsHaveCalendars, TokensDrawn, Cal,
       Deletes, Exists
  <2>3. ASSUME UNCHANGED <<store, requests>>, NEW j \in Readers,
               stage'[j] = stage[j], ctag'[j] = ctag[j], listed_ctag'[j] = listed_ctag[j],
               wanted'[j] = wanted[j], held'[j] = held[j], misread'[j] = misread[j],
               reader'[j] = reader[j]
        PROVE  ReadsCurrent(j)'
    BY <2>3 DEF PollingInvariant, ReadsCurrent, ToolsByAgent, ListedIsCurrent, KeptIsCurrent,
       store, requests, Of, Quiet, Cal, Whole, Agent, Present
  <2>4. ASSUME NEW k \in Readers, ReaderMoves(k), UNCHANGED <<store, requests>>
        PROVE  PollingInvariant'
    <3>1. reader' = reader
      BY <2>4 DEF ReaderMoves, FailRead, StartRead, ReadStep, PropfindHome, ReadAccess, PropfindCalendar,
         PropfindObjects, Multiget, Query, Get, ListCalendarsTool, GetCalendarTool, QueryEvents,
         GetEvent
    <3>2. \A j \in Readers \ {k} : ReadsCurrent(j)'
      BY <2>3, <2>4, <3>1, OtherReaders
    <3>3. ReadsCurrent(k)'
      BY <2>4, ReaderKeepsReads
    <3> QED
      BY <2>2, <2>4, <3>2, <3>3 DEF PollingInvariant
  <2>5. CASE UNCHANGED pollingVars
    BY <2>2, <2>3, <2>5 DEF pollingVars, readers, PollingInvariant
  <2> QED
    BY <2>1, <2>4, <2>5 DEF PollingNext, WritersStep, ReadersStep, ReaderMoves
<1>3. PollingInvariant => CurrentCtagMeansCurrentCopy
  BY DEF PollingInvariant, ReadsCurrent, KeptIsCurrent, CurrentCtagMeansCurrentCopy
<1> QED
  BY <1>1, <1>2, <1>3, PollingTypeCorrect, PTL DEF PollingSpec

=============================================================================
