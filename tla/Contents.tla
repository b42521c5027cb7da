------------------------------ MODULE Contents ------------------------------
(***************************************************************************)
(* What is in the objects of one calendar and what is in the requests: the *)
(* uid and the columns that PUT takes from a body (src/caldav/put.rs), the *)
(* bodies that create_event and update_event build (src/mcp/tools/         *)
(* events.rs), the names in URLs and hrefs, the selection by time range    *)
(* (src/db/events.rs) and the XML of PROPFIND and REPORT.                  *)
(*                                                                         *)
(* Requests come one after the other here; how they interleave is the      *)
(* subject of ObjectRequests and Polling.                                  *)
(***************************************************************************)
EXTENDS XmlRequests, FiniteSets

CONSTANTS
    Uids,           \* the uids that clients choose, sequences of characters
    Generated,      \* the uids that generate_uid may draw
    Times,          \* the times in events
    Ranges,         \* pairs of times that clients ask for; None for a missing end
    Titles,         \* the summaries in bodies of clients, sequences of characters
    Alarms,         \* a line of an alarm: its DESCRIPTION, a SUMMARY or a UID
    Wordings,       \* the texts and time zones in arguments of the tools
    PropLists,      \* the sequences of properties that clients ask for
    MaxRows         \* bound: the objects in the calendar at a time

\* A DATE has no hour and no Z.
AnyTime == {t \in [day : Int, hour : -1 .. 23, z : {0, 1}] : t.hour = -1 => t.z = 0}

\* The names of properties; what a PROPFIND may hold besides is none.
PropNames == [ns : {"DAV:", "caldav"}, local : STRING \ {"prop", "allprop", "propname"}]

ASSUME ContentsAssumptions ==
    /\ Uids \cup Generated \subseteq Seq(STRING)
    /\ Times \subseteq AnyTime
    /\ PropLists \subseteq Seq(PropNames) \ {<<>>}
    /\ MaxRows \in Nat

\* Uids do not end in blanks.
ASSUME UidAssumption == \A uid \in Uids \cup Generated : trim(uid) = uid

ASSUME TextAssumption ==
    /\ Titles \subseteq Seq(STRING)
    /\ \A line \in Alarms :
           line.name \in {"DESCRIPTION", "SUMMARY", "UID"} /\ line = Line(line.name, line.value)
    /\ \A w \in Wordings :
           /\ w.title # None
           /\ \A text \in {w.title, w.description, w.location} \ {None} :
                  text = Argument(text.first, text.more) /\ text.first \in Seq(STRING)

\* Clients ask for ranges in UTC.
ASSUME RangeAssumption ==
    \A range \in Ranges : \A i \in {1, 2} :
        range[i] # None => range[i] \in AnyTime /\ range[i].z = 1

ASSUME NoneAssumption ==
    /\ None \notin Uids \cup Generated /\ None \notin AnyTime /\ None \notin {AllProp, PropName}
    /\ None \notin {"@", "A~", "(c)", "DAV:", "caldav", "multiget", "query", "sync"}

VARIABLES
    rows,           \* calendar_objects: uid -> row; NoRow without one
    exchange        \* the last request, as the client means it, and its answer

contentsVars == <<rows, exchange>>

AllUids == Uids \cup Generated

(* An object: its body, what its author means by it, and the columns that  *)
(* the server is known to read otherwise.                                  *)
Object(body, meant, spoiled) == [body |-> body, meant |-> meant, spoiled |-> spoiled]

NoRow == [object |-> None, fields |-> NoFields]

\* asked: what the client means; got: what the server understood; style: how it
\* was written; uids: the objects in the answer.
Exchange(kind, asked, got, style, uids) ==
    [kind |-> kind, asked |-> asked, got |-> got, style |-> style, uids |-> uids]

NoExchange == Exchange("none", None, None, None, {})

Stored == {u \in AllUids : rows[u] # NoRow}

ContentsInit ==
    /\ rows = [u \in AllUids |-> NoRow]
    /\ exchange = NoExchange

----------------------------------------------------------------------------
(* The names in URLs *)

\* The href of an object, after its calendar's; nothing in it is escaped.
FileName(uid) == Append(uid, ".ics")

\* PUT, GET and DELETE drop the suffix as often as it is there.
uid_from_url(name) == trim_end_matches(name, ".ics")

\* There is a place for every object that a PUT may make.
ASSUME PlaceAssumption ==
    /\ \A uid \in AllUids : uid_from_url(FileName(uid)) \in AllUids
    /\ \A line \in Alarms : line.name = "UID" => line.value \in AllUids

\* The bytes of the characters that clients escape: one for "@", two for the
\* letter e with an accent.
Escaped(c) ==
    CASE c = "@"  -> <<"%", "4", "0">>
      [] c = "e'" -> <<"%", "C", "3", "%", "A", "9">>
      [] OTHER    -> <<c>>

\* Every byte that two hexadecimal digits stand for becomes a character of its
\* own; None for other digits.
FromHex(h1, h2) ==
    CASE <<h1, h2>> = <<"4", "0">> -> "@"
      [] <<h1, h2>> = <<"C", "3">> -> "A~"
      [] <<h1, h2>> = <<"A", "9">> -> "(c)"
      [] OTHER -> None

\* Mutant: the escapes are not decoded.
percent_keep(s) == s

(* An escape that is none leaves its "%" and drops the two characters      *)
(* after it.                                                               *)
decode_char(d, c) ==
    CASE d.escape = <<>> /\ c # "%"  -> [d EXCEPT !.out = Append(@, c)]
      [] d.escape = <<>> /\ c = "%"  -> [d EXCEPT !.escape = <<c>>]
      [] Len(d.escape) = 1           -> [d EXCEPT !.escape = Append(@, c)]
      [] Len(d.escape) = 2           ->
             [out    |-> Append(d.out, IF FromHex(d.escape[2], c) = None THEN "%"
                                       ELSE FromHex(d.escape[2], c)),
              escape |-> <<>>]

Decoding == INSTANCE OnePass WITH Step <- decode_char

percent_decode(s) ==
    LET end == Decoding!Run([out |-> <<>>, escape |-> <<>>], s)
    IN  IF end.escape = <<>> THEN end.out ELSE Append(end.out, "%")

\* rsplit('/').next()
LastSegment(href) ==
    LET starts == {n \in 0 .. Len(href) : \A i \in n + 1 .. Len(href) : href[i] # "/"} IN
    SubSeq(href, 1 + (CHOOSE n \in starts : \A m \in starts : n <= m), Len(href))

\* handle_multiget: the uids of the hrefs that end in .ics
UidsOf(hrefs) ==
    LET names == {LastSegment(hrefs[i]) : i \in DOMAIN hrefs} IN
    {percent_decode(Front(name)) : name \in {n \in names : n # <<>> /\ Last(n) = ".ics"}}

escape_char(out, c) == out \o Escaped(c)

Escaping == INSTANCE OnePass WITH Step <- escape_char

\* How a client may write an href: as it was listed, or with escapes.
Written(uid, escaped) ==
    IF escaped THEN Escaping!Run(<<>>, FileName(uid)) ELSE FileName(uid)

----------------------------------------------------------------------------
(* The bodies that clients PUT *)

\* The lines of an event, its UID folded or not, or without a UID.
Uid(uid, folded) ==
    IF uid = None THEN <<>>
    ELSE IF folded THEN <<Line("UID", <<>>), Continuation(uid)>>
    ELSE <<Line("UID", uid)>>

Alarm(line) == <<Line("BEGIN", "VALARM"), Line("TRIGGER", Opaque), line, Line("END", "VALARM")>>

Event(uid, folded, start, end, title, line) ==
    <<Line("BEGIN", "VCALENDAR"), Line("BEGIN", "VEVENT")>> \o Uid(uid, folded)
    \o <<Line("DTSTART", start)>> \o (IF end = None THEN <<>> ELSE <<Line("DTEND", end)>>)
    \o <<Line("SUMMARY", title)>> \o Alarm(line)
    \o <<Line("END", "VEVENT"), Line("END", "VCALENDAR")>>

Todo(uid, due) ==
    <<Line("BEGIN", "VCALENDAR"), Line("BEGIN", "VTODO")>> \o Uid(uid, FALSE)
    \o <<Line("DUE", due), Line("END", "VTODO"), Line("END", "VCALENDAR")>>

\* An event with one changed occurrence: the same UID twice, and two starts.
Recurring(uid, start, end, moved) ==
    <<Line("BEGIN", "VCALENDAR")>>
    \o <<Line("BEGIN", "VEVENT"), Line("UID", uid), Line("DTSTART", start), Line("DTEND", end),
         Line("RRULE", Opaque), Line("END", "VEVENT")>>
    \o <<Line("BEGIN", "VEVENT"), Line("UID", uid), Line("RECURRENCE-ID", start),
         Line("DTSTART", moved), Line("DTEND", moved), Line("END", "VEVENT")>>
    \o <<Line("END", "VCALENDAR")>>

\* The spans that clients write: a start and an end of the same form.
Spans == {span \in Times \X Times :
             /\ Before(span[1], span[2])
             /\ span[1].hour = -1 <=> span[2].hour = -1
             /\ span[1].z = span[2].z}

Meaning(uid, start, end, title, type) ==
    [uid |-> uid, dtstart |-> start, dtend |-> end, summary |-> title, component_type |-> type]

(* A blank at the end of the title is cut, and a line of the alarm takes   *)
(* the place of the event's.                                               *)
EventObject(uid, folded, start, end, title, line) ==
    Object(Event(uid, folded, start, end, title, line),
           Meaning(uid, start, end, OneLine(title), "VEVENT"),
           {c \in {"summary"} : trim(title) # title}
           \cup (CASE line.name = "SUMMARY" -> {"summary"}
                   [] line.name = "UID"     -> {"uid"}
                   [] OTHER                 -> {}))

TodoObject(uid, due) == Object(Todo(uid, due), Meaning(uid, None, due, None, "VTODO"), {})

\* The times of the changed occurrence take the place of those of the series.
RecurringObject(uid, start, end, moved) ==
    Object(Recurring(uid, start, end, moved), Meaning(uid, start, end, None, "VEVENT"),
           {"dtstart", "dtend"})

ObjectsWith(uid) ==
    {EventObject(uid, FALSE, span[1], span[2], CHOOSE t \in Titles : trim(t) = t, line) :
        span \in Spans, line \in Alarms}
    \cup {EventObject(uid, TRUE, t, None, title, Line("DESCRIPTION", Opaque)) :
             t \in {s \in Times : s.hour = -1}, title \in Titles}
    \cup {TodoObject(uid, t) : t \in {s \in Times : s.z = 1}}
    \cup (IF uid = None THEN {}
          ELSE {RecurringObject(uid, span[1], span[2], span[2]) :
                   span \in {s \in Spans : s[1].z = 1}})

Objects == [uid \in Uids \cup {None} |-> ObjectsWith(uid)]

----------------------------------------------------------------------------
\* upsert_object
Upsert(uid, object, fields) ==
    /\ uid \in Stored \/ Cardinality(Stored) < MaxRows
    /\ rows' = [rows EXCEPT ![uid] = [object |-> object, fields |-> [fields EXCEPT !.uid = uid]]]

\* Mutant: the object is stored under the name in the URL.
PutByUrl(named, object) ==
    LET name == uid_from_url(FileName(named)) IN
    /\ Upsert(name, object, extract_fields(object.body))
    /\ exchange' = Exchange("PUT", named, object, None, {name})

(* handle_put without If-Match: the uid of the body, or else of the URL.   *)
Put(named, object) ==
    LET fields == extract_fields(object.body)
        target == IF fields.uid = None THEN uid_from_url(FileName(named)) ELSE fields.uid
    IN
    /\ Upsert(target, object, fields)
    /\ exchange' = Exchange("PUT", named, object, None, {target})

\* A client puts an object of its own, or one that it was given.
SendPut ==
    /\ exchange.kind = "none"
    /\ \/ \E named \in Uids, uid \in Uids \cup {None} :
              \E object \in Objects[uid] : Put(named, object)
       \/ \E uid \in Stored : Put(uid, rows[uid].object)

\* The arguments of create_event and update_event.  Times are well formed and
\* names of time zones have no line breaks.
Arguments ==
    {[title |-> w.title, description |-> w.description, location |-> w.location,
      timezone |-> w.timezone, start |-> span[1], end |-> span[2]] :
        w \in Wordings, span \in Spans}

\* The columns are the arguments; the body is built from them.
Columns(args) == Meaning(None, args.start, args.end, args.title, "VEVENT")

\* What is read from the body, should a client put it back: more lines in a text
\* can change everything, a colon in the time zone the times.
BuiltObject(uid, args) ==
    Object(build_vevent(uid, args), [Columns(args) EXCEPT !.uid = uid],
           IF \E text \in {args.title, args.description, args.location} \ {None} : text.more # <<>>
             THEN DOMAIN NoFields
             ELSE {c \in {"dtstart", "dtend"} : HasColon(args.timezone)}
                  \cup {c \in {"summary"} : trim(args.title.first) # args.title.first})

Build(kind, uid, args) ==
    /\ Upsert(uid, BuiltObject(uid, args), Columns(args))
    /\ exchange' = Exchange(kind, args, None, None, {uid})

CreateEvent ==
    /\ exchange.kind = "none"
    /\ \E uid \in {u \in Generated : rows[u] = NoRow}, args \in Arguments :
           Build("create_event", uid, args)

UpdateEvent(uid) ==
    /\ exchange.kind = "none"
    /\ rows[uid] # NoRow
    /\ \E args \in Arguments : Build("update_event", uid, args)

(* handle_delete_object. *)
Delete(named) ==
    LET uid == uid_from_url(FileName(named)) IN
    /\ exchange.kind = "none"
    /\ uid \in Stored
    /\ rows' = [rows EXCEPT ![uid] = NoRow]
    /\ exchange' = Exchange("DELETE", named, None, None, {uid})

\* Mutant: the bounds are bound in the other order.
in_swapped_range(row, start, end) ==
    /\ row.fields.dtstart # None /\ row.fields.dtend # None
    /\ Before(row.fields.dtstart, start)
    /\ Before(end, row.fields.dtend)

(* list_objects_in_range: columns and bounds are compared as strings.      *)
in_range(row, start, end) ==
    /\ row.fields.dtstart # None /\ row.fields.dtend # None
    /\ Before(row.fields.dtstart, end)
    /\ Before(start, row.fields.dtend)

\* handle_query, and query_events with both ends or none
Select(start, end) ==
    {u \in Stored : start # None /\ end # None => in_range(rows[u], start, end)}

(* handle_report: the objects in the answer.  A sync report with a token   *)
(* is in SyncReports.                                                      *)
Answered(report) ==
    CASE report.type = "multiget" -> UidsOf(report.hrefs) \cap Stored
      [] report.type = "query"    -> Select(report.start, report.end)
      [] OTHER                    -> Stored

\* The reports that clients mean and write, with what the server reads.
Sent(asked, props, style) ==
    [asked |-> asked, style |-> style, got |-> parse_report(WriteReport(asked, props, style))]

SetOf(props) == {props[i] : i \in DOMAIN props}

PlainStyle == [naming |-> "root", closed |-> TRUE, level |-> FALSE]

Multigets ==
    {Sent(AReport("multiget", {}, hrefs, None, None, <<>>), <<>>, PlainStyle) :
        hrefs \in {<<Written(u, TRUE)>> : u \in AllUids}
                  \cup {<<Written(u, TRUE), Written(v, FALSE)>> : u, v \in Uids}}

Queries ==
    {Sent(AReport("query", {}, <<>>, range[1], range[2], <<>>), <<>>, PlainStyle) :
        range \in Ranges}

Syncs ==
    {Sent(AReport("sync", SetOf(props), <<>>, None, None, token), props, style) :
        props \in PropLists, token \in {<<>>, <<"t">>}, style \in Style}

Report(sent) ==
    /\ exchange.kind = "none"
    /\ exchange' = Exchange("REPORT", sent.asked, sent.got, sent.style, Answered(sent.got))
    /\ UNCHANGED rows

\* How a body is read does not depend on the rows: the many ways to write one are
\* only tried in an empty calendar.
SendReport ==
    \/ \E sent \in Multigets \cup Queries : Report(sent)
    \/ Stored = {} /\ \E sent \in Syncs : Report(sent)

(* PROPFIND on the collection, as far as its body goes. *)
SendPropfind ==
    /\ exchange.kind = "none" /\ Stored = {}
    /\ \E kind \in {"allprop", "propname", "prop"}, props \in PropLists, style \in Style :
           exchange' = Exchange("PROPFIND",
                                CASE kind = "allprop" -> AllProp
                                  [] kind = "propname" -> PropName
                                  [] kind = "prop" -> Props(SetOf(props)),
                                parse_propfind(WritePropfind(kind, props, style)), style, {})
    /\ UNCHANGED rows

(* A report that is no XML, or about something else: 400. *)
SendUnknown ==
    /\ exchange.kind = "none" /\ Stored = {}
    /\ \E body \in {<<>>, <<Start("sync-collection"), [Start("") EXCEPT !.tag = "error"]>>,
                    <<Start("principal-search"), End("principal-search")>>} :
           exchange' = Exchange("unknown", None, parse_report(body), None, {})
    /\ UNCHANGED rows

\* The client has read the answer.
Conclude ==
    /\ exchange.kind # "none"
    /\ exchange' = NoExchange
    /\ UNCHANGED rows

ContentsNext ==
    \/ SendPut
    \/ CreateEvent
    \/ \E uid \in AllUids : UpdateEvent(uid)
    \/ \E named \in AllUids : Delete(named)
    \/ SendReport
    \/ SendPropfind
    \/ SendUnknown
    \/ Conclude

ContentsSpec == ContentsInit /\ [][ContentsNext]_contentsVars

----------------------------------------------------------------------------
(* A row is at the uid that its author means and its columns say what its  *)
(* author means, whichever client or tool wrote the body and whoever puts  *)
(* it back: folding, the VTIMEZONE and alarms change nothing.  Only the    *)
(* columns that are spoiled may be wrong: the summary, by blanks at its    *)
(* end or by the SUMMARY of an alarm, the uid, by the UID of an alarm, the *)
(* times, by a changed occurrence or a colon in the time zone, and any, by *)
(* a line break in an argument of a tool.                                  *)
ColumnsAsMeant ==
    \A u \in Stored :
        LET object == rows[u].object IN
        \A c \in DOMAIN NoFields \ object.spoiled :
            \/ rows[u].fields[c] = object.meant[c]
            \/ c = "uid" /\ object.meant.uid = None

\* Uids that stay one segment of an href and hold no suffix and no escape.
Ordinary(uid) == uid # <<>> /\ \A i \in DOMAIN uid : uid[i] \notin {"%", "/", ".ics"}

\* A character that is escaped as more than one byte.
Ascii(uid) == \A i \in DOMAIN uid : uid[i] # "e'"

(* An object that is meant to have the uid of its URL, or none, is where   *)
(* it was put; one with another uid changes the object of that uid and     *)
(* leaves the one at the URL alone.  Not so if an alarm, or a line in an   *)
(* argument of a tool, brings a UID of its own.                            *)
PutWhereNamed ==
    [][\A named \in Uids :
          (/\ exchange'.kind = "PUT" /\ exchange'.asked = named
           /\ Ordinary(named) /\ "uid" \notin exchange'.got.spoiled) =>
              IF exchange'.got.meant.uid \in {None, named}
                THEN rows'[named].object = exchange'.got
                ELSE rows'[named] = rows[named]]_contentsVars

(* The hrefs that the server lists lead back to their objects, for GET and *)
(* DELETE and for calendar-multiget, and there for a client that escapes   *)
(* them too, unless the escapes are of more than one byte.                 *)
ListedHrefsWork ==
    \A u \in Stored :
        Ordinary(u) => /\ uid_from_url(FileName(u)) = u
                       /\ \A escaped \in BOOLEAN :
                              ~ escaped \/ Ascii(u) => UidsOf(<<Written(u, escaped)>>) = {u}

\* Hours since the first day, for a DATE or a time in UTC.
Instant(t) == 24 * t.day + IF t.hour = -1 THEN 0 ELSE t.hour

Utc(t) == t \in AnyTime /\ (t.z = 1 \/ t.hour = -1)

(* Of the events whose times are dates or in UTC, a report with a time     *)
(* range returns exactly those that overlap it, although the columns are   *)
(* compared as strings of different lengths; only a date that begins at    *)
(* the end of the range may come in addition.  Half a range is none.       *)
RangeExactInUtc ==
    exchange.kind = "REPORT" /\ exchange.asked.type = "query" =>
        \A u \in Stored :
            LET f   == rows[u].fields
                r   == exchange.asked
                all == r.start = None \/ r.end = None
            IN
            /\ all => u \in exchange.uids
            /\ ~ all /\ Utc(f.dtstart) /\ Utc(f.dtend) =>
                   /\ Instant(f.dtstart) < Instant(r.end) /\ Instant(r.start) < Instant(f.dtend)
                          => u \in exchange.uids
                   /\ u \in exchange.uids =>
                          /\ Instant(r.start) < Instant(f.dtend)
                          /\ Instant(f.dtstart) <= Instant(r.end)
                          /\ Instant(f.dtstart) = Instant(r.end) => f.dtstart.hour = -1

\* An empty sync-token without an end tag, and a text after it.
TokenLeftOpen ==
    /\ exchange.kind = "REPORT" /\ exchange.asked.type = "sync"
    /\ exchange.asked.sync_token = <<>> /\ exchange.style.closed /\ exchange.style.level

\* A default namespace that a property declares for itself, and another property
\* relies on the one of the root.
DefaultOverridden == exchange.style.naming = "mixed"

\* The elements that parse_report looks for.
ReportNames == DOMAIN Types \cup Flags \cup {"time-range", "filter", "comp-filter"}

\* A report asks for a property that is called like one of them: DAV:sync-token.
NameTaken ==
    exchange.kind = "REPORT" /\ \E p \in exchange.asked.props : p.local \in ReportNames

(* The server understands a request as the client means it, however the    *)
(* client declares its namespaces and writes empty elements, but for the   *)
(* three cases above.                                                      *)
RequestUnderstood ==
    /\ exchange.kind \in {"REPORT", "PROPFIND"}
       /\ ~ TokenLeftOpen /\ ~ DefaultOverridden /\ ~ NameTaken =>
           exchange.got = IF exchange.kind = "PROPFIND" THEN exchange.asked
                          ELSE time_range(exchange.asked)
    /\ exchange.kind = "unknown" => exchange.got = NoReport

(* "First sync (no token)": a sync-collection report with an empty         *)
(* sync-token is an initial sync.                                          *)
EmptyTokenMeansInitial ==
    exchange.kind = "REPORT" /\ exchange.asked.type = "sync" /\ exchange.asked.sync_token = <<>> =>
        exchange.got.sync_token = <<>>

=============================================================================
