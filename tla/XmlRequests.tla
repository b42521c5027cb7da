---------------------------- MODULE XmlRequests ----------------------------
(***************************************************************************)
(* The bodies of PROPFIND and REPORT: how the server reads them, one pass  *)
(* over the events of the XML reader (src/caldav/xml/parse.rs), and how    *)
(* clients (external) write them.                                          *)
(*                                                                         *)
(* A name is a namespace and a local name; texts are sequences of          *)
(* characters.  An element carries its prefix ("" for none), the default   *)
(* namespace it declares (None if it declares none) and the prefixes it    *)
(* declares, a function to namespaces.                                     *)
(***************************************************************************)
EXTENDS ICalendar, Properties

Prop(ns, local) == [ns |-> ns, local |-> local]

\* The events of the reader.  Blank text between elements is trimmed away.
Element(tag, local, prefix, xmlns, prefixes) ==
    [tag |-> tag, local |-> local, prefix |-> prefix, xmlns |-> xmlns, prefixes |-> prefixes,
     text |-> <<>>, start |-> None, end |-> None]

NoPrefixes == [p \in {} |-> None]

Start(local) == Element("start", local, "D", None, NoPrefixes)

Empty(local) == Element("empty", local, "D", None, NoPrefixes)

End(local) == Element("end", local, "D", None, NoPrefixes)

Text(text) == [Start("") EXCEPT !.tag = "text", !.text = text]

----------------------------------------------------------------------------
\* Mutant: the declarations of the first element are forgotten.
register_one(map, e) ==
    LET declared == IF e.xmlns = None THEN {} ELSE {""} IN
    [p \in DOMAIN e.prefixes \cup declared |->
        IF p \in declared THEN e.xmlns ELSE e.prefixes[p]]

(* NsContext: every declaration is kept to the end of the body.            *)
register(map, e) ==
    LET declared == IF e.xmlns = None THEN {} ELSE {""} IN
    [p \in DOMAIN map \cup DOMAIN e.prefixes \cup declared |->
        IF p \in declared THEN e.xmlns
        ELSE IF p \in DOMAIN e.prefixes THEN e.prefixes[p] ELSE map[p]]

\* The namespaces that prefixes stand for without a declaration.
WellKnown == [D |-> "DAV:", C |-> "caldav", A |-> "apple", CS |-> "calendarserver"]

resolve(map, e) ==
    IF e.xmlns # None THEN e.xmlns
    ELSE IF e.prefix \in DOMAIN map THEN map[e.prefix]
    ELSE IF e.prefix \in DOMAIN WellKnown THEN WellKnown[e.prefix] ELSE "DAV:"

----------------------------------------------------------------------------
\* in: the prop element, while the pass is inside one; result: once it has ended.
InPropfind(result, in, map, props) ==
    [result |-> result, in |-> in, map |-> map, props |-> props]

\* The body of parse_propfind's loop.
propfind_event(s, e) ==
    LET map == register(s.map, e) IN
    IF s.result # None THEN s
    ELSE CASE e.tag = "text"  -> s
           [] e.tag = "error" -> InPropfind(AllProp, s.in, s.map, s.props)
           [] e.tag = "end"   -> InPropfind(None, s.in \ {e.local}, s.map, s.props)
           [] e.tag \in {"start", "empty"} ->
                CASE e.local = "allprop"  -> InPropfind(AllProp, s.in, map, s.props)
                  [] e.local = "propname" -> InPropfind(PropName, s.in, map, s.props)
                  [] e.local = "prop"     -> InPropfind(None, {"prop"}, map, s.props)
                  [] OTHER -> InPropfind(None, s.in, map,
                                         IF s.in = {} THEN s.props
                                         ELSE s.props \cup {Prop(resolve(map, e), e.local)})

Propfind == INSTANCE OnePass WITH Step <- propfind_event

(* parse_propfind: allprop and propname end the pass; so does an error.    *)
parse_propfind(body) ==
    LET end == Propfind!Run(InPropfind(None, {}, NoPrefixes, {}), body)
    IN  IF end.result # None THEN end.result
        ELSE IF end.props = {} THEN AllProp ELSE Props(end.props)

\* A report: only a multiget has hrefs, a query a time range, a sync a token.
AReport(type, props, hrefs, start, end, sync_token) ==
    [type |-> type, props |-> props, hrefs |-> hrefs, start |-> start, end |-> end,
     sync_token |-> sync_token]

\* No report: the handler answers 400.
NoReport == AReport(None, {}, <<>>, None, None, <<>>)

\* The elements whose start sets a flag, which their end clears.
Flags == {"prop", "href", "sync-token"}

Types == [name \in {"calendar-multiget", "calendar-query", "sync-collection"} |->
             CASE name = "calendar-multiget" -> "multiget"
               [] name = "calendar-query"    -> "query"
               [] name = "sync-collection"   -> "sync"]

(* A time range without a start or an end is none.                         *)
time_range(r) ==
    IF r.start # None /\ r.end # None THEN r
    ELSE AReport(r.type, r.props, r.hrefs, None, None, r.sync_token)

\* The flags tell where a text belongs.
report_text(in, r, e) ==
    IF "href" \in in THEN [r EXCEPT !.hrefs = Append(@, e.text)]
    ELSE IF "sync-token" \in in THEN [r EXCEPT !.sync_token = e.text] ELSE r

\* An attribute that is not there leaves what was read before.
Attribute(value, old) == IF value = None THEN old ELSE value

report_open(in, map, r, e) ==
    CASE e.local \in DOMAIN Types  -> [r EXCEPT !.type = Types[e.local]]
      [] e.local = "time-range"    -> AReport(r.type, r.props, r.hrefs, Attribute(e.start, r.start),
                                              Attribute(e.end, r.end), r.sync_token)
      [] e.local \in Flags \cup {"filter", "comp-filter"} -> r
      [] OTHER -> IF "prop" \in in
                    THEN [r EXCEPT !.props = @ \cup {Prop(resolve(map, e), e.local)}] ELSE r

\* in: the flags that are set.
InReport(in, map, report) == [failed |-> FALSE, in |-> in, map |-> map, report |-> report]

\* The body of parse_report's loop.
report_event(s, e) ==
    LET map == register(s.map, e) IN
    CASE s.failed                      -> s
      [] ~ s.failed /\ e.tag = "error" -> [s EXCEPT !.failed = TRUE]
      [] ~ s.failed /\ e.tag = "end"   -> InReport(s.in \ {e.local}, s.map, s.report)
      [] ~ s.failed /\ e.tag = "text"  -> InReport(s.in, s.map, report_text(s.in, s.report, e))
      [] OTHER -> InReport(s.in \cup ({e.local} \cap Flags), map,
                          report_open(s.in, map, s.report, e))

Reports == INSTANCE OnePass WITH Step <- report_event

(* parse_report: an element without content sets its flag like any other,  *)
(* and has no end that would clear it.                                     *)
parse_report(body) ==
    LET end == Reports!Run(InReport({}, NoPrefixes, NoReport), body)
        r   == end.report
    IN  IF end.failed \/ r.type = None THEN NoReport
        ELSE CASE r.type = "multiget" -> AReport("multiget", r.props, r.hrefs, None, None, <<>>)
               [] r.type = "query" -> time_range(AReport("query", r.props, <<>>, r.start, r.end, <<>>))
               [] r.type = "sync"  -> AReport("sync", r.props, <<>>, None, None, r.sync_token)

----------------------------------------------------------------------------
(* The clients' side.  A style says how names get their namespace and how  *)
(* an empty element is written.                                            *)

\* root: prefixes that the first element declares; element: prefixes declared
\* where they are used; default: xmlns on every property; mixed: properties of
\* DAV: without a prefix, under the root's xmlns, others with their own xmlns.
Naming == {"root", "element", "default", "mixed"}

Style == [naming : Naming, closed : BOOLEAN, level : BOOLEAN]

Declared == [p \in {"P", "Q"} |-> IF p = "P" THEN "DAV:" ELSE "caldav"]

PrefixOf(ns) == IF ns = "DAV:" THEN "P" ELSE "Q"

RootElement(style, local) ==
    CASE style.naming = "root"  -> Element("start", local, "P", None, Declared)
      [] style.naming = "mixed" -> Element("start", local, "", "DAV:", NoPrefixes)
      [] OTHER -> Start(local)

PropElement(style, p) ==
    CASE style.naming = "root"    -> Element("empty", p.local, PrefixOf(p.ns), None, NoPrefixes)
      [] style.naming = "element" -> Element("empty", p.local, PrefixOf(p.ns), None,
                                             [q \in {PrefixOf(p.ns)} |-> p.ns])
      [] style.naming = "default" -> Element("empty", p.local, "", p.ns, NoPrefixes)
      [] style.naming = "mixed"   -> Element("empty", p.local, "",
                                             IF p.ns = "DAV:" THEN None ELSE p.ns, NoPrefixes)

PropElements(style, props) ==
    <<Start("prop")>> \o [i \in DOMAIN props |-> PropElement(style, props[i])] \o <<End("prop")>>

WritePropfind(kind, props, style) ==
    CASE kind = "allprop"  -> IF style.closed
                                THEN <<RootElement(style, "propfind"), Empty("allprop"), End("propfind")>>
                                ELSE <<>>
      [] kind = "propname" -> <<RootElement(style, "propfind"), Empty("propname"), End("propfind")>>
      [] kind = "prop"     -> <<RootElement(style, "propfind")>> \o PropElements(style, props)
                              \o <<End("propfind")>>

WithText(local, text) == <<Start(local), Text(text), End(local)>>

TokenElement(token, style) ==
    IF token # <<>> THEN WithText("sync-token", token)
    ELSE IF style.closed THEN <<Empty("sync-token")>>
    ELSE <<Start("sync-token"), End("sync-token")>>

add_href(body, href) == body \o WithText("href", href)

Hrefs == INSTANCE OnePass WITH Step <- add_href

\* asked is a report as the client means it, with its properties in an order.
WriteReport(asked, props, style) ==
    CASE asked.type = "sync" ->
             <<RootElement(style, "sync-collection")>> \o TokenElement(asked.sync_token, style)
             \o (IF style.level THEN WithText("sync-level", <<"1">>) ELSE <<>>)
             \o PropElements(style, props) \o <<End("sync-collection")>>
      [] asked.type = "multiget" ->
             <<RootElement(style, "calendar-multiget")>> \o PropElements(style, props)
             \o Hrefs!Run(<<>>, asked.hrefs)
             \o <<End("calendar-multiget")>>
      [] asked.type = "query" ->
             <<RootElement(style, "calendar-query")>> \o PropElements(style, props)
             \o <<Start("filter"), Start("comp-filter"), Start("comp-filter"),
                  [Empty("time-range") EXCEPT !.start = asked.start, !.end = asked.end],
                  End("comp-filter"), End("comp-filter")>>
             \o <<End("filter"), End("calendar-query")>>

=============================================================================
