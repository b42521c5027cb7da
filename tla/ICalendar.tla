----------------------------- MODULE ICalendar -----------------------------
(***************************************************************************)
(* What the server reads from an iCalendar body (src/ical/parser.rs) and   *)
(* what it writes into one (src/ical/builder.rs).                          *)
(*                                                                         *)
(* A body is a sequence of lines: a property name, a time zone parameter   *)
(* and a value.  The values of UID, SUMMARY, DESCRIPTION and LOCATION are  *)
(* strings, sequences of characters: lines are folded and trimmed, and the *)
(* builder writes them as they are.  So are the names of time zones.       *)
(***************************************************************************)
EXTENDS Integers, Sequences, SequencesExt

CONSTANTS
    None,           \* a property or a parameter that is not there
    Opaque          \* a value that no code of the server looks at

\* A string that the builder is given: what is before the first line break, and
\* the lines of the body that the rest becomes.
Argument(first, more) == [first |-> first, more |-> more]

OneLine(string) == Argument(string, <<>>)

\* The string without the c's at its end.
trim_end_matches(string, c) ==
    LET kept == {n \in 0 .. Len(string) : \A i \in n + 1 .. Len(string) : string[i] = c} IN
    SubSeq(string, 1, CHOOSE n \in kept : \A m \in kept : n <= m)

\* trim: a line that starts with a blank is a continuation, so that only the end
\* of its value is cut.
trim(string) == trim_end_matches(string, " ")

\* A time as it is written: day, hour (-1 in a DATE), and whether Z ends it.
Time(day, hour, z) == [day |-> day, hour |-> hour, z |-> z]

\* The rest of a time zone's name, a colon and a time: letters come after digits.
Displaced == Time(10000, 0, 0)

\* The order of the strings: a DATE is a prefix of the times of its day, and a
\* local time of the same time in UTC.
Before(s, t) ==
    \/ s.day < t.day
    \/ s.day = t.day /\ s.hour < t.hour
    \/ s.day = t.day /\ s.hour = t.hour /\ s.z < t.z

Line(name, value) == [name |-> name, tzid |-> None, value |-> value]

Zoned(name, zone, value) == [name |-> name, tzid |-> zone, value |-> value]

\* A line that starts with a space: more of the value before it.
Continuation(value) == Line(" ", value)

----------------------------------------------------------------------------
(* unfold_lines: a continuation goes to the end of the line before it.     *)
join_line(lines, line) ==
    IF line.name = " " /\ lines # <<>>
      THEN Append(Front(lines), [Last(lines) EXCEPT !.value = @ \o line.value])
      ELSE Append(lines, line)

Unfolding == INSTANCE OnePass WITH Step <- join_line

unfold_lines(body) == Unfolding!Run(<<>>, body)

NoFields == [uid |-> None, dtstart |-> None, dtend |-> None, summary |-> None,
             component_type |-> "VEVENT"]

\* Whether the pass is inside a component, after a BEGIN or an END.
enter_component(s, line) ==
    LET component == line.value \in {"VEVENT", "VTODO"} IN
    CASE line.name = "BEGIN" /\ component ->
             [in_component |-> TRUE, fields |-> [s.fields EXCEPT !.component_type = line.value]]
      [] line.name = "END" /\ component -> [in_component |-> FALSE, fields |-> s.fields]
      [] OTHER -> s

HasColon(zone) == zone # None /\ \E i \in DOMAIN zone : zone[i] = ":"

\* extract_property: everything up to the first colon is skipped, wherever it is.
extract_property(line) == IF HasColon(line.tzid) THEN Displaced ELSE line.value

\* The times in bodies have no blanks.
read_property(fields, line) ==
    CASE line.name = "UID"     -> [fields EXCEPT !.uid = trim(line.value)]
      [] line.name = "DTSTART" -> [fields EXCEPT !.dtstart = extract_property(line)]
      [] line.name = "DTEND"   -> [fields EXCEPT !.dtend = extract_property(line)]
      [] line.name = "DUE" /\ fields.dtend = None ->
             [fields EXCEPT !.dtend = extract_property(line)]
      [] line.name = "SUMMARY" -> [fields EXCEPT !.summary = OneLine(trim(line.value))]
      [] OTHER -> fields

read_line(s, line) ==
    LET now == IF line.name \in {"BEGIN", "END"} THEN enter_component(s, line) ELSE s IN
    IF now.in_component \/ line.name = "UID"
      THEN [now EXCEPT !.fields = read_property(@, line)] ELSE now

Reading == INSTANCE OnePass WITH Step <- read_line

(* extract_fields: one pass over the lines.  The last line of a name       *)
(* counts, but for DUE.                                                    *)
extract_fields(body) ==
    Reading!Run([in_component |-> FALSE, fields |-> NoFields], unfold_lines(body)).fields

----------------------------------------------------------------------------
(* build_vevent: the VTIMEZONE, if there is a zone, and the event.         *)
(* Nothing is folded and nothing is escaped: what follows a line break in  *)
(* a title, a description or a location is a line of the body.             *)
vtimezone(zone) ==
    LET change(kind) == <<Line("BEGIN", kind), Line("DTSTART", Opaque), Line("RRULE", Opaque),
                          Line("TZOFFSETFROM", Opaque), Line("TZOFFSETTO", Opaque),
                          Line("END", kind)>>
    IN  <<Line("BEGIN", "VTIMEZONE"), Line("TZID", zone)>>
        \o change("STANDARD") \o change("DAYLIGHT") \o <<Line("END", "VTIMEZONE")>>

text_lines(name, text) ==
    IF text = None THEN <<>> ELSE <<Line(name, text.first)>> \o text.more

\* Mutant: the time zone is written into the event.
build_with_inner_zone(uid, args) ==
    <<Line("BEGIN", "VCALENDAR"), Line("BEGIN", "VEVENT"), Line("UID", uid),
      Zoned("DTSTART", args.timezone, args.start), Zoned("DTEND", args.timezone, args.end)>>
    \o text_lines("SUMMARY", args.title)
    \o (IF args.timezone # None THEN vtimezone(args.timezone) ELSE <<>>)
    \o <<Line("END", "VEVENT"), Line("END", "VCALENDAR")>>

build_vevent(uid, args) ==
    <<Line("BEGIN", "VCALENDAR"), Line("VERSION", Opaque), Line("PRODID", Opaque)>>
    \o (IF args.timezone # None THEN vtimezone(args.timezone) ELSE <<>>)
    \o <<Line("BEGIN", "VEVENT"), Line("UID", uid), Line("DTSTAMP", Opaque)>>
    \o <<Zoned("DTSTART", args.timezone, args.start), Zoned("DTEND", args.timezone, args.end)>>
    \o text_lines("SUMMARY", args.title)
    \o text_lines("DESCRIPTION", args.description) \o text_lines("LOCATION", args.location)
    \o <<Line("END", "VEVENT"), Line("END", "VCALENDAR")>>

=============================================================================
