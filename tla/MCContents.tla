----------------------------- MODULE MCContents -----------------------------
(***************************************************************************)
(* Instances of Contents.                                                  *)
(***************************************************************************)
EXTENDS Contents

\* A uid with a letter of two bytes, one that ends like a file name and one with a
\* slash.
SmallUids == {<<"e'">>, <<"e'", ".ics">>, <<"x", "/", "y">>}

\* generate_uid: "<uuid>@caldav-server"
SmallGenerated == {<<"g", "@">>}

\* The first one is cut.
SmallTitles == {<<"t", " ">>, <<"t">>}

\* Some clients give alarms a SUMMARY or a UID.
SmallAlarms ==
    {Line("DESCRIPTION", Opaque), Line("SUMMARY", <<"a">>), Line("UID", <<"x", "/", "y">>)}

Wording(title, description, location, timezone) ==
    [title |-> title, description |-> description, location |-> location, timezone |-> timezone]

\* Without oddities; with a blank, with a line break, with a line break and the
\* UID or the SUMMARY of something else, with a colon in the time zone.
SmallWordings ==
    LET t == OneLine(<<"t">>) IN
    {Wording(t, None, None, None),
     Wording(t, OneLine(<<"d">>), OneLine(<<"l">>), <<"z">>),
     Wording(OneLine(<<"t", " ">>), None, None, None),
     Wording(Argument(<<"t">>, <<Continuation(<<"u">>)>>), None, None, None),
     Wording(Argument(<<"t">>, <<Line("UID", <<"e'">>)>>), None, None, None),
     Wording(t, None, Argument(<<"l">>, <<Line("SUMMARY", <<"s">>)>>), None),
     Wording(t, None, None, <<"z", ":", "z">>)}

\* Dates, times in UTC (midnight included) and local times.
SmallTimes ==
    {Time(1, -1, 0), Time(2, -1, 0), Time(1, 9, 1), Time(2, 0, 1), Time(1, 9, 0), Time(1, 12, 0)}

SmallRanges ==
    {<<Time(1, 0, 1), Time(1, 9, 1)>>, <<Time(1, 9, 1), Time(2, 0, 1)>>,
     <<Time(2, 0, 1), Time(2, 9, 1)>>, <<Time(0, 0, 1), Time(1, 0, 1)>>,
     <<Time(1, 0, 1), None>>, <<None, Time(1, 0, 1)>>}

\* The last one asks for the property that is called like an element of a report.
SmallPropLists ==
    {<<Prop("DAV:", "getetag"), Prop("caldav", "calendar-data")>>,
     <<Prop("caldav", "calendar-data"), Prop("DAV:", "getetag")>>,
     <<Prop("DAV:", "sync-token"), Prop("caldav", "calendar-data")>>}

=============================================================================
