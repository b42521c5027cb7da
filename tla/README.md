# caldav-mcp in TLA+

A model of the calendar server in `src/`: a CalDAV server and an MCP server,
two axum routers in one tokio process over one SQLite pool of five connections.
The modules say what the handlers do to the database statement by statement,
TLC checks the properties below on small instances, and TLAPS proves
their safety properties for any number of calendars, objects, users and requests.

The one fact that shapes everything: **no code opens a transaction.** Each SQL
statement commits on its own, handlers run concurrently, and axum drops a
handler at an `.await` when its client disconnects. So the unit of atomicity is
the statement, and what a handler read one statement ago may be stale.

## 1. The system

| Component | State | Operations | Works with |
|---|---|---|---|
| Database (`migrations/001_initial.sql`, `src/db`) | calendars (owner, ctag = sync token, properties), objects (uid, etag, body), shares, `sync_changes`, users, tokens | one function per query | everyone |
| Object requests (`caldav/put.rs`, `delete.rs`, `mcp/tools/events.rs`) | the locals of each handler | PUT, DELETE, create/update/delete_event | database; clients by ETag and If-Match |
| Sync reports (`caldav/report.rs`, `xml/multistatus.rs`) | the response being built | REPORT sync-collection | database; the client's copy and token |
| Collection requests (`mkcalendar.rs`, `proppatch.rs`, `mcp/tools/calendars.rs`, `sharing.rs`) | the locals of each handler | MKCALENDAR, PROPPATCH, DELETE, create/delete/share/unshare_calendar | database |
| MCP endpoint (`src/mcp`) | session map behind a mutex, tokens table | POST, GET, DELETE /mcp | tools; the command line, which is a process of its own |
| Simple mode (`mcp/tools/simple.rs`) | none | add/delete/list_events on a calendar it finds or creates | database |
| Accounts (`db/users.rs`, `caldav/auth.rs`, CLI) | users table | create-user, reset-password, verify_user | all routes; the command line, a process of its own |
| Routing and discovery (`caldav/mod.rs`, `wellknown.rs`, `xml/properties.rs`) | none | redirects, three ways to authenticate, PROPFIND on roots and homes | accounts; clients that follow URLs |
| Reading requests (`propfind.rs`, `report.rs`, `get.rs`, MCP read tools) | none | PROPFIND, multiget, query, GET, list/get_calendar, query_events, get_event | database; the client's copy and ctag |
| Formats (`src/ical`, `xml/parse.rs`) | none, pure | extract_fields, build_vevent, parse_propfind, parse_report | PUT, tools, reports |

What is hard in it, in one line each (the full list with lines is under
`hazards` in PROJECT.json): check-then-act in `upsert_object`, If-Match,
MKCALENDAR, PROPPATCH and `resolve_calendar`; three statements per write that
can be cut off between any two; a change log ordered by its own INSERTs and not
by the row writes; a report that reads token, log and rows at different moments;
errors read as empty results; a response limit; calendars that disappear, and
come back, under their requests; users created and passwords reset between the
two queries of an authentication; redirects and principals that must lead
somewhere; times compared as strings; one-pass parsers with flags.

What makes each part correct:

* objects: a row is created once, every mutation gets into the log, a request
  acts on its object at one instant, If-Match replaces what it names;
* reports: an unchanged token means nothing to fetch, nothing is omitted, the
  mirror converges;
* collections: an id is created once per lifetime, no orphaned rows, tokens are
  never reused, a PROPPATCH touches what it names;
* readers: a ctag that is still current means a current copy, whichever requests
  fetched it, and a reader converges;
* accounts and discovery: a username is created once, a request is served for
  whom its credentials (or, without any, its URL) name, a client finds its
  calendar from any entry point;
* formats: the columns of a row say what the author of its body means, hrefs lead
  back to their objects, a request is understood as it was meant;
* MCP: a request runs for its token's user, and its client should be told the
  session it has opened, so that it can close it (it is not: mcp_session); simple
  mode has one default calendar and finds what it added.

## 2. Modules

```
Store ──┬── ObjectRequests ──┬── SyncReports ────────┐
        │                    ├── Polling             │
        │                    ├── SimpleMode          ├── Server
        │                    └── ObjectsRefinement ──│──── AtomicObjects (abstract)
        └── CollectionRequests ──────────────────────┘
Accounts ───┐
Properties ─┴── Discovery
OnePass ── ICalendar, Properties ── XmlRequests ── Contents
McpServer
ObjectRequestsProofs, ServerProofs, PollingProofs, SimpleModeProofs,
DiscoveryProofs, McpServerProofs, ContentsProofs        proofs
MCRequests, MCSync, MCPolling, MCServer, MCFaults, MCMcp, MCSimple,
MCDiscovery, MCContents                                 instances
```

**Store.** `owner`, `sync_token`, `shares`, `objects`, `sync_changes` are the
tables; an operator is a statement with its constraints (foreign key, UNIQUE,
primary key, CASCADE). Every etag, sync token and change id is drawn from one
counter `issued`: UUIDs never collide, and the code only compares etags and
tokens for equality and change ids with each other. An object row *is* its
etag, because every write draws a new one; 0 stands for "no row" and for the
empty token. `ctag` and `sync_token` are one variable: each statement that
writes one writes the same value to the other. The `permission` of a share is
not kept, as no code consults it.

**ObjectRequests.** One process per request; `pc[r]` is the statement it
executes next.

| Action | Code |
|---|---|
| `Arrive`, `VerifyAccess` | handle_object, handle_email_object; the body checks of handle_put |
| `CheckIfMatch` | handle_put's comparison |
| `LookupEvent` | update_event's existence check |
| `SelectExisting`, `InsertRow`, `UpdateRow`, `LogChange`, `Bump`, `ReadBack` | upsert_object |
| `DeleteRow`, `LogChange`, `Bump` | delete_object |
| `Drop`, `Fail` | a dropped future; a statement that fails |

The MCP tools do no access check, so they start at their first statement.
create_event's uid is a fresh UUID: `Arrive` lets nobody else name it before
the row exists.

**AtomicObjects** and **ObjectsRefinement.** The abstract specification: a
request is called, decided in one instant in which it sees the object and
changes it, and returns; no statements, log or tokens. `ObjectsRefinement` maps
`ObjectRequests` to it: the deciding instant is the statement that writes the
row, everything before it counts as called, everything after it as decided
(`Progress`), and a decided request already has the answer it is going to give
(`Outcome`). Only
clients that take turns on an object get this (`Exclusive`); with overlap,
lost_update is the counterexample.

**Polling.** The requests that only read, one step per statement, beside the
writers of `ObjectRequests`. Two external clients: a *poller* compares the ctag
of the home's list or of the collection with the one it kept, lists the etags
(Depth 1), fetches what is new by multiget, by query or by GET, and keeps the
ctag of the PROPFIND; an *agent* calls list_calendars, get_calendar,
query_events and get_event for each. `stage[k]` is the next statement. A report
above `BodyLimit` objects is answered with an empty body (the 512 KiB of
handle_report), query_events returns `QueryLimit` of the rows. With "unread" among
the faults any statement of a reader may fail. Most failures are told to the
client (`FailRead`); the lists of a PROPFIND, a multiget and a query turn into
empty ones (`RowsRead`), and `misread[k]` remembers that what the reader has kept
came from such a list.

**Accounts** and **Discovery.** `users` is the table in the order of insertion.
A string can be one user's name and another's email, as nothing in the code
forbids it. create-user is an INSERT and a reading back, reset-password an
UPDATE. Discovery has one operator per handler of the router
(`handle_server_root`, `handle_caldav_email_discovery`, ...), the steps of
authentication (`VerifyByUsername`, `VerifyByEmail`, `ResolvePath`), the list of
a home and the opening of a calendar. The client (external) starts at any route,
with any method and header, follows redirects and principals, sends its
credentials when challenged and opens a calendar it finds listed.
**Properties** gives the property names of each resource and the URLs among
their values; `filter_props` selects from them. A header that is not readable
(`to_str` fails) counts as none, and `FailQuery` is a query that fails: it is
answered as wrong credentials, as an empty home, or with 403 or 404. `ever`,
`right` and `sure` are history variables for the properties.

**OnePass, ICalendar, XmlRequests, Contents.** Bodies are sequences of lines, XML is the
sequence of the reader's events, uids, titles and names of time zones are
sequences of characters, a time is a day, an hour (none in a DATE) and a Z flag,
ordered as the strings are. A text argument of a tool is its first line and the
lines of the body that the rest becomes, as nothing is escaped. The
operators are the code's functions. Each is one loop with flags: its body is an
operator from the state and the current element to the next state
(`join_line`, `read_line`, `decode_char`, `propfind_event`, `report_event`), and
`OnePass`, instantiated with it, is the loop. Contents applies them to one calendar whose requests come one after the other:
PUT with and without a uid in the body, the two tools that build bodies, DELETE,
and the three reports and PROPFIND as clients write them. `exchange` keeps what
the client meant and what the server understood. An object is a body together
with what its author means by it, and with the columns that are known to come out
otherwise (`spoiled`: a title that ends in a blank, an alarm with a SUMMARY or
UID, a changed occurrence, a line break in an argument, a colon in a time zone).

**SyncReports.** handle_sync, one step per statement (`ReadCalendar`,
`ListObjects` or `FindAnchor` + `ReadChanges`, `AddEntry` per change), the size
limit in `Deliver`, lost responses, failing queries. The client is external: it
keeps a copy and a token, applies the entries in order (the last one of a uid
decides; one without a 200 part removes the object, the most benign reading of
the status-less element the server sends) and asks again with its token. Body
text, hrefs and XML are left out; the size of a response is its number of
entries.

**CollectionRequests.** `step[m]` as `pc` above; PROPPATCH's read and write of
all property columns are two steps, and a column's value is a drawn number. A
deletion and its answer are two steps as well (`RemoveCalendar`, `Confirm`): the
handler can be dropped in between.

**Server.** The conjunction of the three over one database. Interleaving only;
the components meet in the tables.

**McpServer.** Bearer authentication (one query, then the hashes), the body,
handle_request, the response; `CreateToken` and `DeleteToken` run at any time.
Clients know only the session ids that responses carried. The tools are opaque
here.

**SimpleMode.** resolve_calendar in front of ObjectRequests: list, perhaps
create and read back, then the upsert, the deletion or the query. `Rank` is the
order of the calendars' names. list_events takes `Limits` of what the query
found; which events a time range selects is left open here.

## 3. Runs

All passing runs are exhaustive.

| Run | Instance | Shows |
|---|---|---|
| polling | 3 parties, of which 1 may be a poller or an agent whose queries may fail; 2 objects, writers and deleters racing for one, a creator of the other; fair | `PollingTypeOK`; `LogBalance` (creations = deletions + presence, counting what is about to be logged); `MutationsLogged`; `CurrentCtagMeansCurrentCopy`; `EventuallyPolled` |
| sync | 3 writers that take turns on an object: on 1 object beside a polling mirror, or on 2 objects side by side; fair | `ImplementsAtomicObjects`, `LogAgreesWithRows`, `CurrentTokenMeansCurrentCopy`, `EventuallyMirrored`, `Answered` |
| server | 2 writers, 2 objects, a mirror whose responses may be lost, 2 requests that delete and create the calendar | `CurrentTokenMissesNothing`, `AnswersOwnEtag` |
| faults | 3 collection requests of any kind, 2 calendars, 2 users; or 2 of them (one of which creates or deletes) beside an object request of any kind and a mirror; every fault | `ServerTypeOK`, `NoOrphans`, `DeltaIsWholeLog`, `TokensNotReused`, `OneCreationPerLifetime` |
| simple | 3 calls one after the other, 2 users, 4 calendars, limits 1 and 2 | `OneDefaultCalendar`, `AddedIsListed` |
| discovery | 1 client from any of 7 routes with any header, 2 commands, 2 strings that serve as names and emails, 2 passwords, failing queries; fair | `DiscoveryTypeOK`, `CreatedOnce`, `ServedAccountNamed`, `UsernameLoginWorks`, `OwnCalendarFound`, `DiscoveryEnds` |
| formats | sequences of requests on a calendar of up to 2 objects; 3 chosen uids and a generated one, 6 times, 6 ranges, 2 titles, 3 alarms, 7 wordings of tool arguments, 16 styles of XML | `ColumnsAsMeant`, `ListedHrefsWork`, `RangeExactInUtc`, `RequestUnderstood`, `PutWhereNamed` |

`Exclusive = TRUE` restricts the *clients*: no two requests for one object at
the same time (in simple mode, no two calls).

**Bounds.** A race in this code is between two requests on one object or one
calendar; three requests let a third one set the stage (create the row) or
observe (a later PUT with an etag it was answered). One object suffices for a
race, two for the independence of objects and for the order of a response; in
sync, the requests for two objects overlap and the ones for the same do not. Two
managers delete and re-create a calendar; three allow two creations and a
deletion. `ReportLimit = 99` is "never reached", 1 is "reached by the second
change". In polling, `Crowd = 3` bounds requests and readers together, and
`BodyLimit = QueryLimit = 1` with two objects makes both limits bite. In
discovery, two commands are enough to change the table between the two queries of
an authentication and once more after it, and a row may be there from the start;
the client always has the login `Login` and `Password`, which the commands make
right or wrong. In simple, limit 1 cuts a calendar of two events and limit 2 does
not. In formats, the uids are one with a letter of two bytes, the same with
".ics" at its end, one with a slash and a generated one with the "@" that
clients escape; the wordings are the plain one and one for each way in which a
text or a time zone can get in the way; the times are dates, times in UTC
(midnight included) and local times; how a body is read does not depend on the
rows, so the styles of XML are tried in an empty calendar only. Two rows are what
a PUT with another uid than its URL's needs. Numbers are unbounded but drawn a bounded number of times, as every
request runs once.

**Fairness.** `Spec` and `FairSyncSpec` assume weak fairness of each handler's
next statement: tokio polls every ready future, and a statement in WAL mode
returns. `Polling` assumes in addition a client that keeps asking and whose
requests are answered. `FairPollingSpec` assumes the same of its readers, and that
their requests do not fail for ever (a database whose every query fails shows
nobody anything); `FairDiscoverySpec` that the client which got an answer goes on. No fairness for arrivals, faults or managers.

**Deadlock** is checked where a client goes on for ever (sync, server, formats).
The other runs say `CHECK_DEADLOCK FALSE`: their requests all end.

### Disagreements between the code and what is written about it

Each of these runs checks one statement of a document or comment, which TLC
refutes on the model; PROJECT.json quotes the line.

| Run | What the code does |
|---|---|
| lost_update | two PUTs with one If-Match both succeed: comparison and UPDATE are separate statements |
| delta_news | log rows carry tokens that no calendar ever has, so every delta is the whole log |
| initial_sync | `<sync-token/>` sets a flag that nothing clears: the "1" of the following `<sync-level>` becomes the token, and an initial sync is handled as a delta |
| mcp_session | the session map is asked for the user id instead of a session, so `initialize` is answered without `Mcp-Session-Id`, and no client can name its session to DELETE /mcp |
| email_discovery | an email URL without credentials is served for the account with that email, with Depth 1 its calendar list included |

The other half of what is said of email_discovery, the same 207 for known and
unknown emails, is not so either: an unknown one is answered 401
(`handle_caldav_email_discovery` and `ResolvePath` of the model;
`src/caldav/mod.rs` line 369 against line 289).

initial_sync does no harm only because of delta_news: an unknown token is
answered with the whole log. Objects that are not in the log (a dropped handler)
are missing from the client's first copy.

### What the passing runs depend on

The properties below hold under the restriction that their run makes and fail
without it. To see the counterexample, change the constant in the run's cfg, or
the property where the table says so.

| Property | Change | What then happens | Against |
|---|---|---|---|
| `LogAgreesWithRows` (sync) | `Exclusive = FALSE` | PUT and DELETE log in the other order than they wrote: the log ends in "deleted", the row is there | `docs/images/flow-report.svg` line 251 |
| `AnswersOwnEtag` (server) | `Exclusive = FALSE` | a PUT answers the etag of whoever wrote last | `docs/images/flow-put-event.svg` line 312 |
| `MutationsLogged` (server) | add the invariant and `Faults = {"drop"}` | a handler dropped after the row write leaves an unlogged object | `docs/database.md` line 111 |
| `CurrentTokenMeansCurrentCopy` (sync) | `Faults = {"unread"}` | a failing query becomes an empty report with a new token | `docs/caldav-api.md` line 557 |
| `CurrentTokenMeansCurrentCopy` | in place of `CurrentTokenMissesNothing` (server) | a client of a re-created calendar keeps the objects of the old one | comment at `src/db/events.rs` line 237 |
| `EventuallyMirrored` (sync) | `ReportLimit = 1` | once the log exceeds the limit the client gets empty bodies for ever | `docs/caldav-api.md` line 577 |
| `OneDefaultCalendar` (simple) | `Exclusive = FALSE`, `Created = {}` | two first calls create two default calendars | comment at `src/mcp/tools/simple.rs` line 73 |
| `CurrentCtagMeansCurrentCopy`, `EventuallyPolled` (polling) | without the condition `misread` | a failing query becomes an empty list beside the current ctag: the poller drops its copy, keeps the ctag and is content with it until the calendar changes | nothing |
| `CurrentCtagMeansCurrentCopy` (polling) | without the conjunct `Whole` | an agent above the limit of query_events holds a part of the calendar and does not know | nothing |
| `OneCreationPerLifetime` (faults) | count only answered deletions in `DeletedBy` | a DELETE is committed and its handler dropped, and the next MKCALENDAR is confirmed without a confirmed deletion before it | nothing |
| `AddedIsListed` (simple) | without the condition on the limit | an event beyond the limit is not listed | nothing |
| `UsernameLoginWorks` (discovery) | let `FailQuery` keep `right` | a query of verify_user fails, and right credentials are answered 401 | nothing |
| `ColumnsAsMeant` (formats) | without `spoiled` | see below | nothing |
| `ListedHrefsWork` (formats) | without `Ascii`, or without the slash in `Ordinary` | multiget finds no object for an escaped letter of two bytes, as each byte is decoded to a character, and none for a uid with a slash, as only the last segment counts | comment at `src/caldav/report.rs` line 7 |
| `RangeExactInUtc` (formats) | without the condition `Utc` | a local time is compared as if it were UTC, and an event without DTEND is never in a range | `docs/caldav-api.md` line 511 |
| `RequestUnderstood` (formats) | without the exception `NameTaken` | parse_report matches names wherever they are: `sync-token` inside `prop` sets the flag of the token and is not among the properties asked for | nothing |
| `RequestUnderstood` (formats) | without the exception `DefaultOverridden` | the `xmlns` of one property is taken for the default of those after it, which rely on the root's | nothing: the comment at `src/caldav/xml/parse.rs` line 26 says that declarations accumulate |

`delta_news` and `CurrentTokenMeansCurrentCopy` belong together: the mismatch of
tokens makes reports long, and it also is what makes them safe. Since a delta
replays the whole log and each entry shows the row as it is now, no writer
between its row write and its log entry can be missed (`DeltaIsWholeLog`,
proved). Storing one token in both places without a transaction would lose that.

Met in the code and without a run:

* a deletion in a sync report has two empty property lists, for which
  `add_response` writes no status at all (comment at `src/caldav/report.rs` line
  211: "For deletions, return a 404 status for that href");
* `update_calendar` reads all columns and writes them back, so a PROPPATCH
  restores what a concurrent one just set (`docs/images/flow-proppatch.svg` line
  179); the race is in `CollectionRequests`;
* the home below `/caldav/users/` has no calendar-home-set (comment at
  `src/caldav/mod.rs` line 252); clients that take the principal for the home
  find their calendars all the same (`OwnCalendarFound`);
* PROPPATCH bumps no ctag although `docs/database.md` line 55 says so;
  `users.email` has no UNIQUE constraint although `docs/database.md` line 28
  lists one; the permission of a share is stored and shown but grants read-write
  either way;
* the last line of a name counts, in nested components too: the columns of a
  recurring event are those of its last changed occurrence, the SUMMARY of an
  alarm is the event's summary, and the UID of an alarm decides which row a PUT
  writes;
* build_vevent escapes nothing: after a line break, the rest of a title, a
  description or a location is lines of the body, and the times are not read
  correctly behind a time zone with a colon. The columns are the tool's arguments
  all the same; they change when a client puts the body back. A title's last
  blanks are then lost (`trim`);
* a uid that holds a percent sign, or ends in ".ics", is not found by the href it
  is listed under (`Ordinary` in `ListedHrefsWork`);
* a header that `to_str` cannot read is treated as absent
  (`src/caldav/mod.rs` line 94), so the request is served for the user in its
  path.

## 4. Proofs

Every safety property of a passing run is proved, and of McpServer, which only the
mcp_session run explores, that requests run for their tokens' users. The theorems hold for any
number of calendars, objects, users, requests and clients, and for uids, times,
property lists and hrefs of any number and length.

**Assumptions** on constants are the named ones of the modules, which TLC
evaluates on the instances: `StoreAssumptions`, `RequestAssumptions`,
`ReportLimitAssumption`, `CollectionAssumptions`, `PollingAssumptions`,
`SimpleAssumptions`, `AccountsAssumptions`, `DiscoveryAssumptions`,
`UrlAssumption`, `ContentsAssumptions`, `UidAssumption`, `TextAssumption`,
`RangeAssumption`, `NoneAssumption`, `PlaceAssumption`; `McpAssumptions` is a
hypothesis of the theorems about McpServer. They say that markers
such as `NoUser` are no elements of the sets they are used with, that calendars
and uids are finite sets, and that tasks and limits have their types; of the
formats, that a uid is a sequence of characters that does not end in a blank, a
time a day with an hour or without, that the ranges clients ask for are in UTC (as CalDAV has it), and that no
property is called `prop`, `allprop` or `propname` (`PropNames`). What a theorem needs
beyond them is in its own statement, and section 3 shows what happens without
it: `Exclusive` (clients take turns), `UndisturbedSpec` (no dropped handler, no
failing statement), `Faults \subseteq {"lose"}` (responses may be lost, no
handler is cut off and no query fails), different names for the calendars that
simple mode sorts.

| Theorem | Specification | States | Needs |
|---|---|---|---|
| `TypeCorrect` | `Spec` | `[]TypeOK` | |
| `EveryMutationLogged` | `UndisturbedSpec` | `[]MutationsLogged` | |
| `BalancedLog` | `UndisturbedSpec` | `[]LogBalance` | |
| `Atomicity` | `UndisturbedSpec` | `ImplementsAtomicObjects` | `Exclusive` |
| `LogAgreement` | `UndisturbedSpec` | `[]LogAgreesWithRows` | `Exclusive` |
| `ServerTypeCorrect` | `ServerSpec` | `[]ServerTypeOK` | |
| `WholeLogDelta` | `ServerSpec` | `[]DeltaIsWholeLog` | |
| `TokenFreshness` | `ServerSpec` | `TokensNotReused` | |
| `OrphanFreedom` | `ServerSpec` | `[]NoOrphans` | |
| `OwnEtagAnswered` | `ServerSpec` | `[]AnswersOwnEtag` | `Exclusive` |
| `CreationsConfirmedOnce` | `CollectionSpec` | `[]OneCreationPerLifetime` | |
| `CurrentTokenSuffices` | `ServerSpec` | `[]CurrentTokenMissesNothing` | `Exclusive`, only lost responses |
| `CurrentTokenIsCurrentCopy` | `SyncSpec` | `[]CurrentTokenMeansCurrentCopy` | `Exclusive`, only lost responses |
| `PollingTypeCorrect` | `PollingSpec` | `[]PollingTypeOK` | |
| `CurrentCtagSuffices` | `PollingSpec` | `[]CurrentCtagMeansCurrentCopy` | (the last fetch not misread, in the property) |
| `OneDefault` | `SimpleSpec` | `[]OneDefaultCalendar` | `Exclusive` |
| `AddedThenListed` | `SimpleSpec` | `AddedIsListed` | `Exclusive`, different names |
| `DiscoveryTypeCorrect` | `DiscoverySpec` | `[]DiscoveryTypeOK` | |
| `UsersCreatedOnce` | `DiscoverySpec` | `[]CreatedOnce` | |
| `NobodyElseServed` | `DiscoverySpec` | `[]ServedAccountNamed` | |
| `RightLoginAccepted` | `DiscoverySpec` | `[]UsernameLoginWorks` | |
| `WalkEndsAtOwnCalendar` | `DiscoverySpec` | `[]OwnCalendarFound` | |
| `RequestsRunForTokenOwner` | `McpSpec` | `[]RunsForTokenOwner` | |
| `NoSessionIdIsSent` | `McpSpec` | no response has a session id | |
| `ColumnsAgree` | `ContentsSpec` | `[]ColumnsAsMeant` | |
| `PutsLand` | `ContentsSpec` | `PutWhereNamed` | |
| `HrefsLeadBack` | `ContentsSpec` | `[]ListedHrefsWork` | |
| `RangesExact` | `ContentsSpec` | `[]RangeExactInUtc` | |
| `RequestsUnderstood` | `ContentsSpec` | `[]RequestUnderstood` | |

The arguments, module by module:

*ObjectRequestsProofs.* `TypeOK` is inductive. `EtagsFresh`: all etags that are
stored, answered or drawn are at most `issued`, and a request about to write
holds one which nobody else has. `LogInvariant`: only writers are about to log,
rows belong to existing calendars (so that `LogChange` cannot fail on the
foreign key), and every row is logged or about to be. `BalanceInvariant`: the
equation of `LogBalance`, together with the finiteness of the sets it counts
(finitely many requests have arrived) and with `Marked`, which says which kind
of request is at which statement; a step changes at most one of the four
cardinalities and the row. `TurnsTaken` is for
clients that take turns: one writer per object, whose row is its own until it
answers.

*ObjectRequestsProofs, the refinement.* The mapping is `Progress` and `Outcome` of
`ObjectsRefinement`. The invariant `RefinementInvariant` adds to types and etags
that an object has one request at a time (`OneWriter`) and what each request
knows of its row at each statement (`Knowledge`): what it compared or selected
still holds when it writes. The lemma `Simulation` then maps each action: the
statement that writes the row is the deciding instant, the return is the
return, the rest stutters. `LogFollowsRows` says that a log whose object is not
being written ends as the row is.

*ServerProofs.* Every step of the composition does one of a few things to the
tables (`StoreNext`: one `Statement`, a `Draw`, or nothing), and the invariants
are proved about those. `TokensSeparate`: every token is at most `issued`, no
token of a calendar, a client or a report in progress is in any log, so no
report finds an anchor. `LifetimeInvariant` compares, per calendar, the creations
that are confirmed or still to be read back (`Claims`) with the deletions that
are committed (confirmed, waiting for their answer, or cut off before it) and the
present lifetime.

*ServerProofs, the reports.* What a client's token vouches for. `Covers` says of the
first n changes of a log what a response built from them must say: for an object
whose last change so far agrees with its row, the last entry shows the row.
`ReportFits` applies it to each stage of a report, under `Live` (the token that
the report read is still the current one, and nobody is on the way to change
it); the whole log is replayed (`WholeLogDelta`) and holds an entry for every
row (`ServerLog`), so the delivered copy is complete. That a client holds
nothing that was deleted needs more: an object it holds is known to the log for
good (`Known`, `AbsenceFits`), hence `SyncInvariant`, and a calendar that is not
deleted.

*PollingProofs.* `PollingInvariant`: if the ctag a reader has read is still
current and nobody is between a row write and the bump, then what it no longer
wants to fetch is as stored (`ListedIsCurrent`, `KeptIsCurrent`). A row that
changes after the reader listed it has a writer that bumps later, and a drawn
token never comes back (`TokensDrawn`).

*SimpleModeProofs.* `SimpleInvariant`: one call is under way, a default calendar
is its owner's only one, nobody shares, and from its resolution on, a call's
calendar stays the first of its user (`Resolution`); so the next call resolves
to it too.

*DiscoveryProofs.* `AccountsInvariant`: usernames are unique, and the row of a
command that created it stays. `WalkFits` relates, for each stage of a client,
its URL, the account it is served for and the history variables to the rows of
the table: in particular every URL in an answer is one that exists and, for a
client whose names are its own, leads to its own home (`Leads`). Rows are never
removed or renamed (`TableGrows`), so what a client was told stays true.

*McpServerProofs.* `TokensAsIssued`: a stored token belongs to the user it was
issued to. `SessionsUnknown`: sessions are kept under session ids, which are no
user ids, so the lookup under a user's id finds nothing and no client knows the
id of a session.

*OnePass.* What a loop over a sequence of any length computes. The library states
induction with an operator parameter, which the provers cannot instantiate, so
`Induction` is proved here from well-foundedness, for a property that is given as
a *set* of numbers; and the loop's body is a CONSTANT operator, so that each
instance (`Reading`, `Decoding`, `Reports`, ...) has the theorems for its own
body. `StatesOf` shows that the recursive function exists, `RunConcat` that a
loop over two sequences is the second after the first, `RunFew`, `RunSix`,
`RunAppend` and `RunIdle` what it does at a few elements, at one more, and at
elements that change nothing.

*ContentsProofs.* Names: `uid_from_url` takes off the suffix that `FileName`
adds, and only that if the uid has none itself (`UrlBack`); the last segment of an
href without a slash is the href (`OneSegment`); decoding an escaped uid gives the
uid, by induction over its characters. Bodies: each body is cut
into pieces, and the state of the loop after each piece is given (`Inside` and
`Outside` a component, with the fields read so far); unfolding changes none of the
lines but the folded UID. `ReadsAsMeant` says of an object that the columns read
from its body are the meant ones but for the spoiled; it holds for every body that
clients write (`ObjectsRead`) and for what build_vevent writes (`BuiltReads`).
`RowsInv` is the inductive invariant: every row is as meant, and reading its body
once more is so too. A client that puts back a body it was given needs the second
part. Ranges: `Before` is compared with `Instant` for a date
and for a time in UTC on either side. XML: `At` (and `PropfindAt`) says where the
loop is, namely with which flags and which report so far; the prefixes it knows
are left open but for `Keeps`, that those declared by the root are still there.
Each kind of element moves `At` in its own way, a list of properties or of hrefs
does so by induction over its length, and the bodies are put together from these.

`SyncInvariant`, `MirrorInvariant`, `PollingInvariant`, `SimpleInvariant` and
`DiscoveryInvariant` also hold on the instances of section
3: TLC checks them in a module that extends an MC module and a proof module (the
number of replayed changes in `ReportFits` then needs the bound it has anyway,
the length of the log).

**Only model-checked**: liveness (`EventuallyMirrored`, `EventuallyPolled`,
`DiscoveryEnds`, `Answered`), which is outside what TLAPS proves.

## 5. Not modelled, and the plan

What is left for proofs: `CurrentCtagSuffices` over a composition of `Polling`
with `CollectionRequests`, where the calendar may be deleted and created again
under its readers.

What could still be modelled: simple mode together with sharing and calendar
creation, where the default calendar changes between calls; list_shared_calendars
(one query per share); the splitting of the migration into statements.

Of the arguments of the tools, times are well formed, and names of time zones and
uids have no line breaks; uids do not end in blanks.

Left out for good: the text of responses, HTTP formatting, logging,
configuration, error texts, the offsets that build_vevent writes into a VTIMEZONE
(constants per zone), password hashing (an equality), startup, SQLite itself.
