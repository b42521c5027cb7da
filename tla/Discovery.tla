----------------------------- MODULE Discovery -----------------------------
(***************************************************************************)
(* How a client finds its calendars: the routes and the three ways of      *)
(* authentication of src/caldav/mod.rs, Basic credentials (auth.rs,        *)
(* verify_user of src/db/users.rs), the well-known URL (wellknown.rs) and  *)
(* PROPFIND on the roots, the homes and a collection (propfind.rs), while  *)
(* commands create users and reset passwords.                              *)
(*                                                                         *)
(* The client (external) follows redirects and principals, sends its       *)
(* credentials when it is challenged or told that it is unauthenticated,   *)
(* takes the principal for the home if no calendar-home-set is there, and  *)
(* opens a calendar of the home's list.  Every user has one calendar here, *)
(* with the number of its row as id.                                       *)
(***************************************************************************)
EXTENDS Accounts, Properties

CONSTANTS
    Walkers,        \* the clients
    Login,          \* the name and the password that they have been given
    Password

ASSUME DiscoveryAssumptions == Login \in Names /\ Password \in Passwords

VARIABLES
    has,            \* whether the client has the credentials at all; never changes
    at,             \* the URL of its request
    method,         \* OPTIONS, PROPFIND, or another
    header,         \* the Authorization header: see Headers
    depth,          \* the Depth header
    stage,          \* how far the request, or the walk, has come
    account,        \* the row that authentication resolved, or 0
    answer          \* status, location, properties and calendars

\* History: the rows that the request may be answered for, as they were at some
\* instant since it was sent; whether username and password were right all that
\* time; the rows that alone had the walker's names since its walk began.  The
\* last two are empty once a query has failed.
VARIABLES ever, right, sure

walks == <<has, at, method, header, depth, stage, account, answer, ever, right, sure>>

discoveryVars == <<accounts, walks>>

Routes == {"well-known", "root", "caldav", "fallback", "principal", "users", "email"}

\* No header, Basic credentials, one that parse_basic_auth fails on early, or
\* one with bytes that are no visible ASCII.
Headers == {"none", "basic", "other", "garbled"}

Urls == [route : Routes, name : Names, calendar : Nat]

\* An href and <D:unauthenticated/> are told apart.
ASSUME UrlAssumption == Unauthenticated \notin Urls

DiscoveryTypeOK ==
    /\ AccountsTypeOK
    /\ has \in [Walkers -> BOOLEAN]
    /\ at \in [Walkers -> Urls]
    /\ method \in [Walkers -> {"OPTIONS", "PROPFIND", "other"}]
    /\ header \in [Walkers -> Headers]
    /\ depth \in [Walkers -> {0, 1}]
    /\ stage \in [Walkers -> {"off", "sent", "by username", "by email", "by path", "access",
                              "list", "answered", "found", "lost"}]
    /\ \A c \in Walkers : account[c] \in {0} \cup DOMAIN users
    /\ \A c \in Walkers : ever[c] \cup sure[c] \subseteq DOMAIN users

NoAnswer == [status |-> "none", props |-> Plain({}), calendars |-> Plain({})]

WalksInit ==
    /\ has \in [Walkers -> BOOLEAN]
    /\ at \in [Walkers -> {Url("root", name, NoCalendar) : name \in Names}]
    /\ method = [c \in Walkers |-> "PROPFIND"]
    /\ header = [c \in Walkers |-> "none"]
    /\ depth = [c \in Walkers |-> 0]
    /\ stage = [c \in Walkers |-> "off"]
    /\ account = [c \in Walkers |-> 0]
    /\ answer = [c \in Walkers |-> NoAnswer]
    /\ ever = [c \in Walkers |-> {}]
    /\ right = [c \in Walkers |-> FALSE]
    /\ sure = [c \in Walkers |-> {}]

DiscoveryInit == AccountsInit /\ WalksInit

----------------------------------------------------------------------------
(* What the histories remember *)

Knows(i) == users[i].password = Password

\* extract_auth_header: a header that fails to_str is as good as none.
extract_auth_header(c) == IF header[c] = "garbled" THEN "none" ELSE header[c]

\* The rows the request may be answered for: by its credentials, or else by its URL.
Candidates(c) ==
    {i \in DOMAIN users :
        \/ /\ extract_auth_header(c) = "basic"
           /\ Login \in {users[i].username, users[i].email} /\ Knows(i)
        \/ /\ extract_auth_header(c) = "none"
           /\ \/ at[c].route = "users" /\ users[i].username = at[c].name
              \/ at[c].route = "email" /\ users[i].email = at[c].name}

Right(c) == \E i \in DOMAIN users : users[i].username = Login /\ Knows(i)

\* Nobody else has the walker's login, or the name in its URL, for a name.
Sure(c) ==
    LET names == {Login, at[c].name} IN
    {i \in DOMAIN users :
        /\ Knows(i)
        /\ \A j \in DOMAIN users :
               j = i <=> {users[j].username, users[j].email} \cap names # {}
        /\ ByUsername(Login) \cup ByEmail(Login) = {i}}

----------------------------------------------------------------------------
(* The client *)

Send(c) ==
    /\ stage' = [stage EXCEPT ![c] = "sent"]
    /\ account' = [account EXCEPT ![c] = 0]
    /\ answer' = [answer EXCEPT ![c] = NoAnswer]
    /\ ever' = [ever EXCEPT ![c] = Candidates(c)']
    /\ right' = [right EXCEPT ![c] = Right(c)']

Begin(c) ==
    /\ stage[c] = "off"
    /\ \E route \in Routes : at' = [at EXCEPT ![c].route = route]
    /\ \E m \in {"OPTIONS", "PROPFIND", "other"} : method' = [method EXCEPT ![c] = m]
    /\ \E h \in Headers :
           /\ h = "basic" => has[c]
           /\ header' = [header EXCEPT ![c] = h]
    /\ UNCHANGED <<has, depth>>
    /\ Send(c)
    /\ sure' = [sure EXCEPT ![c] = Sure(c)]

End(c, label) ==
    /\ stage' = [stage EXCEPT ![c] = label]
    /\ answer' = [answer EXCEPT ![c] = NoAnswer]
    /\ UNCHANGED <<at, method, header, depth, account, ever, right>>

Visit(c, url, d) ==
    /\ at' = [at EXCEPT ![c] = url]
    /\ depth' = [depth EXCEPT ![c] = d]
    /\ UNCHANGED <<method, header>>
    /\ Send(c)

Retry(c, m, h) ==
    /\ method' = [method EXCEPT ![c] = m]
    /\ header' = [header EXCEPT ![c] = h]
    /\ UNCHANGED <<at, depth>>
    /\ Send(c)

CanAuthenticate(c) == has[c] /\ header[c] = "none"

Challenged(c) ==
    \/ answer[c].status = "401"
    \/ /\ answer[c].status = "207"
       /\ answer[c].props["current-user-principal"] = Unauthenticated

\* The home that the answer names, or the principal for want of one.
HomeIn(props) ==
    IF "calendar-home-set" \in DOMAIN props THEN props["calendar-home-set"]
    ELSE props["current-user-principal"]

\* The URLs of the home's list that are typed as calendars.
CalendarsIn(list) == {url \in DOMAIN list : "resourcetype" \in DOMAIN list[url]}

(* The client reads an answer and goes on. *)
Follow(c) ==
    LET status == answer[c].status
        props  == answer[c].props
    IN
    /\ stage[c] = "answered"
    /\ UNCHANGED <<has, sure>>
    /\ \/ status \in {"200", "405"} /\ method[c] # "PROPFIND" /\ Retry(c, "PROPFIND", header[c])
       \/ status = "301" /\ Visit(c, props["location"], 0)
       \/ Challenged(c) /\ CanAuthenticate(c) /\ Retry(c, method[c], "basic")
       \/ Challenged(c) /\ ~ CanAuthenticate(c) /\ End(c, "lost")
       \/ /\ status = "207" /\ ~ Challenged(c) /\ at[c].calendar = NoCalendar
          /\ depth[c] = 0
          /\ Visit(c, HomeIn(props), IF HomeIn(props) = at[c] THEN 1 ELSE 0)
       \/ /\ status = "207" /\ ~ Challenged(c) /\ at[c].calendar = NoCalendar
          /\ depth[c] = 1
          /\ \/ \E url \in CalendarsIn(answer[c].calendars) : Visit(c, url, 0)
             \/ CalendarsIn(answer[c].calendars) = {} /\ End(c, "lost")
       \/ status = "207" /\ ~ Challenged(c) /\ at[c].calendar # NoCalendar /\ End(c, "found")
       \/ status \in {"403", "404"} /\ End(c, "lost")

----------------------------------------------------------------------------
(* The server *)

Root(c) == at[c].route \in {"root", "caldav", "fallback"}

Collection(c) == at[c].calendar # NoCalendar

Propfind(c) == method[c] = "PROPFIND"

Step(c, label) ==
    /\ stage' = [stage EXCEPT ![c] = label]
    /\ UNCHANGED answer

Respond(c, status, props, calendars) ==
    /\ stage' = [stage EXCEPT ![c] = "answered"]
    /\ answer' = [answer EXCEPT ![c] =
                     [status |-> status, props |-> props, calendars |-> calendars]]

Status(c, status) == Respond(c, status, Plain({}), Plain({}))

Asked == Props({"resourcetype", "current-user-principal", "calendar-home-set"})

Multistatus(c, props, calendars) ==
    Respond(c, "207", filter_props(Asked, props).found, calendars)

\* Mutant: the principal's URL is answered with itself.
RedirectToPrincipal(c, url) ==
    Respond(c, "301", Holding({"location"}, IF at[c].route = "principal" THEN at[c] ELSE url), Plain({}))

Redirect(c, url) == Respond(c, "301", Holding({"location"}, url), Plain({}))

\* The roots answer all they have, whatever is asked.
RootStatus(c, props) == Respond(c, "207", props, Plain({}))

(* inline_auth, at the roots: whoever cannot be authenticated is answered  *)
(* without a principal.  parse_basic_auth fails early on any other header. *)
inline_auth(c) ==
    \/ extract_auth_header(c) = "basic" /\ Step(c, "by username")
    \/ extract_auth_header(c) # "basic" /\ RootStatus(c, root_props_unauthenticated)

(* auth_or_path_user and auth_or_email_user: the header, if there is one   *)
(* that can be read.                                                       *)
TryHeader(c) ==
    \/ extract_auth_header(c) = "basic" /\ Step(c, "by username")
    \/ extract_auth_header(c) = "other" /\ Status(c, "401")
    \/ extract_auth_header(c) = "none" /\ Step(c, "by path")

CaldavRoot(c) == Url("caldav", at[c].name, NoCalendar)

handle_well_known(c) == at[c].route = "well-known" /\ Redirect(c, CaldavRoot(c))

handle_server_root(c) ==
    /\ at[c].route = "root"
    /\ \/ Propfind(c) /\ inline_auth(c)
       \/ ~ Propfind(c) /\ Redirect(c, CaldavRoot(c))

handle_caldav_root(c) ==
    /\ at[c].route = "caldav"
    /\ \/ Propfind(c) /\ inline_auth(c)
       \/ ~ Propfind(c) /\ Status(c, "405")

handle_fallback_discovery(c) ==
    /\ at[c].route = "fallback"
    /\ \/ Propfind(c) /\ inline_auth(c)
       \/ ~ Propfind(c) /\ Status(c, "405")

handle_principal_discovery(c) ==
    at[c].route = "principal" /\ Redirect(c, UsersHome(at[c].name))

handle_caldav_email_discovery(c) ==
    /\ at[c].route = "email" /\ ~ Collection(c)
    /\ \/ Propfind(c) /\ TryHeader(c)
       \/ ~ Propfind(c) /\ Status(c, "405")

(* The method is looked at after the authentication. *)
handle_calendar_home(c) == at[c].route = "users" /\ ~ Collection(c) /\ TryHeader(c)

(* handle_calendar_collection and handle_email_calendar_collection.        *)
handle_calendar_collection(c) == Collection(c) /\ TryHeader(c)

(* The router.  OPTIONS is answered everywhere, before anything else.      *)
Dispatch(c) ==
    /\ stage[c] = "sent"
    /\ \/ method[c] = "OPTIONS" /\ Status(c, "200")
       \/ /\ method[c] # "OPTIONS"
          /\ \/ handle_well_known(c) \/ handle_server_root(c) \/ handle_caldav_root(c)
             \/ handle_fallback_discovery(c) \/ handle_principal_discovery(c)
             \/ handle_caldav_email_discovery(c) \/ handle_calendar_home(c)
             \/ handle_calendar_collection(c)
    /\ UNCHANGED account

Authenticated(c, i) ==
    /\ account' = [account EXCEPT ![c] = i]
    /\ \/ Root(c) /\ RootStatus(c, root_props(users[i].username))
       \/ ~ Root(c) /\ Collection(c) /\ Step(c, "access")
       \/ ~ Root(c) /\ ~ Collection(c) /\ Propfind(c) /\ Step(c, "list")
       \/ ~ Root(c) /\ ~ Collection(c) /\ ~ Propfind(c) /\ Status(c, "405")

\* Mutant: bad credentials are ignored below /caldav/users/.
RefusedUnlessPath(c) ==
    \/ Root(c) /\ RootStatus(c, root_props_unauthenticated) /\ UNCHANGED account
    \/ at[c].route = "users" /\ Step(c, "by path") /\ UNCHANGED account
    \/ at[c].route = "email" /\ Status(c, "401") /\ UNCHANGED account

(* unauthorized_response_fn; the roots answer without a principal instead. *)
Refused(c) ==
    /\ \/ Root(c) /\ RootStatus(c, root_props_unauthenticated)
       \/ ~ Root(c) /\ Status(c, "401")
    /\ UNCHANGED account

\* verify_user's last step, on the row that was fetched
CheckPassword(c, i) ==
    \/ Knows(i) /\ Authenticated(c, i)
    \/ ~ Knows(i) /\ Refused(c)

\* Mutant: one query for both columns.
VerifyByEither(c) ==
    /\ stage[c] = "by username"
    /\ \/ \E i \in ByUsername(Login) \cup ByEmail(Login) : CheckPassword(c, i)
       \/ ByUsername(Login) \cup ByEmail(Login) = {} /\ Step(c, "by email") /\ UNCHANGED account

\* Mutant: the login is a username only.
VerifyByUsernameOnly(c) ==
    /\ stage[c] = "by username"
    /\ \/ \E i \in ByUsername(Login) : CheckPassword(c, i)
       \/ ByUsername(Login) = {} /\ Refused(c)

(* verify_user: the row with the login as username ... *)
VerifyByUsername(c) ==
    /\ stage[c] = "by username"
    /\ \/ \E i \in ByUsername(Login) : CheckPassword(c, i)
       \/ /\ ByUsername(Login) = {}
          /\ Step(c, "by email")
          /\ UNCHANGED account

(* ... or else a row with the login as email, in a second statement.       *)
VerifyByEmail(c) ==
    /\ stage[c] = "by email"
    /\ \/ \E i \in ByEmail(Login) : CheckPassword(c, i)
       \/ ByEmail(Login) = {} /\ Refused(c)

(* auth_or_path_user, auth_or_email_user and the email home without a      *)
(* header: whoever the URL names.                                          *)
ResolvePath(c) ==
    LET named == IF at[c].route = "users" THEN ByUsername(at[c].name) ELSE ByEmail(at[c].name)
    IN
    /\ stage[c] = "by path"
    /\ \/ \E i \in named : Authenticated(c, i)
       \/ named = {} /\ Refused(c)

\* The home below which the answer's hrefs are, and its properties.
HomeOf(c) ==
    IF at[c].route = "email" THEN EmailHome(at[c].name) ELSE UsersHome(users[account[c]].username)

HomeProps(c) ==
    IF at[c].route = "email" THEN email_home_props(at[c])
    ELSE calendar_home_props(users[account[c]].username)

\* The list of the home: the user's calendar, and what is answered about it.
Listed(c, calendar) ==
    Holding({CalendarHref(HomeOf(c), calendar)},
            filter_props(Asked, IF at[c].route = "email"
                                  THEN calendar_props_for_context(HomeOf(c), calendar)
                                  ELSE calendar_props(users[account[c]].username)).found)

\* Mutant: hrefs with the name of the owner for the calendar's id.
ListHomeByName(c) ==
    /\ stage[c] = "list"
    /\ Multistatus(c, HomeProps(c),
                   IF depth[c] = 0 THEN Plain({}) ELSE Listed(c, users[account[c]].username))
    /\ UNCHANGED account

(* handle_calendar_home and handle_email_home of propfind.rs. *)
ListHome(c) ==
    /\ stage[c] = "list"
    /\ Multistatus(c, HomeProps(c),
                   IF depth[c] = 0 THEN Plain({}) ELSE Listed(c, account[c]))
    /\ UNCHANGED account

(* verify_calendar_access, then PROPFIND on the collection. *)
OpenCalendar(c) ==
    /\ stage[c] = "access"
    /\ \/ /\ at[c].calendar = account[c]
          /\ Multistatus(c, calendar_props_for_context(HomeOf(c), at[c].calendar), Plain({}))
       \/ /\ at[c].calendar # account[c]
          /\ Status(c, "403")
    /\ UNCHANGED account

Serve(c) ==
    /\ \/ Dispatch(c) \/ VerifyByUsername(c) \/ VerifyByEmail(c) \/ ResolvePath(c)
       \/ ListHome(c) \/ OpenCalendar(c)
    /\ UNCHANGED <<has, at, method, header, depth, ever, right, sure>>

(* A query fails.  Authentication takes that for wrong credentials or an   *)
(* unknown name, the home for a user without calendars, and the collection *)
(* for no access or no such calendar.                                      *)
FailQuery(c) ==
    /\ \/ stage[c] \in {"by username", "by email", "by path"} /\ Refused(c)
       \/ stage[c] = "list" /\ Multistatus(c, HomeProps(c), Plain({})) /\ UNCHANGED account
       \/ /\ stage[c] = "access"
          /\ Status(c, "403") \/ Status(c, "404")
          /\ UNCHANGED account
    /\ right' = [right EXCEPT ![c] = FALSE]
    /\ sure' = [sure EXCEPT ![c] = {}]
    /\ UNCHANGED <<has, at, method, header, depth, ever>>

Walk(c) == Begin(c) \/ Follow(c) \/ Serve(c) \/ FailQuery(c)

\* A command changes what the requests under way may be answered.
Administer(k) ==
    /\ CommandStep(k)
    /\ UNCHANGED <<has, at, method, header, depth, stage, account, answer>>
    /\ ever' = [c \in Walkers |-> IF stage[c] = "off" THEN {} ELSE ever[c] \cup Candidates(c)']
    /\ right' = [c \in Walkers |-> right[c] /\ Right(c)']
    /\ sure' = [c \in Walkers |-> sure[c] \cap Sure(c)']

DiscoveryNext ==
    \/ \E k \in Commands : Administer(k)
    \/ \E c \in Walkers : UNCHANGED accounts /\ Walk(c)

DiscoverySpec == DiscoveryInit /\ [][DiscoveryNext]_discoveryVars

\* Handlers run to their end, and a client that was answered goes on.
FairDiscoverySpec ==
    /\ DiscoverySpec
    /\ \A c \in Walkers : WF_discoveryVars(UNCHANGED accounts /\ Walk(c))

----------------------------------------------------------------------------
(* Whoever a request is answered for is named by its credentials, with the *)
(* password that was in effect at some instant of the request, or, without *)
(* a header that to_str can read, by its URL.  A header that is read and   *)
(* does not verify never falls back to the user in the path, although      *)
(* users are created and passwords are reset between the statements and    *)
(* queries fail.  (That an email URL is served by its name at all is not   *)
(* what the docs say: NoListWithoutCredentials.)                           *)
ServedAccountNamed ==
    \A c \in Walkers : account[c] # 0 => account[c] \in ever[c]

(* Credentials that name a user by username, and are right during the      *)
(* whole request, are never refused, even if the username is the email of  *)
(* other users, unless a query of the request fails: verify_user's error   *)
(* is answered as a wrong password.                                        *)
UsernameLoginWorks ==
    \A c \in Walkers :
        stage[c] = "answered" /\ header[c] = "basic" /\ right[c] => ~ Challenged(c)

(* A client whose names nobody else uses, and whose password is right all  *)
(* the time, ends at its own calendar, wherever it starts and whether or   *)
(* not it sends its credentials unasked: no answer leads it to a URL where *)
(* it is refused.  It may be lost if it sends a header that is not Basic,  *)
(* or if a query fails.                                                    *)
OwnCalendarFound ==
    \A c \in Walkers :
        sure[c] # {} /\ has[c] =>
            /\ stage[c] # "lost" \/ header[c] \in {"other", "garbled"}
            /\ stage[c] = "found" => account[c] \in sure[c]

(* Every walk ends, failing queries or not: redirects and principals lead  *)
(* in no circle.                                                           *)
DiscoveryEnds ==
    \A c \in Walkers : stage[c] # "off" ~> stage[c] \in {"found", "lost"}

(* "Without auth, only structural/capability props are returned (no        *)
(* username, no calendar list)": the email home of a request without an    *)
(* Authorization header lists no calendars.                                *)
NoListWithoutCredentials ==
    \A c \in Walkers :
        stage[c] = "answered" /\ header[c] = "none" /\ at[c].route = "email" =>
            CalendarsIn(answer[c].calendars) = {}

=============================================================================
