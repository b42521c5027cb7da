-------------------------- MODULE DiscoveryProofs --------------------------
(***************************************************************************)
(* Theorems about Accounts and Discovery, for any number of users, racing  *)
(* commands and clients.                                                   *)
(***************************************************************************)
EXTENDS Discovery, TLAPS

----------------------------------------------------------------------------
(* The inductive invariant *)

\* The username column is UNIQUE.
UsernamesUnique ==
    \A i, j \in DOMAIN users : users[i].username = users[j].username => i = j

\* The row of a create-user command that inserted one is still there, and is
\* no other command's.
CommandsApart ==
    /\ \A k \in Commands : outcome[k] = "created" => step[k] = "done"
    /\ \A k \in Commands :
           step[k] = "readback" \/ outcome[k] = "created" =>
               \E i \in DOMAIN users : /\ users[i].username = given[k].username
                                       /\ users[i].email = given[k].email
    /\ \A k, j \in Commands :
           /\ step[k] = "readback" \/ outcome[k] = "created"
           /\ step[j] = "readback" \/ outcome[j] = "created"
           /\ given[j].username = given[k].username
           => j = k

AccountsInvariant == AccountsTypeOK /\ UsernamesUnique /\ CommandsApart

\* The URLs that the server hands out: calendars are below a home only.
Links == {u \in Urls : u.calendar # NoCalendar => u.route \in {"users", "email"}}

\* The name and the calendar in a URL are a sure walker's own.
Own(c, u) ==
    \A i \in sure[c] :
        /\ u.calendar \in {NoCalendar, i}
        /\ \/ u.name = at[c].name /\ (u.route # "users" => at[c].route # "users")
           \/ u.name = users[i].username /\ u.route = "users"

Leads(c, u) == u \in Links /\ Own(c, u)

StageFits(c) ==
    /\ at[c] \in Links
    /\ stage[c] = "off" => at[c].calendar = NoCalendar /\ depth[c] = 0
    /\ depth[c] = 1 => at[c].route \in {"users", "email"}
    /\ stage[c] \in {"by username", "by email"} => header[c] = "basic"
    /\ stage[c] = "by path" => extract_auth_header(c) = "none" /\ at[c].route \in {"users", "email"}
    /\ stage[c] \in {"access", "list"} => account[c] # 0
    /\ stage[c] = "access" => at[c].calendar # NoCalendar
    /\ stage[c] = "found" => account[c] # 0
    /\ stage[c] = "lost" /\ has[c] /\ sure[c] # {} => header[c] \in {"other", "garbled"}

HistoryFits(c) ==
    /\ account[c] \in {0} \cup DOMAIN users
    /\ ever[c] \subseteq DOMAIN users
    /\ stage[c] # "off" => Candidates(c) \subseteq ever[c]
    /\ account[c] # 0 => account[c] \in ever[c]
    /\ stage[c] = "off" => account[c] = 0 /\ sure[c] = {}
    /\ right[c] => Right(c) /\ stage[c] # "by email"

SureFits(c) ==
    \A i \in sure[c] :
        /\ i \in DOMAIN users /\ Knows(i)
        /\ ByUsername(Login) \cup ByEmail(Login) = {i}
        /\ ByUsername(at[c].name) \subseteq {i}
        /\ at[c].route # "users" => ByEmail(at[c].name) \subseteq {i}
        /\ account[c] \in {0, i} /\ at[c].calendar \in {NoCalendar, i}
        /\ stage[c] = "by email" => i \in ByEmail(Login)

AnswerFits(c) ==
    stage[c] = "answered" =>
        /\ answer[c].status = "301" => Leads(c, answer[c].props["location"])
        /\ answer[c].status = "207" /\ ~ Challenged(c) =>
               /\ Leads(c, HomeIn(answer[c].props))
               /\ HomeIn(answer[c].props).route \in {"users", "email"}
        /\ \A u \in CalendarsIn(answer[c].calendars) : Leads(c, u)
        /\ answer[c].status = "207" /\ Collection(c) => account[c] # 0
        /\ answer[c].status \in {"403", "404"} => sure[c] = {}
        /\ answer[c].status = "207" /\ depth[c] = 1 /\ ~ Collection(c) /\ sure[c] # {} =>
               CalendarsIn(answer[c].calendars) # {}
        /\ header[c] = "basic" /\ (right[c] \/ sure[c] # {}) => ~ Challenged(c)

WalkFits(c) == StageFits(c) /\ HistoryFits(c) /\ SureFits(c) /\ AnswerFits(c)

Shapes ==
    /\ has \in [Walkers -> BOOLEAN]
    /\ at \in [Walkers -> Urls]
    /\ method \in [Walkers -> {"OPTIONS", "PROPFIND", "other"}]
    /\ header \in [Walkers -> Headers]
    /\ depth \in [Walkers -> {0, 1}]
    /\ stage \in [Walkers -> {"off", "sent", "by username", "by email", "by path", "access",
                              "list", "answered", "found", "lost"}]
    /\ right \in [Walkers -> BOOLEAN]
    /\ DOMAIN account = Walkers /\ DOMAIN answer = Walkers
    /\ DOMAIN ever = Walkers /\ DOMAIN sure = Walkers

DiscoveryInvariant == AccountsInvariant /\ Shapes /\ \A c \in Walkers : WalkFits(c)

----------------------------------------------------------------------------
(* The users table *)

(* Every command leaves the rows in their places and their usernames and   *)
(* emails alone; a username that is inserted is a new one.                 *)
LEMMA TableGrows ==
  ASSUME AccountsTypeOK, NEW k \in Commands, CommandStep(k)
  PROVE  /\ users' \in Seq(Row)
         /\ DOMAIN users \subseteq DOMAIN users'
         /\ \A i \in DOMAIN users : /\ users'[i].username = users[i].username
                                    /\ users'[i].email = users[i].email
         /\ UsernamesUnique => UsernamesUnique'
<1> USE DEF AccountsTypeOK
<1>1. CASE users' = users
  BY <1>1 DEF UsernamesUnique
<1>2. ASSUME NEW row \in Row, ByUsername(row.username) = {}, users' = Append(users, row)
      PROVE  /\ users' \in Seq(Row)
             /\ DOMAIN users \subseteq DOMAIN users'
             /\ \A i \in DOMAIN users : users'[i] = users[i]
             /\ UsernamesUnique => UsernamesUnique'
  <2>1. /\ users' \in Seq(Row) /\ DOMAIN users = 1 .. Len(users) /\ Len(users) \in Nat
        /\ DOMAIN users' = 1 .. Len(users) + 1
        /\ \A i \in 1 .. Len(users) : users'[i] = users[i]
        /\ users'[Len(users) + 1] = row
    BY <1>2
  <2>2. \A i \in 1 .. Len(users) : users[i].username # row.username
    BY <1>2, <2>1 DEF ByUsername
  <2>3. \A i \in DOMAIN users' : i \in 1 .. Len(users) \/ i = Len(users) + 1
    BY <2>1
  <2>4. UsernamesUnique => UsernamesUnique'
    BY <2>1, <2>2, <2>3 DEF UsernamesUnique
  <2> QED
    BY <2>1, <2>4
<1>3. ASSUME NEW name \in Names, NEW password \in Passwords,
             users' = [i \in DOMAIN users |->
                          IF i \in ByUsername(name)
                            THEN [users[i] EXCEPT !.password = password] ELSE users[i]]
      PROVE  /\ users' \in Seq(Row)
             /\ DOMAIN users' = DOMAIN users
             /\ \A i \in DOMAIN users : /\ users'[i].username = users[i].username
                                        /\ users'[i].email = users[i].email
             /\ UsernamesUnique => UsernamesUnique'
  <2>1. DOMAIN users = 1 .. Len(users) /\ Len(users) \in Nat
        /\ \A i \in DOMAIN users : users[i] \in Row
    OBVIOUS
  <2>2. \A i \in DOMAIN users : /\ users'[i] \in Row
                                /\ users'[i].username = users[i].username
                                /\ users'[i].email = users[i].email
    BY <1>3, <2>1 DEF Row
  <2>3. users' \in [1 .. Len(users) -> Row]
    BY <1>3, <2>1, <2>2
  <2>4. users' \in Seq(Row)
    BY <2>1, <2>3
  <2>5. UsernamesUnique => UsernamesUnique'
    BY <1>3, <2>2 DEF UsernamesUnique
  <2> QED
    BY <1>3, <2>2, <2>4, <2>5
<1>4. CASE InsertUser(k)
  BY <1>1, <1>2, <1>4 DEF InsertUser
<1>5. CASE ReadUserBack(k)
  BY <1>1, <1>5 DEF ReadUserBack
<1>6. CASE ResetPassword(k)
  <2>1. PICK name \in Names, password \in Passwords :
            users' = [i \in DOMAIN users |->
                          IF i \in ByUsername(name)
                            THEN [users[i] EXCEPT !.password = password] ELSE users[i]]
    BY <1>6 DEF ResetPassword
  <2> QED
    BY <1>3, <2>1
<1> QED
  BY <1>4, <1>5, <1>6 DEF CommandStep

(* A command keeps the invariant of the table and of the commands.         *)
LEMMA CommandKeepsAccounts ==
  ASSUME AccountsInvariant, NEW k \in Commands, CommandStep(k)
  PROVE  AccountsInvariant'
<1> USE DEF AccountsInvariant
<1>1. /\ users' \in Seq(Row) /\ UsernamesUnique'
      /\ DOMAIN users \subseteq DOMAIN users'
      /\ \A i \in DOMAIN users : /\ users'[i].username = users[i].username
                                 /\ users'[i].email = users[i].email
  BY TableGrows
<1>2. AccountsTypeOK'
  BY <1>1 DEF AccountsTypeOK, CommandStep, InsertUser, ReadUserBack, ResetPassword, Report
<1>3. CommandsApart'
  <2> DEFINE Has(j) == step[j] = "readback" \/ outcome[j] = "created"
  <2>1. CASE InsertUser(k) /\ users' # users
    <3>1. PICK row \in Row :
              /\ ByUsername(row.username) = {} /\ users' = Append(users, row)
              /\ given' = [given EXCEPT ![k] = row]
              /\ step' = [step EXCEPT ![k] = "readback"] /\ outcome' = outcome
      BY <2>1 DEF InsertUser
    <3>2. step[k] = "idle"
      BY <2>1 DEF InsertUser
    <3>3. \A j \in Commands : Has(j) => given[j].username # row.username
      BY <3>1 DEF CommandsApart, ByUsername
    <3>4. \E i \in DOMAIN users' : users'[i] = row
      <4>1. /\ DOMAIN users' = 1 .. Len(users) + 1 /\ Len(users) \in Nat
            /\ users'[Len(users) + 1] = row
        BY <3>1 DEF AccountsTypeOK
      <4>2. Len(users) + 1 \in DOMAIN users'
        BY <4>1
      <4> QED
        BY <4>1, <4>2
    <3>5. given'[k] = row /\ \A j \in Commands \ {k} : /\ given'[j] = given[j]
                                                     /\ step'[j] = step[j]
                                                     /\ outcome'[j] = outcome[j]
      BY <3>1 DEF AccountsTypeOK
    <3>6. outcome'[k] # "created" /\ step'[k] = "readback"
      BY <3>1, <3>2 DEF CommandsApart, AccountsTypeOK
    <3> QED
      BY <1>1, <3>3, <3>4, <3>5, <3>6 DEF CommandsApart
  <2>2. CASE ReadUserBack(k) \/ ResetPassword(k) \/ (InsertUser(k) /\ users' = users)
    <3>1. /\ given' = given
          /\ \A j \in Commands \ {k} : step'[j] = step[j] /\ outcome'[j] = outcome[j]
          /\ step'[k] = "done" /\ (outcome'[k] = "created" => step[k] = "readback")
      <4>1. ASSUME NEW row \in Row PROVE users # Append(users, row)
        BY DEF AccountsTypeOK
      <4> QED
        BY <2>2, <4>1 DEF ReadUserBack, ResetPassword, InsertUser, Report, AccountsTypeOK
    <3> QED
      BY <1>1, <3>1 DEF CommandsApart
  <2> QED
    BY <2>1, <2>2 DEF CommandStep
<1> QED
  BY <1>1, <1>2, <1>3

(* The first commands find a table with at most one row.                   *)
LEMMA InitAccounts == AccountsInit => AccountsInvariant
<1> SUFFICES ASSUME AccountsInit PROVE AccountsInvariant
  OBVIOUS
<1>1. NoRow \in Row
  <2>1. [username |-> Login, email |-> NoName, password |-> Password] \in Row
    BY AccountsAssumptions, DiscoveryAssumptions DEF Row
  <2>2. \E row \in Row : row.email = NoName
    BY <2>1
  <2> QED
    BY <2>2 DEF NoRow
<1>2. users = <<>> \/ \E row \in Row : users = <<row>>
  BY DEF AccountsInit
<1>3. users \in Seq(Row) /\ \A i \in DOMAIN users : i = 1
  <2>1. CASE users = <<>>
    BY <2>1
  <2>2. ASSUME NEW row \in Row, users = <<row>> PROVE users \in Seq(Row) /\ DOMAIN users = {1}
    BY <2>2
  <2> QED
    BY <1>2, <2>1, <2>2
<1>4. UsernamesUnique
  BY <1>3 DEF UsernamesUnique
<1> QED
  BY <1>1, <1>3, <1>4 DEF AccountsInit, AccountsInvariant, AccountsTypeOK, CommandsApart

(* The invariant rules a second creation out.                              *)
LEMMA ApartIsOnce == AccountsInvariant => CreatedOnce
<1> SUFFICES ASSUME AccountsInvariant, NEW k \in Commands, outcome[k] = "created"
             PROVE  /\ \A j \in Commands \ {k} :
                           outcome[j] = "created" => given[j].username # given[k].username
                    /\ \A i \in ByUsername(given[k].username) : users[i].email = given[k].email
  BY DEF CreatedOnce
<1>1. PICK i \in DOMAIN users : /\ users[i].username = given[k].username
                                /\ users[i].email = given[k].email
  BY DEF AccountsInvariant, CommandsApart
<1> QED
  BY <1>1 DEF AccountsInvariant, CommandsApart, UsernamesUnique, ByUsername

----------------------------------------------------------------------------
(* The properties of an answer *)

(* The roots name the principal of the user, or nobody.                    *)
LEMMA RootNames ==
  /\ \A name : /\ root_props(name)["current-user-principal"] = UsersHome(name)
               /\ HomeIn(root_props(name)) = UsersHome(name)
  /\ root_props_unauthenticated["current-user-principal"] = Unauthenticated
BY DEF root_props, root_props_unauthenticated, HomeIn, Both, Holding, Plain

(* A selection of the properties keeps the principal and the home.         *)
LEMMA AskedNames ==
  ASSUME NEW props, "current-user-principal" \in DOMAIN props
  PROVE  LET found == filter_props(Asked, props).found IN
         /\ found["current-user-principal"] = props["current-user-principal"]
         /\ HomeIn(found) = HomeIn(props)
<1>1. filter_props(Asked, props).found =
          [n \in DOMAIN props \cap {"resourcetype", "current-user-principal", "calendar-home-set"}
               |-> props[n]]
  BY DEF filter_props, Asked, Props
<1> QED
  BY <1>1 DEF HomeIn

(* The homes and the collections name a home for principal and home.       *)
LEMMA HomeNames ==
  /\ \A url : LET found == filter_props(Asked, email_home_props(url)).found IN
              found["current-user-principal"] = url /\ HomeIn(found) = url
  /\ \A name : LET found == filter_props(Asked, calendar_home_props(name)).found IN
              /\ found["current-user-principal"] = UsersHome(name)
              /\ HomeIn(found) = UsersHome(name)
  /\ \A url, k : LET found == filter_props(Asked, calendar_props_for_context(url, k)).found IN
              found["current-user-principal"] = url /\ HomeIn(found) = url
<1>1. ASSUME NEW url PROVE LET found == filter_props(Asked, email_home_props(url)).found IN
              found["current-user-principal"] = url /\ HomeIn(found) = url
  <2> DEFINE props == email_home_props(url)
  <2>1. /\ "current-user-principal" \in DOMAIN props /\ props["current-user-principal"] = url
        /\ HomeIn(props) = url
    BY DEF email_home_props, Both, Holding, Plain, HomeIn
  <2> QED
    BY <2>1, AskedNames
<1>2. ASSUME NEW name PROVE LET found == filter_props(Asked, calendar_home_props(name)).found IN
              /\ found["current-user-principal"] = UsersHome(name)
              /\ HomeIn(found) = UsersHome(name)
  <2> DEFINE props == calendar_home_props(name)
  <2>1. /\ "current-user-principal" \in DOMAIN props
        /\ props["current-user-principal"] = UsersHome(name) /\ HomeIn(props) = UsersHome(name)
    BY DEF calendar_home_props, Both, Holding, Plain, HomeIn
  <2> QED
    BY <2>1, AskedNames
<1>3. ASSUME NEW url, NEW k
      PROVE  LET found == filter_props(Asked, calendar_props_for_context(url, k)).found IN
              found["current-user-principal"] = url /\ HomeIn(found) = url
  <2> DEFINE props == calendar_props_for_context(url, k)
  <2>1. /\ "current-user-principal" \in DOMAIN props /\ props["current-user-principal"] = url
        /\ HomeIn(props) = url
    BY DEF calendar_props_for_context, Both, Holding, Plain, HomeIn
  <2> QED
    BY <2>1, AskedNames
<1> QED
  BY <1>1, <1>2, <1>3

----------------------------------------------------------------------------
(* Steps of other walkers and of commands *)

\* Nothing that WalkFits(d) is about changes.
Stands(d) ==
    /\ users' = users /\ has'[d] = has[d] /\ at'[d] = at[d] /\ header'[d] = header[d]
    /\ depth'[d] = depth[d]
    /\ stage'[d] = stage[d] /\ account'[d] = account[d] /\ answer'[d] = answer[d]
    /\ ever'[d] = ever[d] /\ right'[d] = right[d] /\ sure'[d] = sure[d]

\* Where a statement of the server leaves a request.
Labels == {"by username", "by email", "by path", "access", "list", "answered"}

\* The server changes the stage of a request, perhaps with an answer and an account.
Moved(c) ==
    /\ \E label \in Labels : stage' = [stage EXCEPT ![c] = label]
    /\ answer' = answer \/ \E a : answer' = [answer EXCEPT ![c] = a]

(* Every handler of the router does that to the request it serves.         *)
LEMMA ServerMoves ==
  ASSUME NEW c \in Walkers, Serve(c)
  PROVE  Moved(c) /\ (account' = account \/ \E i : account' = [account EXCEPT ![c] = i])
<1> DEFINE Known == account' = account \/ \E i : account' = [account EXCEPT ![c] = i]
<1>1. ASSUME NEW status, NEW props, NEW calendars, Respond(c, status, props, calendars)
      PROVE  Moved(c)
  BY <1>1 DEF Respond, Moved, Labels
<1>2. ASSUME NEW label \in Labels, Step(c, label) PROVE Moved(c)
  BY <1>2 DEF Step, Moved
<1>3. CASE Dispatch(c)
  <2>1. TryHeader(c) => Moved(c)
    BY <1>1, <1>2 DEF TryHeader, Status, Labels
  <2>2. inline_auth(c) => Moved(c)
    BY <1>1, <1>2 DEF inline_auth, RootStatus, Labels
  <2>3. \A url : Redirect(c, url) => Moved(c)
    BY <1>1 DEF Redirect
  <2>4. \A status : Status(c, status) => Moved(c)
    BY <1>1 DEF Status
  <2> QED
    BY <1>3, <2>1, <2>2, <2>3, <2>4 DEF Dispatch, handle_well_known, handle_server_root,
       handle_caldav_root, handle_fallback_discovery, handle_principal_discovery,
       handle_caldav_email_discovery, handle_calendar_home, handle_calendar_collection
<1>4. CASE VerifyByUsername(c) \/ VerifyByEmail(c) \/ ResolvePath(c)
  <2>1. ASSUME NEW i, Authenticated(c, i) PROVE Moved(c) /\ Known
    BY <1>1, <1>2, <2>1 DEF Authenticated, RootStatus, Status, Labels
  <2>2. Refused(c) => Moved(c) /\ Known
    BY <1>1 DEF Refused, RootStatus, Status
  <2>3. \A i : CheckPassword(c, i) => Moved(c) /\ Known
    BY <2>1, <2>2 DEF CheckPassword
  <2>4. Step(c, "by email") => Moved(c)
    BY <1>2 DEF Labels
  <2> HIDE DEF Known
  <2>5. Moved(c) /\ Known
    <3>1. UNCHANGED account => Known
      BY DEF Known
    <3> QED
      BY <1>4, <2>1, <2>2, <2>3, <2>4, <3>1 DEF VerifyByUsername, VerifyByEmail, ResolvePath
  <2> QED
    BY <2>5 DEF Known
<1>5. CASE ListHome(c) \/ OpenCalendar(c)
  BY <1>1, <1>5 DEF ListHome, OpenCalendar, Multistatus, Status
<1> QED
  BY <1>3, <1>4, <1>5 DEF Serve

(* So does a failing query.                                                *)
LEMMA FailureMoves ==
  ASSUME NEW c \in Walkers, FailQuery(c)
  PROVE  Moved(c) /\ account' = account
<1>1. ASSUME NEW status, NEW props, NEW calendars, Respond(c, status, props, calendars)
      PROVE  Moved(c)
  BY <1>1 DEF Respond, Moved, Labels
<1> QED
  BY <1>1 DEF FailQuery, Refused, RootStatus, Multistatus, Status

(* A walker leaves the variables of the others alone.                      *)
LEMMA OthersStand ==
  ASSUME Shapes, NEW c \in Walkers, NEW d \in Walkers \ {c}, Walk(c), UNCHANGED accounts
  PROVE  Stands(d)
<1> USE DEF Shapes, Stands, accounts
<1>1. CASE Begin(c)
  BY <1>1 DEF Begin, Send
<1>2. CASE Follow(c)
  BY <1>2 DEF Follow, Retry, Visit, End, Send
<1>3. CASE Serve(c)
  <2>1. UNCHANGED <<has, at, method, header, depth, ever, right, sure>>
    BY <1>3 DEF Serve
  <2>2. Moved(c) /\ (account' = account \/ \E i : account' = [account EXCEPT ![c] = i])
    BY <1>3, ServerMoves
  <2> QED
    BY <2>1, <2>2 DEF Moved
<1>4. CASE FailQuery(c)
  <2>1. /\ UNCHANGED <<has, at, method, header, depth, ever>>
        /\ right' = [right EXCEPT ![c] = FALSE] /\ sure' = [sure EXCEPT ![c] = {}]
    BY <1>4 DEF FailQuery
  <2>2. Moved(c) /\ account' = account
    BY <1>4, FailureMoves
  <2> QED
    BY <2>1, <2>2 DEF Moved
<1> QED
  BY <1>1, <1>2, <1>3, <1>4 DEF Walk

(* A walk that stands keeps fitting.                                       *)
LEMMA StandingFits ==
  ASSUME NEW d \in Walkers, Stands(d), WalkFits(d)
  PROVE  WalkFits(d)'
<1> USE DEF Stands
<1>1. StageFits(d)'
  BY DEF WalkFits, StageFits, extract_auth_header
<1>2. Candidates(d)' = Candidates(d) /\ (Right(d)' <=> Right(d))
  BY DEF Candidates, Right, Knows, extract_auth_header
<1>3. HistoryFits(d)'
  BY <1>2 DEF WalkFits, HistoryFits
<1>4. SureFits(d)'
  BY DEF WalkFits, SureFits, Knows, ByUsername, ByEmail
<1>5. ASSUME NEW u PROVE Leads(d, u)' <=> Leads(d, u)
  BY DEF Leads, Own
<1>6. Challenged(d)' <=> Challenged(d)
  BY DEF Challenged
<1>7. AnswerFits(d)'
  BY <1>5, <1>6 DEF WalkFits, AnswerFits, Collection
<1> QED
  BY <1>1, <1>3, <1>4, <1>7 DEF WalkFits

(* A command leaves every walk fitting: what it makes untrue, the          *)
(* histories forget.                                                       *)
LEMMA CommandKeepsWalks ==
  ASSUME AccountsInvariant, Shapes, NEW k \in Commands, Administer(k),
         NEW c \in Walkers, WalkFits(c)
  PROVE  WalkFits(c)'
<1>1. /\ DOMAIN users \subseteq DOMAIN users'
      /\ \A i \in DOMAIN users : /\ users'[i].username = users[i].username
                                 /\ users'[i].email = users[i].email
      /\ UsernamesUnique'
  BY TableGrows DEF AccountsInvariant, Administer
<1>2. /\ has'[c] = has[c] /\ at'[c] = at[c] /\ header'[c] = header[c] /\ stage'[c] = stage[c]
      /\ depth'[c] = depth[c] /\ account'[c] = account[c] /\ answer'[c] = answer[c]
      /\ ever'[c] = IF stage[c] = "off" THEN {} ELSE ever[c] \cup Candidates(c)'
      /\ right'[c] = (right[c] /\ Right(c)')
      /\ sure'[c] = sure[c] \cap Sure(c)'
  BY DEF Administer
<1>3. StageFits(c)'
  BY <1>2 DEF WalkFits, StageFits, extract_auth_header
<1>4. HistoryFits(c)'
  <2>1. Candidates(c)' \subseteq DOMAIN users'
    BY DEF Candidates
  <2> QED
    BY <1>1, <1>2, <2>1 DEF WalkFits, HistoryFits
<1>5. SureFits(c)'
  <2> SUFFICES ASSUME NEW i \in sure'[c]
               PROVE  /\ i \in DOMAIN users' /\ Knows(i)'
                      /\ (ByUsername(Login) \cup ByEmail(Login))' = {i}
                      /\ ByUsername(at[c].name)' \subseteq {i}
                      /\ at'[c].route # "users" => ByEmail(at[c].name)' \subseteq {i}
                      /\ account'[c] \in {0, i} /\ at'[c].calendar \in {NoCalendar, i}
                      /\ stage'[c] = "by email" => i \in ByEmail(Login)'
    BY DEF SureFits
  <2>1. i \in sure[c] /\ i \in Sure(c)'
    BY <1>2
  <2>2. /\ i \in DOMAIN users' /\ Knows(i)'
        /\ (ByUsername(Login) \cup ByEmail(Login))' = {i}
    BY <2>1 DEF Sure
  <2>3. ByUsername(at[c].name)' \subseteq {i} /\ ByEmail(at[c].name)' \subseteq {i}
    BY <2>1 DEF Sure, ByUsername, ByEmail
  <2>4. account'[c] \in {0, i} /\ at'[c].calendar \in {NoCalendar, i}
    BY <1>2, <2>1 DEF WalkFits, SureFits
  <2>5. stage'[c] = "by email" => i \in ByEmail(Login)'
    BY <1>1, <1>2, <2>1 DEF WalkFits, SureFits, ByEmail
  <2> QED
    BY <2>2, <2>3, <2>4, <2>5
<1>6. AnswerFits(c)'
  <2>1. ASSUME NEW u, Leads(c, u) PROVE Leads(c, u)'
    BY <1>1, <1>2, <2>1 DEF Leads, Own, WalkFits, SureFits
  <2>2. Challenged(c)' <=> Challenged(c)
    BY <1>2 DEF Challenged
  <2> QED
    BY <1>2, <2>1, <2>2 DEF WalkFits, AnswerFits, Collection
<1> QED
  BY <1>3, <1>4, <1>5, <1>6 DEF WalkFits

----------------------------------------------------------------------------
(* Steps of the client *)

\* What SureFits says of a URL.
OwnNames(i, u) ==
    /\ ByUsername(u.name) \subseteq {i}
    /\ u.route # "users" => ByEmail(u.name) \subseteq {i}
    /\ u.calendar \in {NoCalendar, i}

(* A new request for a sure walker's own names starts out fitting.         *)
LEMMA SentFits ==
  ASSUME Shapes, NEW c \in Walkers, UNCHANGED accounts, Send(c), at'[c] \in Links,
         depth'[c] = 1 => at'[c].route \in {"users", "email"},
         \A i \in sure'[c] : /\ i \in DOMAIN users /\ Knows(i)
                             /\ ByUsername(Login) \cup ByEmail(Login) = {i}
                             /\ OwnNames(i, at'[c])
  PROVE  WalkFits(c)'
<1>1. /\ users' = users /\ stage'[c] = "sent" /\ account'[c] = 0 /\ ever'[c] = Candidates(c)'
      /\ right'[c] = Right(c)'
  BY DEF Send, accounts, Shapes
<1>2. StageFits(c)'
  BY <1>1 DEF StageFits
<1>3. HistoryFits(c)'
  <2>1. Candidates(c)' \subseteq DOMAIN users'
    BY DEF Candidates
  <2> QED
    BY <1>1, <2>1 DEF HistoryFits
<1>4. SureFits(c)'
  BY <1>1 DEF SureFits, OwnNames, Knows, ByUsername, ByEmail
<1>5. AnswerFits(c)'
  BY <1>1 DEF AnswerFits
<1> QED
  BY <1>2, <1>3, <1>4, <1>5 DEF WalkFits

(* The walk begins with the rows that alone have its names.                *)
LEMMA BeginFits ==
  ASSUME Shapes, NEW c \in Walkers, UNCHANGED accounts, WalkFits(c), Begin(c)
  PROVE  WalkFits(c)'
<1>1. /\ stage[c] = "off" /\ at[c] \in Links /\ at[c].calendar = NoCalendar
      /\ depth'[c] = 0
  BY DEF Begin, WalkFits, StageFits
<1>2. /\ Send(c) /\ sure'[c] = Sure(c)
      /\ \E route \in Routes : at' = [at EXCEPT ![c].route = route]
  BY DEF Begin, Shapes
<1>3. at'[c] \in Links /\ at'[c].name = at[c].name /\ at'[c].calendar = NoCalendar
  <2>1. PICK route \in Routes : at'[c] = [at[c] EXCEPT !.route = route]
    BY <1>2 DEF Shapes
  <2>2. at[c] \in Urls
    BY <1>1 DEF Links
  <2> QED
    BY <1>1, <2>1, <2>2 DEF Links, Urls
<1>4. ASSUME NEW i \in Sure(c)
      PROVE  /\ i \in DOMAIN users /\ Knows(i)
             /\ ByUsername(Login) \cup ByEmail(Login) = {i}
             /\ ByUsername(at[c].name) \subseteq {i} /\ ByEmail(at[c].name) \subseteq {i}
  BY DEF Sure, ByUsername, ByEmail
<1>5. \A i \in Sure(c) : OwnNames(i, at'[c])
  BY <1>3, <1>4 DEF OwnNames
<1> QED
  BY <1>1, <1>2, <1>3, <1>4, <1>5, SentFits

(* Every link of an answer keeps a sure walker at its own names; it is     *)
(* never told to give up.                                                  *)
LEMMA FollowFits ==
  ASSUME AccountsInvariant, Shapes, NEW c \in Walkers, UNCHANGED accounts, WalkFits(c), Follow(c)
  PROVE  WalkFits(c)'
<1>1. /\ stage[c] = "answered" /\ sure'[c] = sure[c] /\ has'[c] = has[c]
      /\ AnswerFits(c) /\ SureFits(c) /\ StageFits(c) /\ HistoryFits(c)
  BY DEF Follow, WalkFits
<1>2. \A i \in sure[c] : /\ i \in DOMAIN users /\ Knows(i)
                         /\ ByUsername(Login) \cup ByEmail(Login) = {i}
                         /\ OwnNames(i, at[c])
  BY <1>1 DEF SureFits, OwnNames
<1>3. ASSUME NEW u, NEW d, Visit(c, u, d), Leads(c, u), d = 1 => u.route \in {"users", "email"}
      PROVE  WalkFits(c)'
  <2>1. at'[c] = u /\ Send(c) /\ depth'[c] = d
    BY <1>3 DEF Visit, Shapes
  <2>2. ASSUME NEW i \in sure[c]
        PROVE  OwnNames(i, u)
    <3>1. CASE u.name = at[c].name /\ (u.route # "users" => at[c].route # "users")
      BY <1>2, <1>3, <3>1 DEF OwnNames, Leads, Own
    <3>2. CASE u.name = users[i].username /\ u.route = "users"
      <4>1. ByUsername(u.name) \subseteq {i}
        BY <1>2, <3>2 DEF ByUsername, AccountsInvariant, UsernamesUnique
      <4> QED
        BY <1>3, <3>2, <4>1 DEF OwnNames, Leads, Own
    <3> QED
      BY <1>3, <3>1, <3>2 DEF Leads, Own
  <2> QED
    BY <1>1, <1>2, <1>3, <2>1, <2>2, SentFits DEF Leads
<1>4. ASSUME NEW m, NEW h, Retry(c, m, h)
      PROVE  WalkFits(c)'
  <2>1. at'[c] = at[c] /\ Send(c) /\ depth'[c] = depth[c]
    BY <1>4 DEF Retry
  <2> QED
    BY <1>1, <1>2, <2>1, SentFits DEF StageFits
<1>5. ASSUME NEW label \in {"lost", "found"}, End(c, label),
             label = "found" => account[c] # 0,
             label = "lost" /\ has[c] /\ sure[c] # {} => header[c] \in {"other", "garbled"}
      PROVE  WalkFits(c)'
  <2>1. /\ users' = users /\ stage'[c] = label /\ at'[c] = at[c] /\ header'[c] = header[c]
        /\ account'[c] = account[c] /\ ever'[c] = ever[c] /\ right'[c] = right[c]
        /\ depth'[c] = depth[c]
    BY <1>5 DEF End, Shapes, accounts
  <2>2. StageFits(c)'
    BY <1>1, <1>5, <2>1 DEF StageFits
  <2>3. Candidates(c)' = Candidates(c) /\ (Right(c)' <=> Right(c))
    BY <2>1 DEF Candidates, Right, Knows, extract_auth_header
  <2>4. HistoryFits(c)'
    BY <1>1, <2>1, <2>3 DEF HistoryFits
  <2>5. SureFits(c)'
    <3>1. \A name : ByUsername(name)' = ByUsername(name) /\ ByEmail(name)' = ByEmail(name)
      BY <2>1 DEF ByUsername, ByEmail
    <3> QED
      BY <1>1, <2>1, <3>1 DEF SureFits, Knows
  <2>6. AnswerFits(c)'
    BY <2>1 DEF AnswerFits
  <2> QED
    BY <2>2, <2>4, <2>5, <2>6 DEF WalkFits
<1>6. CASE Challenged(c) /\ ~ CanAuthenticate(c) /\ End(c, "lost")
  <2>1. has[c] /\ sure[c] # {} => header[c] \in {"other", "garbled"}
    BY <1>1, <1>6 DEF AnswerFits, CanAuthenticate, Shapes, Headers
  <2> QED
    BY <1>5, <1>6, <2>1
<1>7. CASE answer[c].status \in {"403", "404"} /\ End(c, "lost")
  BY <1>1, <1>5, <1>7 DEF AnswerFits
<1>8. CASE answer[c].status = "207" /\ at[c].calendar # NoCalendar /\ End(c, "found")
  BY <1>1, <1>5, <1>8 DEF AnswerFits, Collection
<1>9. CASE answer[c].status = "301" /\ Visit(c, answer[c].props["location"], 0)
  BY <1>1, <1>3, <1>9 DEF AnswerFits
<1>10. CASE /\ answer[c].status = "207" /\ ~ Challenged(c)
            /\ Visit(c, HomeIn(answer[c].props), IF HomeIn(answer[c].props) = at[c] THEN 1 ELSE 0)
  BY <1>1, <1>3, <1>10 DEF AnswerFits
<1>11. CASE \E url \in CalendarsIn(answer[c].calendars) : Visit(c, url, 0)
  BY <1>1, <1>3, <1>11 DEF AnswerFits
<1>13. CASE /\ answer[c].status = "207" /\ at[c].calendar = NoCalendar /\ depth[c] = 1
            /\ CalendarsIn(answer[c].calendars) = {} /\ End(c, "lost")
  BY <1>1, <1>5, <1>13 DEF AnswerFits, Collection
<1>12. CASE Retry(c, "PROPFIND", header[c]) \/ Retry(c, method[c], "basic")
  BY <1>4, <1>12
<1> QED
  BY <1>6, <1>7, <1>8, <1>9, <1>10, <1>11, <1>12, <1>13 DEF Follow

----------------------------------------------------------------------------
(* Steps of the server *)

\* What a step of the server leaves alone; a failing query empties histories.
Served(c) ==
    /\ users' = users /\ has'[c] = has[c] /\ at'[c] = at[c] /\ header'[c] = header[c]
    /\ depth'[c] = depth[c] /\ ever'[c] = ever[c]
    /\ right'[c] => right[c]
    /\ sure'[c] \subseteq sure[c]

(* The histories fit after a step that resolves no account, or one that    *)
(* the request may be answered for and that is the sure walker's.          *)
LEMMA ServedHistories ==
  ASSUME NEW c \in Walkers, WalkFits(c), Served(c),
         stage[c] # "off", stage'[c] # "off",
         stage'[c] = "by email" => ByUsername(Login) = {},
         \/ account'[c] = account[c]
         \/ account'[c] \in Candidates(c) /\ \A i \in sure[c] : account'[c] = i
  PROVE  HistoryFits(c)' /\ SureFits(c)'
<1> USE DEF Served
<1>1. Candidates(c)' = Candidates(c) /\ (Right(c)' <=> Right(c))
  BY DEF Candidates, Right, Knows, extract_auth_header
<1>2. ByUsername(Login) = {} => ~ Right(c)
  BY DEF Right, ByUsername
<1>3. HistoryFits(c)'
  BY <1>1, <1>2 DEF WalkFits, HistoryFits
<1>4. \A name : ByUsername(name)' = ByUsername(name) /\ ByEmail(name)' = ByEmail(name)
  BY DEF ByUsername, ByEmail
<1>5. SureFits(c)'
  BY <1>4 DEF WalkFits, SureFits, Knows
<1> QED
  BY <1>3, <1>5

\* What is known of the account after a step of the server.
Resolved(c) ==
    \/ account'[c] = account[c]
    \/ account'[c] \in Candidates(c) /\ \A i \in sure[c] : account'[c] = i

(* A handler goes on to its next statement.                                *)
LEMMA SteppedFits ==
  ASSUME NEW c \in Walkers, WalkFits(c), Served(c), Resolved(c), stage[c] # "off",
         \/ stage'[c] = "by username" /\ header[c] = "basic"
         \/ stage'[c] = "by email" /\ header[c] = "basic" /\ ByUsername(Login) = {}
         \/ stage'[c] = "by path" /\ extract_auth_header(c) = "none" /\ at[c].route \in {"users", "email"}
         \/ stage'[c] = "access" /\ account'[c] # 0 /\ Collection(c)
         \/ stage'[c] = "list" /\ account'[c] # 0
  PROVE  WalkFits(c)'
<1>1. HistoryFits(c)' /\ SureFits(c)'
  BY ServedHistories DEF Resolved
<1>2. StageFits(c)'
  BY DEF Served, WalkFits, StageFits, Collection, extract_auth_header
<1>3. AnswerFits(c)'
  BY DEF AnswerFits
<1> QED
  BY <1>1, <1>2, <1>3 DEF WalkFits

(* A handler answers.                                                      *)
LEMMA AnsweredFits ==
  ASSUME NEW c \in Walkers, WalkFits(c), Served(c), Resolved(c), stage[c] # "off",
         stage'[c] = "answered", NEW a, answer'[c] = a,
         a.status = "301" => Leads(c, a.props["location"]),
         a.status = "207" /\ a.props["current-user-principal"] # Unauthenticated =>
             Leads(c, HomeIn(a.props)) /\ HomeIn(a.props).route \in {"users", "email"},
         \A u \in CalendarsIn(a.calendars) : Leads(c, u),
         a.status = "207" /\ Collection(c) => account'[c] # 0,
         a.status \in {"403", "404"} => sure'[c] = {},
         a.status = "207" /\ depth[c] = 1 /\ ~ Collection(c) /\ sure'[c] # {} =>
             CalendarsIn(a.calendars) # {},
         header[c] = "basic" /\ (right'[c] \/ sure'[c] # {}) =>
             /\ a.status # "401"
             /\ a.status = "207" => a.props["current-user-principal"] # Unauthenticated
  PROVE  WalkFits(c)'
<1>1. HistoryFits(c)' /\ SureFits(c)'
  BY ServedHistories DEF Resolved
<1>2. StageFits(c)'
  BY DEF Served, WalkFits, StageFits
<1>3. \A u : Leads(c, u) => Leads(c, u)'
  BY DEF Leads, Own, Served
<1>4. Challenged(c)' <=>
          \/ a.status = "401"
          \/ a.status = "207" /\ a.props["current-user-principal"] = Unauthenticated
  BY DEF Challenged
<1>5. AnswerFits(c)'
  BY <1>3, <1>4 DEF AnswerFits, Served, Collection
<1> QED
  BY <1>1, <1>2, <1>5 DEF WalkFits

(* A bare status.                                                          *)
LEMMA StatusFits ==
  ASSUME Shapes, NEW c \in Walkers, WalkFits(c), Served(c), Resolved(c), stage[c] # "off",
         NEW status \in {"200", "401", "403", "404", "405"}, Status(c, status),
         status \in {"403", "404"} => sure'[c] = {},
         status = "401" => ~ (header[c] = "basic" /\ (right'[c] \/ sure'[c] # {}))
  PROVE  WalkFits(c)'
<1> DEFINE a == [status |-> status, props |-> Plain({}), calendars |-> Plain({})]
<1>1. stage'[c] = "answered" /\ answer'[c] = a
  BY DEF Status, Respond, Shapes
<1>2. a.status = status /\ CalendarsIn(a.calendars) = {}
  BY DEF CalendarsIn, Plain
<1> HIDE DEF a
<1> QED
  BY <1>1, <1>2, AnsweredFits

(* A redirection.                                                          *)
LEMMA RedirectFits ==
  ASSUME Shapes, NEW c \in Walkers, WalkFits(c), Served(c), Resolved(c), stage[c] # "off",
         NEW u, Redirect(c, u), Leads(c, u)
  PROVE  WalkFits(c)'
<1> DEFINE a == [status |-> "301", props |-> Holding({"location"}, u), calendars |-> Plain({})]
<1>1. stage'[c] = "answered" /\ answer'[c] = a
  BY DEF Redirect, Respond, Shapes
<1>2. a.status = "301" /\ a.props["location"] = u /\ CalendarsIn(a.calendars) = {}
  BY DEF CalendarsIn, Plain, Holding
<1> HIDE DEF a
<1> QED
  BY <1>1, <1>2, AnsweredFits

(* A principal, whose home is its own URL.                                 *)
LEMMA PrincipalFits ==
  ASSUME Shapes, NEW c \in Walkers, WalkFits(c), Served(c), Resolved(c), stage[c] # "off",
         NEW props, NEW calendars, Respond(c, "207", props, calendars),
         props["current-user-principal"] = HomeIn(props), Leads(c, HomeIn(props)),
         HomeIn(props).route \in {"users", "email"},
         \A u \in CalendarsIn(calendars) : Leads(c, u),
         depth[c] = 1 /\ ~ Collection(c) /\ sure'[c] # {} => CalendarsIn(calendars) # {},
         Collection(c) => account'[c] # 0
  PROVE  WalkFits(c)'
<1> DEFINE a == [status |-> "207", props |-> props, calendars |-> calendars]
<1>1. stage'[c] = "answered" /\ answer'[c] = a
  BY DEF Respond, Shapes
<1>2. a.status = "207" /\ a.props = props /\ a.calendars = calendars
  OBVIOUS
<1>3. props["current-user-principal"] # Unauthenticated
  BY UrlAssumption DEF Leads, Links
<1> HIDE DEF a
<1> QED
  BY <1>1, <1>2, <1>3, AnsweredFits

(* Whoever is not authenticated is told so.                                *)
LEMMA UnauthenticatedFits ==
  ASSUME Shapes, NEW c \in Walkers, WalkFits(c), Served(c), Resolved(c), stage[c] # "off",
         RootStatus(c, root_props_unauthenticated), Root(c),
         ~ (header[c] = "basic" /\ (right'[c] \/ sure'[c] # {}))
  PROVE  WalkFits(c)'
<1> DEFINE a == [status |-> "207", props |-> root_props_unauthenticated, calendars |-> Plain({})]
<1>1. stage'[c] = "answered" /\ answer'[c] = a
  BY DEF RootStatus, Respond, Shapes
<1>2. /\ a.status = "207" /\ CalendarsIn(a.calendars) = {}
      /\ a.props["current-user-principal"] = Unauthenticated
  BY RootNames DEF CalendarsIn, Plain
<1>3. ~ Collection(c) /\ depth[c] # 1
  BY DEF Root, Collection, WalkFits, StageFits, Links
<1> HIDE DEF a
<1> QED
  BY <1>1, <1>2, <1>3, AnsweredFits

(* The account is resolved: a root answers its principal, the other routes *)
(* go on.                                                                  *)
LEMMA AuthenticatedFits ==
  ASSUME AccountsTypeOK, Shapes, NEW c \in Walkers, WalkFits(c), Served(c), stage[c] # "off",
         NEW i \in Candidates(c), \A j \in sure[c] : i = j, Authenticated(c, i)
  PROVE  WalkFits(c)'
<1>1. account'[c] = i /\ i \in DOMAIN users /\ i # 0 /\ users[i].username \in Names
  <2>1. i \in DOMAIN users /\ account'[c] = i
    BY DEF Candidates, Authenticated, Shapes
  <2>2. DOMAIN users = 1 .. Len(users) /\ users[i] \in Row
    BY <2>1 DEF AccountsTypeOK
  <2> QED
    BY <2>1, <2>2 DEF Row
<1>2. Resolved(c)
  BY <1>1 DEF Resolved
<1>3. CASE RootStatus(c, root_props(users[i].username)) /\ Root(c)
  <2>1. Leads(c, UsersHome(users[i].username))
    BY <1>1 DEF Leads, Links, Urls, Routes, Own, UsersHome, Url, NoCalendar
  <2>2. CalendarsIn(Plain({})) = {} /\ depth[c] # 1
    BY <1>3 DEF CalendarsIn, Plain, Root, WalkFits, StageFits
  <2>3. UsersHome(users[i].username).route = "users"
    BY DEF UsersHome, Url
  <2> QED
    BY <1>1, <1>2, <1>3, <2>1, <2>2, <2>3, RootNames, PrincipalFits DEF RootStatus
<1>4. CASE Collection(c) /\ Step(c, "access")
  BY <1>1, <1>2, <1>4, SteppedFits DEF Step, Shapes
<1>5. CASE Step(c, "list")
  BY <1>1, <1>2, <1>5, SteppedFits DEF Step, Shapes
<1>6. CASE Status(c, "405")
  BY <1>2, <1>6, StatusFits
<1> QED
  BY <1>3, <1>4, <1>5, <1>6 DEF Authenticated

(* A refusal, with credentials that were not right all the time.           *)
LEMMA RefusedFits ==
  ASSUME Shapes, NEW c \in Walkers, WalkFits(c), Served(c), stage[c] # "off", Refused(c),
         ~ (header[c] = "basic" /\ (right'[c] \/ sure'[c] # {}))
  PROVE  WalkFits(c)'
<1>1. Resolved(c)
  BY DEF Refused, Resolved
<1> QED
  BY <1>1, UnauthenticatedFits, StatusFits DEF Refused

(* The router and what the handlers do before the first statement.         *)
LEMMA DispatchFits ==
  ASSUME Shapes, NEW c \in Walkers, WalkFits(c), Served(c), Dispatch(c)
  PROVE  WalkFits(c)'
<1>0. /\ stage[c] # "off" /\ Resolved(c) /\ at[c] \in Links
      /\ Collection(c) => at[c].route \in {"users", "email"}
  BY DEF Dispatch, Resolved, WalkFits, StageFits, Links, Collection
<1>1. CASE inline_auth(c) /\ Root(c)
  BY <1>0, <1>1, SteppedFits, UnauthenticatedFits
  DEF inline_auth, Step, Shapes, extract_auth_header
<1>2. CASE TryHeader(c) /\ at[c].route \in {"users", "email"}
  BY <1>0, <1>2, SteppedFits, StatusFits DEF TryHeader, Step, Shapes, extract_auth_header
<1>3. CASE Status(c, "200") \/ Status(c, "405")
  BY <1>0, <1>3, StatusFits
<1>4. at[c].name \in Names
  BY <1>0 DEF Links, Urls
<1>5. CASE Redirect(c, CaldavRoot(c)) /\ at[c].route # "users"
  <2>1. Leads(c, CaldavRoot(c))
    BY <1>4, <1>5 DEF Leads, Links, Urls, Routes, Own, CaldavRoot, Url, NoCalendar
  <2> QED
    BY <1>0, <1>5, <2>1, RedirectFits
<1>6. CASE Redirect(c, UsersHome(at[c].name))
  <2>1. Leads(c, UsersHome(at[c].name))
    BY <1>4 DEF Leads, Links, Urls, Routes, Own, UsersHome, Url, NoCalendar
  <2> QED
    BY <1>0, <1>6, <2>1, RedirectFits
<1> QED
  BY <1>0, <1>1, <1>2, <1>3, <1>5, <1>6 DEF Dispatch, Root, handle_well_known,
     handle_server_root, handle_caldav_root, handle_fallback_discovery,
     handle_principal_discovery, handle_caldav_email_discovery, handle_calendar_home,
     handle_calendar_collection

(* verify_user never refuses credentials that were right all the time.     *)
LEMMA VerifyFits ==
  ASSUME AccountsInvariant, Shapes, NEW c \in Walkers, WalkFits(c), Served(c),
         VerifyByUsername(c) \/ VerifyByEmail(c)
  PROVE  WalkFits(c)'
<1>0. /\ stage[c] \in {"by username", "by email"} /\ header[c] = "basic"
      /\ HistoryFits(c) /\ SureFits(c)
  BY DEF VerifyByUsername, VerifyByEmail, WalkFits, StageFits
<1>1. ASSUME NEW i \in ByUsername(Login) \cup ByEmail(Login), CheckPassword(c, i),
             i \in ByUsername(Login) \/ stage[c] = "by email"
      PROVE  WalkFits(c)'
  <2>1. \A j \in sure[c] : i = j /\ Knows(j)
    BY <1>0, <1>1 DEF SureFits
  <2>2. CASE Knows(i) /\ Authenticated(c, i)
    <3>1. i \in Candidates(c)
      BY <1>0, <1>1, <2>2 DEF Candidates, ByUsername, ByEmail, extract_auth_header
    <3> QED
      BY <1>0, <2>1, <2>2, <3>1, AuthenticatedFits DEF AccountsInvariant
  <2>3. CASE ~ Knows(i) /\ Refused(c)
    <3>1. sure[c] = {}
      BY <2>1, <2>3
    <3>2. ~ right[c]
      BY <1>0, <1>1, <2>3 DEF HistoryFits, Right, ByUsername, AccountsInvariant, UsernamesUnique
    <3> QED
      BY <1>0, <2>3, <3>1, <3>2, RefusedFits DEF Served
  <2> QED
    BY <1>1, <2>2, <2>3 DEF CheckPassword
<1>2. CASE VerifyByUsername(c)
  <2>1. CASE ByUsername(Login) = {} /\ Step(c, "by email") /\ UNCHANGED account
    BY <1>0, <2>1, SteppedFits DEF Step, Shapes, Resolved
  <2> QED
    BY <1>1, <1>2, <2>1 DEF VerifyByUsername
<1>3. CASE VerifyByEmail(c)
  <2>1. CASE ByEmail(Login) = {} /\ Refused(c)
    <3>1. sure[c] = {} /\ ~ right[c]
      BY <1>0, <1>3, <2>1 DEF VerifyByEmail, SureFits, HistoryFits
    <3> QED
      BY <1>0, <2>1, <3>1, RefusedFits DEF Served
  <2> QED
    BY <1>1, <1>3, <2>1 DEF VerifyByEmail
<1> QED
  BY <1>2, <1>3

(* Without credentials the URL decides.                                    *)
LEMMA ResolvePathFits ==
  ASSUME AccountsInvariant, Shapes, NEW c \in Walkers, WalkFits(c), Served(c), ResolvePath(c)
  PROVE  WalkFits(c)'
<1>0. /\ stage[c] = "by path" /\ extract_auth_header(c) = "none" /\ at[c].route \in {"users", "email"}
      /\ SureFits(c)
  BY DEF ResolvePath, WalkFits, StageFits
<1> DEFINE named == IF at[c].route = "users" THEN ByUsername(at[c].name) ELSE ByEmail(at[c].name)
<1>1. CASE named = {} /\ Refused(c)
  BY <1>0, <1>1, RefusedFits DEF extract_auth_header
<1>2. ASSUME NEW i \in named, Authenticated(c, i)
      PROVE  WalkFits(c)'
  <2>1. i \in Candidates(c)
    BY <1>0, <1>2 DEF Candidates, ByUsername, ByEmail
  <2>2. \A j \in sure[c] : i = j
    BY <1>0, <1>2 DEF SureFits
  <2> QED
    BY <1>0, <1>2, <2>1, <2>2, AuthenticatedFits DEF AccountsInvariant
<1> QED
  BY <1>1, <1>2 DEF ResolvePath

(* The home of a resolved account, and the calendar below it.              *)
LEMMA HomeLeads ==
  ASSUME AccountsTypeOK, NEW c \in Walkers, WalkFits(c), account[c] # 0
  PROVE  /\ Leads(c, HomeOf(c)) /\ Leads(c, CalendarHref(HomeOf(c), account[c]))
         /\ HomeOf(c).route \in {"users", "email"}
         /\ \A i \in sure[c] : account[c] = i
         /\ users[account[c]].username \in Names
<1>0. SureFits(c) /\ HistoryFits(c) /\ at[c] \in Links /\ at[c].name \in Names
  BY DEF WalkFits, StageFits, Links, Urls
<1>1. /\ account[c] \in DOMAIN users /\ users[account[c]] \in Row /\ account[c] \in Nat
      /\ users[account[c]].username \in Names
  <2>1. account[c] \in DOMAIN users
    BY <1>0 DEF HistoryFits
  <2>2. DOMAIN users = 1 .. Len(users) /\ users[account[c]] \in Row
    BY <2>1 DEF AccountsTypeOK
  <2> QED
    BY <2>1, <2>2 DEF Row
<1>2. \A i \in sure[c] : account[c] = i
  BY <1>0 DEF SureFits
<1>3. CASE at[c].route = "email"
  BY <1>0, <1>1, <1>2, <1>3 DEF HomeOf, EmailHome, Url, CalendarHref, Leads, Links, Urls, Routes,
     Own, NoCalendar
<1>4. CASE at[c].route # "email"
  BY <1>1, <1>2, <1>4 DEF HomeOf, UsersHome, Url, CalendarHref, Leads, Links, Urls, Routes,
     Own, NoCalendar
<1> QED
  BY <1>1, <1>2, <1>3, <1>4

(* A home names itself, or the home of its user.                           *)
LEMMA HomePropsLead ==
  ASSUME AccountsTypeOK, NEW c \in Walkers, WalkFits(c), account[c] # 0
  PROVE  LET found == filter_props(Asked, HomeProps(c)).found IN
         /\ found["current-user-principal"] = HomeIn(found) /\ Leads(c, HomeIn(found))
         /\ HomeIn(found).route \in {"users", "email"}
<1> DEFINE found == filter_props(Asked, HomeProps(c)).found
<1>2. /\ found["current-user-principal"] = HomeIn(found) /\ Leads(c, HomeIn(found))
      /\ HomeIn(found).route \in {"users", "email"}
  <2>1. CASE at[c].route = "email"
    <3>1. HomeIn(found) = at[c] /\ found["current-user-principal"] = at[c]
      BY <2>1, HomeNames DEF HomeProps
    <3>2. Leads(c, at[c])
      BY DEF Leads, Own, WalkFits, StageFits, SureFits
    <3> QED
      BY <2>1, <3>1, <3>2
  <2>2. CASE at[c].route # "email"
    <3>1. /\ HomeIn(found) = UsersHome(users[account[c]].username)
          /\ found["current-user-principal"] = UsersHome(users[account[c]].username)
      BY <2>2, HomeNames DEF HomeProps
    <3>2. HomeOf(c) = UsersHome(users[account[c]].username)
      BY <2>2 DEF HomeOf
    <3> QED
      BY <3>1, <3>2, HomeLeads
  <2> QED
    BY <2>1, <2>2
<1> QED
  BY <1>2

(* A calendar of a list is typed as one.                                   *)
LEMMA ListedIsCalendar ==
  ASSUME NEW c, NEW k
  PROVE  CalendarHref(HomeOf(c), k) \in CalendarsIn(Listed(c, k))
<1>1. \A url, j : "resourcetype" \in DOMAIN filter_props(Asked, calendar_props_for_context(url, j)).found
  BY DEF filter_props, Asked, Props, calendar_props_for_context, Both, Holding, Plain
<1>2. \A name : "resourcetype" \in DOMAIN filter_props(Asked, calendar_props(name)).found
  BY DEF filter_props, Asked, Props, calendar_props, Both, Holding, Plain
<1> DEFINE found == filter_props(Asked, IF at[c].route = "email"
                                          THEN calendar_props_for_context(HomeOf(c), k)
                                          ELSE calendar_props(users[account[c]].username)).found
<1>3. "resourcetype" \in DOMAIN found
  BY <1>1, <1>2
<1>4. Listed(c, k) = Holding({CalendarHref(HomeOf(c), k)}, found)
  BY DEF Listed
<1> HIDE DEF found
<1> QED
  BY <1>3, <1>4 DEF CalendarsIn, Holding

(* The list of a home leads to its calendar.                               *)
LEMMA ListHomeFits ==
  ASSUME AccountsTypeOK, Shapes, NEW c \in Walkers, WalkFits(c), Served(c), ListHome(c)
  PROVE  WalkFits(c)'
<1>0. stage[c] = "list" /\ account[c] # 0 /\ account'[c] = account[c] /\ Resolved(c)
  BY DEF ListHome, WalkFits, StageFits, Resolved
<1> DEFINE found     == filter_props(Asked, HomeProps(c)).found
           calendars == IF depth[c] = 0 THEN Plain({}) ELSE Listed(c, account[c])
<1>1. Respond(c, "207", found, calendars)
  BY DEF ListHome, Multistatus
<1>2. /\ found["current-user-principal"] = HomeIn(found) /\ Leads(c, HomeIn(found))
      /\ HomeIn(found).route \in {"users", "email"}
  BY <1>0, HomePropsLead
<1>5. depth[c] = 1 => CalendarsIn(calendars) # {}
  BY ListedIsCalendar
<1>3. \A u \in CalendarsIn(calendars) : u = CalendarHref(HomeOf(c), account[c])
  BY DEF CalendarsIn, Plain, Listed, Holding
<1>4. \A u \in CalendarsIn(calendars) : Leads(c, u)
  BY <1>0, <1>3, HomeLeads
<1> HIDE DEF found, calendars
<1> QED
  BY <1>0, <1>1, <1>2, <1>4, <1>5, PrincipalFits

(* Its own calendar is opened to a sure walker.                            *)
LEMMA OpenCalendarFits ==
  ASSUME AccountsTypeOK, Shapes, NEW c \in Walkers, WalkFits(c), Served(c), OpenCalendar(c)
  PROVE  WalkFits(c)'
<1>0. /\ stage[c] = "access" /\ account[c] # 0 /\ at[c].calendar # NoCalendar
      /\ account'[c] = account[c] /\ Resolved(c) /\ SureFits(c)
  BY DEF OpenCalendar, WalkFits, StageFits, Resolved
<1>1. CASE at[c].calendar # account[c] /\ Status(c, "403")
  <2>1. sure[c] = {}
    BY <1>0, <1>1 DEF SureFits, NoCalendar
  <2> QED
    BY <1>0, <1>1, <2>1, StatusFits DEF Served
<1>2. CASE Multistatus(c, calendar_props_for_context(HomeOf(c), at[c].calendar), Plain({}))
  <2> DEFINE found == filter_props(Asked,
                          calendar_props_for_context(HomeOf(c), at[c].calendar)).found
  <2>1. Respond(c, "207", found, Plain({}))
    BY <1>2 DEF Multistatus
  <2>2. found["current-user-principal"] = HomeOf(c) /\ HomeIn(found) = HomeOf(c)
    BY HomeNames
  <2>3. CalendarsIn(Plain({})) = {}
    BY DEF CalendarsIn, Plain
  <2>4. Leads(c, HomeOf(c)) /\ HomeOf(c).route \in {"users", "email"} /\ Collection(c)
    BY <1>0, HomeLeads DEF Collection
  <2> HIDE DEF found
  <2> QED
    BY <1>0, <2>1, <2>2, <2>3, <2>4, PrincipalFits
<1> QED
  BY <1>1, <1>2 DEF OpenCalendar

(* A failing query leaves a walk that is sure of nothing any more.         *)
LEMMA FailQueryFits ==
  ASSUME AccountsTypeOK, Shapes, NEW c \in Walkers, WalkFits(c), Served(c), FailQuery(c)
  PROVE  WalkFits(c)'
<1>0. /\ stage[c] # "off" /\ Resolved(c) /\ right'[c] = FALSE /\ sure'[c] = {}
  BY FailureMoves DEF FailQuery, Shapes, Resolved
<1>1. CASE Refused(c)
  BY <1>0, <1>1, RefusedFits
<1>2. CASE stage[c] = "list" /\ Multistatus(c, HomeProps(c), Plain({})) /\ UNCHANGED account
  <2> DEFINE found == filter_props(Asked, HomeProps(c)).found
  <2>1. Respond(c, "207", found, Plain({})) /\ account[c] # 0 /\ account'[c] = account[c]
    BY <1>2 DEF Multistatus, WalkFits, StageFits
  <2>2. /\ found["current-user-principal"] = HomeIn(found) /\ Leads(c, HomeIn(found))
        /\ HomeIn(found).route \in {"users", "email"}
    BY <2>1, HomePropsLead
  <2>3. CalendarsIn(Plain({})) = {}
    BY DEF CalendarsIn, Plain
  <2> HIDE DEF found
  <2> QED
    BY <1>0, <2>1, <2>2, <2>3, PrincipalFits
<1>3. CASE Status(c, "403") \/ Status(c, "404")
  BY <1>0, <1>3, StatusFits
<1> QED
  BY <1>1, <1>2, <1>3 DEF FailQuery

----------------------------------------------------------------------------
(* The theorems *)

(* A step of a walker keeps the types of all of its variables.             *)
LEMMA WalkKeepsShapes ==
  ASSUME Shapes, NEW c \in Walkers, Walk(c), at'[c] \in Links
  PROVE  Shapes'
<1> USE DEF Shapes
<1>1. CASE Begin(c)
  <2>1. at' = [at EXCEPT ![c] = at'[c]]
    BY <1>1 DEF Begin
  <2>2. at' \in [Walkers -> Urls]
    BY <2>1 DEF Links
  <2>3. /\ method' \in [Walkers -> {"OPTIONS", "PROPFIND", "other"}]
        /\ header' \in [Walkers -> Headers]
        /\ depth' = depth /\ has' = has /\ Send(c) /\ DOMAIN sure' = Walkers
    <3>1. /\ \E m \in {"OPTIONS", "PROPFIND", "other"} : method' = [method EXCEPT ![c] = m]
          /\ \E h \in Headers : header' = [header EXCEPT ![c] = h]
          /\ depth' = depth /\ has' = has /\ Send(c)
          /\ sure' = [sure EXCEPT ![c] = Sure(c)]
      BY <1>1 DEF Begin
    <3>2. method' \in [Walkers -> {"OPTIONS", "PROPFIND", "other"}]
      BY <3>1
    <3>3. header' \in [Walkers -> Headers]
      BY <3>1
    <3> QED
      BY <3>1, <3>2, <3>3
  <2> QED
    BY <2>2, <2>3 DEF Send, Right
<1>2. CASE Follow(c)
  <2>1. DOMAIN at' = Walkers /\ at' = [at EXCEPT ![c] = at'[c]]
    BY <1>2 DEF Follow, Retry, Visit, End
  <2>2. at' \in [Walkers -> Urls]
    BY <2>1 DEF Links
  <2>3. /\ method' \in [Walkers -> {"OPTIONS", "PROPFIND", "other"}]
        /\ header' \in [Walkers -> Headers]
        /\ depth' \in [Walkers -> {0, 1}] /\ has' = has /\ sure' = sure
    <3>1. has' = has /\ sure' = sure
      BY <1>2 DEF Follow
    <3>2. depth' = depth \/ \E d \in {0, 1} : depth' = [depth EXCEPT ![c] = d]
      BY <1>2 DEF Follow, Retry, Visit, End
    <3>3. /\ method' = method \/ \E m \in {method[c], "PROPFIND"} : method' = [method EXCEPT ![c] = m]
          /\ header' = header \/ \E h \in {header[c], "basic"} : header' = [header EXCEPT ![c] = h]
      BY <1>2 DEF Follow, Retry, Visit, End
    <3>4. method' \in [Walkers -> {"OPTIONS", "PROPFIND", "other"}]
      BY <3>3
    <3>5. header' \in [Walkers -> Headers]
      BY <3>3 DEF Headers
    <3>6. depth' \in [Walkers -> {0, 1}]
      BY <3>2
    <3> QED
      BY <3>1, <3>4, <3>5, <3>6
  <2>4. Send(c) \/ End(c, "lost") \/ End(c, "found")
    BY <1>2 DEF Follow, Retry, Visit
  <2> QED
    BY <2>2, <2>3, <2>4 DEF Send, End, Right
<1>3. CASE Serve(c)
  <2>1. /\ stage' \in [Walkers -> {"off", "sent", "by username", "by email", "by path", "access",
                                   "list", "answered", "found", "lost"}]
        /\ DOMAIN answer' = Walkers
    <3>1. PICK label \in Labels : stage' = [stage EXCEPT ![c] = label]
      BY <1>3, ServerMoves DEF Moved
    <3>2. label \in {"off", "sent", "by username", "by email", "by path", "access",
                     "list", "answered", "found", "lost"}
      BY DEF Labels
    <3>3. DOMAIN answer' = Walkers
      BY <1>3, ServerMoves DEF Moved
    <3> QED
      BY <3>1, <3>2, <3>3
  <2>2. DOMAIN account' = Walkers
    BY <1>3, ServerMoves
  <2>3. UNCHANGED <<has, at, method, header, depth, ever, right, sure>>
    BY <1>3 DEF Serve
  <2> QED
    BY <2>1, <2>2, <2>3
<1>4. CASE FailQuery(c)
  <2>1. PICK label \in Labels : stage' = [stage EXCEPT ![c] = label]
    BY <1>4, FailureMoves DEF Moved
  <2>2. label \in {"off", "sent", "by username", "by email", "by path", "access",
                   "list", "answered", "found", "lost"}
    BY DEF Labels
  <2>3. DOMAIN answer' = Walkers /\ DOMAIN account' = Walkers
    BY <1>4, FailureMoves DEF Moved
  <2>4. /\ right' \in [Walkers -> BOOLEAN] /\ DOMAIN sure' = Walkers
        /\ UNCHANGED <<has, at, method, header, depth, ever>>
    BY <1>4 DEF FailQuery
  <2> QED
    BY <2>1, <2>2, <2>3, <2>4
<1> QED
  BY <1>1, <1>2, <1>3, <1>4 DEF Walk

(* Everything fits before the first walk.                                  *)
LEMMA InitFits == DiscoveryInit => DiscoveryInvariant
<1> SUFFICES ASSUME DiscoveryInit PROVE DiscoveryInvariant
  OBVIOUS
<1>1. AccountsInvariant
  BY InitAccounts DEF DiscoveryInit
<1>2. ASSUME NEW name \in Names
      PROVE  /\ Url("root", name, NoCalendar) \in Links
             /\ Url("root", name, NoCalendar).calendar = NoCalendar
  BY DEF Url, Links, Urls, Routes, NoCalendar
<1>3. at \in [Walkers -> Links] /\ \A c \in Walkers : at[c].calendar = NoCalendar
  BY <1>2 DEF DiscoveryInit, WalksInit
<1>4. Shapes
  BY <1>3 DEF DiscoveryInit, WalksInit, Shapes, Links, Headers
<1>5. ASSUME NEW c \in Walkers
      PROVE  WalkFits(c)
  <2>1. /\ stage[c] = "off" /\ account[c] = 0 /\ ever[c] = {} /\ sure[c] = {} /\ right[c] = FALSE
        /\ at[c] \in Links /\ at[c].calendar = NoCalendar /\ depth[c] = 0
    BY <1>3 DEF DiscoveryInit, WalksInit
  <2> QED
    BY <2>1 DEF WalkFits, StageFits, HistoryFits, SureFits, AnswerFits
<1> QED
  BY <1>1, <1>4, <1>5 DEF DiscoveryInvariant

(* Every step keeps everything fitting.                                    *)
LEMMA NextFits ==
  ASSUME DiscoveryInvariant, [DiscoveryNext]_discoveryVars
  PROVE  DiscoveryInvariant'
<1> USE DEF DiscoveryInvariant
<1>1. ASSUME NEW k \in Commands, Administer(k)
      PROVE  DiscoveryInvariant'
  <2>1. AccountsInvariant'
    BY <1>1, CommandKeepsAccounts DEF Administer
  <2>2. Shapes'
    BY <1>1 DEF Administer, Shapes
  <2>3. \A c \in Walkers : WalkFits(c)'
    BY <1>1, CommandKeepsWalks
  <2> QED
    BY <2>1, <2>2, <2>3
<1>2. ASSUME UNCHANGED accounts
      PROVE  AccountsInvariant'
  BY <1>2 DEF accounts, AccountsInvariant, AccountsTypeOK, UsernamesUnique, CommandsApart
<1>3. ASSUME NEW c \in Walkers, UNCHANGED accounts, Walk(c)
      PROVE  DiscoveryInvariant'
  <2>1. WalkFits(c)'
    <3>1. CASE Begin(c)
      BY <1>3, <3>1, BeginFits
    <3>2. CASE Follow(c)
      BY <1>3, <3>2, FollowFits
    <3>3. CASE Serve(c)
      <4>1. Served(c)
        BY <1>3, <3>3 DEF Serve, Served, accounts
      <4> QED
        BY <3>3, <4>1, DispatchFits, VerifyFits, ResolvePathFits, ListHomeFits, OpenCalendarFits
           DEF Serve, AccountsInvariant
    <3>4. CASE FailQuery(c)
      <4>1. Served(c)
        BY <1>3, <3>4 DEF FailQuery, Served, accounts, Shapes
      <4> QED
        BY <3>4, <4>1, FailQueryFits DEF AccountsInvariant
    <3> QED
      BY <1>3, <3>1, <3>2, <3>3, <3>4 DEF Walk
  <2>2. \A d \in Walkers \ {c} : WalkFits(d)'
    BY <1>3, OthersStand, StandingFits
  <2>3. Shapes'
    BY <1>3, <2>1, WalkKeepsShapes DEF WalkFits, StageFits
  <2> QED
    BY <1>2, <1>3, <2>1, <2>2, <2>3
<1>4. ASSUME UNCHANGED discoveryVars
      PROVE  DiscoveryInvariant'
  <2>1. \A d \in Walkers : Stands(d)
    BY <1>4 DEF discoveryVars, accounts, walks, Stands
  <2>2. Shapes'
    BY <1>4 DEF discoveryVars, walks, Shapes
  <2>3. \A d \in Walkers : WalkFits(d)'
    BY <2>1, StandingFits
  <2> QED
    BY <1>2, <1>4, <2>2, <2>3 DEF discoveryVars
<1> QED
  BY <1>1, <1>3, <1>4 DEF DiscoveryNext

(* The inductive invariant of discovery.                                   *)
LEMMA DiscoveryInvariantHolds == DiscoverySpec => []DiscoveryInvariant
<1>1. DiscoveryInvariant /\ [DiscoveryNext]_discoveryVars => DiscoveryInvariant'
  BY NextFits
<1> QED
  BY <1>1, InitFits, PTL DEF DiscoverySpec

(* The tables, the commands and the walks keep their types: no answer of   *)
(* the server sends a client to something that is not a URL of the server. *)
THEOREM DiscoveryTypeCorrect == DiscoverySpec => []DiscoveryTypeOK
<1>1. DiscoveryInvariant => DiscoveryTypeOK
  <2> SUFFICES ASSUME DiscoveryInvariant PROVE DiscoveryTypeOK
    OBVIOUS
  <2>1. \A c \in Walkers : account[c] \in {0} \cup DOMAIN users /\ ever[c] \subseteq DOMAIN users
    BY DEF DiscoveryInvariant, WalkFits, HistoryFits
  <2>2. \A c \in Walkers : sure[c] \subseteq DOMAIN users
    BY DEF DiscoveryInvariant, WalkFits, SureFits
  <2> QED
    BY <2>1, <2>2 DEF DiscoveryInvariant, AccountsInvariant, Shapes, DiscoveryTypeOK
<1> QED
  BY <1>1, DiscoveryInvariantHolds, PTL

(* However many create-user commands race, a username is created once.     *)
THEOREM UsersCreatedOnce == DiscoverySpec => []CreatedOnce
<1>1. DiscoveryInvariant => CreatedOnce
  BY ApartIsOnce DEF DiscoveryInvariant
<1> QED
  BY <1>1, DiscoveryInvariantHolds, PTL

(* No request is served for an account that neither its credentials nor,   *)
(* without any, its URL named at some instant of the request.              *)
THEOREM NobodyElseServed == DiscoverySpec => []ServedAccountNamed
<1>1. DiscoveryInvariant => ServedAccountNamed
  BY DEF DiscoveryInvariant, WalkFits, HistoryFits, ServedAccountNamed
<1> QED
  BY <1>1, DiscoveryInvariantHolds, PTL

(* Credentials that are right during the whole request are never refused.  *)
THEOREM RightLoginAccepted == DiscoverySpec => []UsernameLoginWorks
<1>1. DiscoveryInvariant => UsernameLoginWorks
  BY DEF DiscoveryInvariant, WalkFits, AnswerFits, UsernameLoginWorks
<1> QED
  BY <1>1, DiscoveryInvariantHolds, PTL

(* A client whose names nobody else uses can only end at its own calendar. *)
THEOREM WalkEndsAtOwnCalendar == DiscoverySpec => []OwnCalendarFound
<1>1. DiscoveryInvariant => OwnCalendarFound
  <2> SUFFICES ASSUME DiscoveryInvariant, NEW c \in Walkers, sure[c] # {}, has[c]
               PROVE  /\ stage[c] # "lost" \/ header[c] \in {"other", "garbled"}
                      /\ stage[c] = "found" => account[c] \in sure[c]
    BY DEF OwnCalendarFound
  <2>1. StageFits(c) /\ SureFits(c)
    BY DEF DiscoveryInvariant, WalkFits
  <2> QED
    BY <2>1 DEF StageFits, SureFits
<1> QED
  BY <1>1, DiscoveryInvariantHolds, PTL

=============================================================================
