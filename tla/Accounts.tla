------------------------------ MODULE Accounts ------------------------------
(***************************************************************************)
(* The users table (src/db/users.rs) and the commands that write it        *)
(* (create-user and reset-password of src/main.rs), one step per SQL       *)
(* statement.  Every command is a process of its own.  No code removes or  *)
(* renames a user.                                                         *)
(*                                                                         *)
(* A username and an email address are both just strings, so one account's *)
(* username may be another's email.  A hash matches the password it was    *)
(* made from and no other.                                                 *)
(***************************************************************************)
EXTENDS Integers, Sequences, FiniteSets

CONSTANTS
    Names,          \* the strings used as usernames and email addresses
    NoName,         \* the email of a user without one
    Emails,         \* the emails users are created with
    Passwords,
    Commands        \* the invocations of the command line

ASSUME AccountsAssumptions ==
    /\ NoName \notin Names
    /\ NoName \in Emails /\ Emails \subseteq Names \cup {NoName}

VARIABLES
    users,          \* the rows in the order of their insertion
    given,          \* the row that a create-user command inserted
    step,           \* the statement it executes next
    outcome         \* what it reports: none, created, conflict, updated, unknown

accounts == <<users, given, step, outcome>>

Row == [username : Names, email : Emails, password : Passwords]

\* No arguments yet.
NoRow == CHOOSE row \in Row : row.email = NoName

AccountsTypeOK ==
    /\ users \in Seq(Row)
    /\ given \in [Commands -> Row]
    /\ step \in [Commands -> {"idle", "readback", "done"}]
    /\ outcome \in [Commands -> {"none", "created", "conflict", "updated", "unknown"}]

\* The table has the rows of earlier commands; one is enough to be in the way.
AccountsInit ==
    /\ users \in {<<>>} \cup {<<row>> : row \in Row}
    /\ given = [k \in Commands |-> NoRow]
    /\ step = [k \in Commands |-> "idle"]
    /\ outcome = [k \in Commands |-> "none"]

----------------------------------------------------------------------------
\* get_user_by_username: at most one row, the column is UNIQUE
ByUsername(name) == {i \in DOMAIN users : users[i].username = name}

\* get_user_by_email: any row with the email, which is not UNIQUE
ByEmail(name) == {i \in DOMAIN users : users[i].email = name}

Report(k, what) ==
    /\ step' = [step EXCEPT ![k] = "done"]
    /\ outcome' = [outcome EXCEPT ![k] = what]

\* Mutant: the username column is not UNIQUE.
InsertAnyUser(k) ==
    /\ step[k] = "idle"
    /\ \E row \in Row :
           /\ given' = [given EXCEPT ![k] = row]
           /\ users' = Append(users, row)
    /\ step' = [step EXCEPT ![k] = "readback"]
    /\ UNCHANGED outcome

(* create-user: the INSERT fails if the username is taken.                 *)
InsertUser(k) ==
    /\ step[k] = "idle"
    /\ \E row \in Row :
           \/ /\ ByUsername(row.username) = {}
              /\ users' = Append(users, row)
              /\ given' = [given EXCEPT ![k] = row]
              /\ step' = [step EXCEPT ![k] = "readback"]
              /\ UNCHANGED outcome
           \/ /\ ByUsername(row.username) # {}
              /\ Report(k, "conflict")
              /\ UNCHANGED <<users, given>>

(* create-user: the row is read back by its username.                      *)
ReadUserBack(k) ==
    /\ step[k] = "readback"
    /\ Report(k, IF ByUsername(given[k].username) # {} THEN "created" ELSE "unknown")
    /\ UNCHANGED <<users, given>>

(* reset-password: one UPDATE, which may affect no row.                    *)
ResetPassword(k) ==
    /\ step[k] = "idle"
    /\ \E name \in Names, password \in Passwords :
           /\ users' = [i \in DOMAIN users |->
                           IF i \in ByUsername(name)
                             THEN [users[i] EXCEPT !.password = password] ELSE users[i]]
           /\ Report(k, IF ByUsername(name) # {} THEN "updated" ELSE "unknown")
    /\ UNCHANGED given

CommandStep(k) == InsertUser(k) \/ ReadUserBack(k) \/ ResetPassword(k)

----------------------------------------------------------------------------
(* However many create-user commands race for a username, one of them at   *)
(* most reports that it created the user, and the row it left has its      *)
(* email; the others are told of the conflict.                             *)
CreatedOnce ==
    \A k \in Commands :
        outcome[k] = "created" =>
            /\ \A j \in Commands \ {k} :
                   outcome[j] = "created" => given[j].username # given[k].username
            /\ \A i \in ByUsername(given[k].username) : users[i].email = given[k].email

=============================================================================
