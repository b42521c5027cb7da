----------------------------- MODULE McpServer -----------------------------
(***************************************************************************)
(* The MCP endpoint in front of the tools: bearer authentication           *)
(* (src/mcp/auth.rs, validate_token of src/db/tokens.rs), the JSON-RPC     *)
(* transport (transport.rs, handlers.rs) and the sessions (session.rs),    *)
(* while the command line (src/main.rs) creates and deletes tokens.        *)
(*                                                                         *)
(* A token is verified by its hash; equal tokens, and only those, match.   *)
(* expires_at is never written, so no token expires.  What a tool does to  *)
(* the database is in ObjectRequests and CollectionRequests; here a call   *)
(* only records for whom it ran.                                           *)
(***************************************************************************)
CONSTANTS
    Users,          \* user ids
    NoUser,         \* no row, no session, not authenticated
    Tokens,         \* raw tokens: create_token's random strings
    SessionIds,     \* the ids create_session may draw
    Posts           \* the HTTP requests that may arrive

\* What the proofs need of the constants.
McpAssumptions ==
    /\ NoUser \notin Users \cup SessionIds
    /\ Users \cap SessionIds = {}   \* UUIDs of different versions

Methods == {"initialize", "notifications/initialized", "tools/list", "tools/call",
            "ping", "unknown", "GET /mcp", "DELETE /mcp"}

Post == [method : Methods, bearer : Tokens, notification : BOOLEAN]

VARIABLES
    mcp_tokens,     \* raw token -> its user; NoUser without a row
    issued_to,      \* raw token -> the user it was created for (history)
    sessions,       \* SessionManager: id -> user; NoUser without an entry
    post,           \* what each request is; never changes
    phase,          \* how far each request has come
    user,           \* McpUserId, inserted by the middleware
    reply           \* the status and the Mcp-Session-Id header

mcpVars == <<mcp_tokens, issued_to, sessions, post, phase, user, reply>>

Ids == SessionIds \cup Users

Phases == {"idle", "auth", "body", "handle", "answer", "done"}

Reply == [status : {"none", "200", "202", "400", "401", "parse error"}, session : Ids \cup {NoUser}]

McpTypeOK ==
    /\ mcp_tokens \in [Tokens -> Users \cup {NoUser}]
    /\ issued_to \in [Tokens -> Users \cup {NoUser}]
    /\ sessions \in [Ids -> Users \cup {NoUser}]
    /\ post \in [Posts -> Post]
    /\ phase \in [Posts -> Phases]
    /\ user \in [Posts -> Users \cup {NoUser}]
    /\ reply \in [Posts -> Reply]

McpInit ==
    /\ mcp_tokens = [t \in Tokens |-> NoUser]
    /\ issued_to = [t \in Tokens |-> NoUser]
    /\ sessions = [i \in Ids |-> NoUser]
    /\ post \in [Posts -> Post]
    /\ phase = [p \in Posts |-> "idle"]
    /\ user = [p \in Posts |-> NoUser]
    /\ reply = [p \in Posts |-> [status |-> "none", session |-> NoUser]]

----------------------------------------------------------------------------
(* The command line, a process of its own *)

(* create-token: a random string nobody has seen, stored for the user. *)
CreateToken(t, u) ==
    /\ issued_to[t] = NoUser
    /\ mcp_tokens' = [mcp_tokens EXCEPT ![t] = u]
    /\ issued_to' = [issued_to EXCEPT ![t] = u]
    /\ UNCHANGED <<sessions, post, phase, user, reply>>

(* delete-token: requests that are authenticated already go on. *)
DeleteToken(t) ==
    /\ mcp_tokens[t] # NoUser
    /\ mcp_tokens' = [mcp_tokens EXCEPT ![t] = NoUser]
    /\ UNCHANGED <<issued_to, sessions, post, phase, user, reply>>

----------------------------------------------------------------------------
(* The sessions *)

\* get_user_id: what the map has under a string, session id or not
GetUserId(id) == sessions[id]

\* create_session: an id that is not in the map
CreateSession(u) ==
    \E id \in {i \in SessionIds : sessions[i] = NoUser} :
        sessions' = [sessions EXCEPT ![id] = u]

\* The session ids that responses have carried, or none.
Known == {reply[p].session : p \in Posts} \cup {NoUser}

----------------------------------------------------------------------------
Proceed(p, label) == phase' = [phase EXCEPT ![p] = label]

Answer(p, status, session) ==
    /\ Proceed(p, "done")
    /\ reply' = [reply EXCEPT ![p] = [status |-> status, session |-> session]]

(* A request reaches the server; the header names a token that exists, or  *)
(* existed, or will exist, or none of the right form.                      *)
Receive(p) ==
    /\ phase[p] = "idle"
    /\ \/ Proceed(p, "auth") /\ UNCHANGED reply
       \/ Answer(p, "401", NoUser)
    /\ UNCHANGED <<mcp_tokens, issued_to, sessions, post, user>>

(* require_bearer_auth: one query, then the hashes are compared. *)
Authenticate(p) ==
    /\ phase[p] = "auth"
    /\ \/ /\ mcp_tokens[post[p].bearer] # NoUser
          /\ user' = [user EXCEPT ![p] = mcp_tokens[post[p].bearer]]
          /\ Proceed(p, "body")
          /\ UNCHANGED reply
       \/ /\ mcp_tokens[post[p].bearer] = NoUser
          /\ Answer(p, "401", NoUser)
          /\ UNCHANGED user
    /\ UNCHANGED <<mcp_tokens, issued_to, sessions, post>>

(* GET answers an empty stream; DELETE removes the session it names, if    *)
(* any; POST reads its body, which may be too large (400) or no JSON-RPC   *)
(* request (an error in a 200).                                            *)
Transport(p) ==
    /\ phase[p] = "body"
    /\ \/ /\ post[p].method = "GET /mcp"
          /\ Answer(p, "200", NoUser)
          /\ UNCHANGED sessions
       \/ /\ post[p].method = "DELETE /mcp"
          /\ \E id \in Known :
                 sessions' = [i \in Ids |-> IF i = id THEN NoUser ELSE sessions[i]]
          /\ Answer(p, "200", NoUser)
       \/ /\ post[p].method \notin {"GET /mcp", "DELETE /mcp"}
          /\ \/ Answer(p, "400", NoUser)
             \/ Answer(p, "parse error", NoUser)
             \/ Proceed(p, "handle") /\ UNCHANGED reply
          /\ UNCHANGED sessions
    /\ UNCHANGED <<mcp_tokens, issued_to, post, user>>

(* handle_request; a notification is processed like a request. *)
HandleRequest(p) ==
    /\ phase[p] = "handle"
    /\ \/ post[p].method = "initialize" /\ CreateSession(user[p])
       \/ post[p].method # "initialize" /\ UNCHANGED sessions
    /\ Proceed(p, "answer")
    /\ UNCHANGED <<mcp_tokens, issued_to, post, user, reply>>

(* handle_post's end: 202 for a notification; otherwise 200, with the      *)
(* session header that is looked up under the user's id.                   *)
Finish(p) ==
    /\ phase[p] = "answer"
    /\ \/ post[p].notification /\ Answer(p, "202", NoUser)
       \/ /\ ~ post[p].notification
          /\ Answer(p, "200", IF post[p].method = "initialize"
                                THEN GetUserId(user[p]) ELSE NoUser)
    /\ UNCHANGED <<mcp_tokens, issued_to, sessions, post, user>>

McpNext ==
    \/ \E t \in Tokens : DeleteToken(t) \/ \E u \in Users : CreateToken(t, u)
    \/ \E p \in Posts : \/ Receive(p) \/ Authenticate(p) \/ Transport(p)
                        \/ HandleRequest(p) \/ Finish(p)

McpSpec == McpInit /\ [][McpNext]_mcpVars

----------------------------------------------------------------------------
(* A request runs for the user its token was created for, however tokens   *)
(* are created and deleted while it waits; without one it never runs.      *)
RunsForTokenOwner ==
    \A p \in Posts :
        /\ user[p] # NoUser => issued_to[post[p].bearer] = user[p]
        /\ phase[p] \in {"body", "handle", "answer"} => user[p] # NoUser

(* "Include session ID header if we just created one": an initialize that  *)
(* is answered tells the client the id of a session, without which it can  *)
(* name none to DELETE /mcp.                                               *)
InitializeTellsSession ==
    \A p \in Posts :
        post[p].method = "initialize" /\ reply[p].status = "200" =>
            reply[p].session \in SessionIds

=============================================================================
