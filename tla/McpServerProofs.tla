-------------------------- MODULE McpServerProofs --------------------------
(* Proofs about McpServer, for any tokens, users and requests. *)
EXTENDS McpServer, TLAPS

\* What makes RunsForTokenOwner inductive: a stored token belongs to the user
\* it was created for.
TokensAsIssued ==
    \A t \in Tokens : mcp_tokens[t] # NoUser => mcp_tokens[t] = issued_to[t]

McpInvariant == McpTypeOK /\ TokensAsIssued /\ RunsForTokenOwner

\* Proceed and Answer keep the types of phase and reply.
LEMMA ProceedTyped ==
  ASSUME McpTypeOK, NEW p \in Posts, NEW label \in Phases, Proceed(p, label)
  PROVE  phase' \in [Posts -> Phases]
  BY DEF McpTypeOK, Proceed

\* Answer ends a request with a status and a session id or none.
LEMMA AnswerTyped ==
  ASSUME McpTypeOK, NEW p \in Posts,
         NEW status \in {"200", "202", "400", "401", "parse error"},
         NEW session \in Ids \cup {NoUser},
         Answer(p, status, session)
  PROVE  phase' \in [Posts -> Phases] /\ reply' \in [Posts -> Reply]
  <1>1. [status |-> status, session |-> session] \in Reply
    BY DEF Reply
  <1>2. "done" \in Phases
    BY DEF Phases
  <1>3. reply' = [reply EXCEPT ![p] = [status |-> status, session |-> session]]
    BY DEF Answer
  <1>4. reply \in [Posts -> Reply]
    BY DEF McpTypeOK
  <1>5. reply' \in [Posts -> Reply]
    BY <1>1, <1>3, <1>4, Zenon
  <1> QED
    BY <1>2, <1>5, ProceedTyped DEF Answer

\* The invariant holds when the server starts.
LEMMA McpInitially == McpInit => McpInvariant
  <1> SUFFICES ASSUME McpInit PROVE McpInvariant
    OBVIOUS
  <1>1. McpTypeOK
    BY DEF McpInit, McpTypeOK, Phases, Reply
  <1>2. TokensAsIssued /\ RunsForTokenOwner
    BY DEF McpInit, TokensAsIssued, RunsForTokenOwner
  <1> QED
    BY <1>1, <1>2 DEF McpInvariant

\* Every step of the endpoint and of the command line keeps it.
LEMMA McpPreserved ==
  ASSUME McpAssumptions
  PROVE  McpInvariant /\ [McpNext]_mcpVars => McpInvariant'
  <1> SUFFICES ASSUME McpInvariant, [McpNext]_mcpVars
               PROVE  McpInvariant'
    OBVIOUS
  <1> USE DEF McpAssumptions
  <1>1. ASSUME NEW t \in Tokens, DeleteToken(t)
        PROVE  McpInvariant'
    BY <1>1 DEF McpInvariant, McpTypeOK, TokensAsIssued, RunsForTokenOwner, DeleteToken
  <1>2. ASSUME NEW t \in Tokens, NEW u \in Users, CreateToken(t, u)
        PROVE  McpInvariant'
    <2>1. McpTypeOK' /\ TokensAsIssued'
      BY <1>2 DEF McpInvariant, McpTypeOK, TokensAsIssued, CreateToken
    <2>2. RunsForTokenOwner'
      BY <1>2 DEF McpInvariant, McpTypeOK, RunsForTokenOwner, CreateToken, Post
    <2> QED
      BY <2>1, <2>2 DEF McpInvariant
  <1>3. ASSUME NEW p \in Posts, Receive(p)
        PROVE  McpInvariant'
    <2>a. phase' \in [Posts -> Phases] /\ reply' \in [Posts -> Reply]
      <3>1. CASE Proceed(p, "auth") /\ UNCHANGED reply
        BY <3>1, ProceedTyped DEF McpInvariant, McpTypeOK, Phases
      <3>2. CASE Answer(p, "401", NoUser)
        BY <3>2, AnswerTyped DEF McpInvariant
      <3> QED
        BY <1>3, <3>1, <3>2 DEF Receive
    <2>1. McpTypeOK'
      BY <1>3, <2>a DEF McpInvariant, McpTypeOK, Receive
    <2>2. TokensAsIssued' /\ RunsForTokenOwner'
      BY <1>3 DEF McpInvariant, McpTypeOK, TokensAsIssued, RunsForTokenOwner,
                  Receive, Proceed, Answer
    <2> QED
      BY <2>1, <2>2 DEF McpInvariant
  <1>4. ASSUME NEW p \in Posts, Authenticate(p)
        PROVE  McpInvariant'
    <2>0. post[p].bearer \in Tokens
      BY DEF McpInvariant, McpTypeOK, Post
    <2>a. phase' \in [Posts -> Phases] /\ reply' \in [Posts -> Reply]
      <3>1. CASE Proceed(p, "body") /\ UNCHANGED reply
        BY <3>1, ProceedTyped DEF McpInvariant, McpTypeOK, Phases
      <3>2. CASE Answer(p, "401", NoUser)
        BY <3>2, AnswerTyped DEF McpInvariant
      <3> QED
        BY <1>4, <3>1, <3>2 DEF Authenticate
    <2>1. McpTypeOK'
      BY <1>4, <2>0, <2>a DEF McpInvariant, McpTypeOK, Authenticate
    <2>2. TokensAsIssued'
      BY <1>4 DEF McpInvariant, TokensAsIssued, Authenticate
    <2>3. RunsForTokenOwner'
      BY <1>4, <2>0 DEF McpInvariant, McpTypeOK, TokensAsIssued, RunsForTokenOwner,
                  Authenticate, Proceed, Answer
    <2> QED
      BY <2>1, <2>2, <2>3 DEF McpInvariant
  <1>5. ASSUME NEW p \in Posts, Transport(p)
        PROVE  McpInvariant'
    <2>1. sessions' \in [Ids -> Users \cup {NoUser}]
      BY <1>5 DEF McpInvariant, McpTypeOK, Transport
    <2>a. phase' \in [Posts -> Phases] /\ reply' \in [Posts -> Reply]
      <3>1. CASE Proceed(p, "handle") /\ UNCHANGED reply
        BY <3>1, ProceedTyped DEF McpInvariant, McpTypeOK, Phases
      <3>2. CASE \E status \in {"200", "400", "parse error"} : Answer(p, status, NoUser)
        BY <3>2, AnswerTyped DEF McpInvariant
      <3> QED
        BY <1>5, <3>1, <3>2 DEF Transport
    <2>2. McpTypeOK'
      BY <1>5, <2>1, <2>a DEF McpInvariant, McpTypeOK, Transport
    <2>3. TokensAsIssued' /\ RunsForTokenOwner'
      BY <1>5 DEF McpInvariant, McpTypeOK, TokensAsIssued, RunsForTokenOwner,
                  Transport, Proceed, Answer
    <2> QED
      BY <2>2, <2>3 DEF McpInvariant
  <1>6. ASSUME NEW p \in Posts, HandleRequest(p)
        PROVE  McpInvariant'
    <2>1. sessions' \in [Ids -> Users \cup {NoUser}]
      BY <1>6 DEF McpInvariant, McpTypeOK, HandleRequest, CreateSession
    <2>2. McpTypeOK'
      BY <1>6, <2>1 DEF McpInvariant, McpTypeOK, HandleRequest, Proceed, Phases
    <2>3. TokensAsIssued' /\ RunsForTokenOwner'
      BY <1>6 DEF McpInvariant, McpTypeOK, TokensAsIssued, RunsForTokenOwner,
                  HandleRequest, Proceed
    <2> QED
      BY <2>2, <2>3 DEF McpInvariant
  <1>7. ASSUME NEW p \in Posts, Finish(p)
        PROVE  McpInvariant'
    <2>1. GetUserId(user[p]) \in Ids \cup {NoUser} \/ user[p] = NoUser
      BY DEF McpInvariant, McpTypeOK, GetUserId, Ids
    <2>2. user[p] # NoUser
      BY <1>7 DEF McpInvariant, RunsForTokenOwner, Finish
    <2>a. phase' \in [Posts -> Phases] /\ reply' \in [Posts -> Reply]
      <3>1. \E status \in {"200", "202"}, session \in Ids \cup {NoUser} :
               Answer(p, status, session)
        BY <1>7, <2>1, <2>2 DEF Finish
      <3> QED
        BY <3>1, AnswerTyped DEF McpInvariant
    <2>3. McpTypeOK'
      BY <1>7, <2>a DEF McpInvariant, McpTypeOK, Finish
    <2>4. TokensAsIssued' /\ RunsForTokenOwner'
      BY <1>7 DEF McpInvariant, McpTypeOK, TokensAsIssued, RunsForTokenOwner,
                  Finish, Proceed, Answer
    <2> QED
      BY <2>3, <2>4 DEF McpInvariant
  <1>8. CASE UNCHANGED mcpVars
    BY <1>8 DEF McpInvariant, McpTypeOK, TokensAsIssued, RunsForTokenOwner, mcpVars
  <1> QED
    BY <1>1, <1>2, <1>3, <1>4, <1>5, <1>6, <1>7, <1>8 DEF McpNext

(* Every MCP request that is processed runs for the user its bearer token  *)
(* was created for, whatever tokens the command line creates and deletes   *)
(* between require_bearer_auth's query and the end of the request.         *)
THEOREM RequestsRunForTokenOwner ==
  ASSUME McpAssumptions
  PROVE  McpSpec => []RunsForTokenOwner
  <1>1. McpInvariant => RunsForTokenOwner
    BY DEF McpInvariant
  <1> QED
    BY McpInitially, McpPreserved, <1>1, PTL DEF McpSpec

----------------------------------------------------------------------------
(* Sessions *)

\* Nobody learns a session id: create_session draws from SessionIds, so the
\* lookup under a user id at the end of initialize finds nothing.
SessionsUnknown ==
    /\ \A u \in Users : sessions[u] = NoUser
    /\ \A p \in Posts : reply[p].session = NoUser

\* An answer without a session id leaves the ids unknown.
LEMMA AnswerKeeps ==
  ASSUME McpTypeOK, SessionsUnknown, NEW p \in Posts,
         NEW status \in {"200", "202", "400", "401", "parse error"},
         Answer(p, status, NoUser), UNCHANGED sessions
  PROVE  SessionsUnknown'
  <1>1. \A q \in Posts \ {p} : reply'[q] = reply[q]
    BY DEF McpTypeOK, Answer
  <1>2. reply'[p].session = NoUser
    BY DEF McpTypeOK, Answer
  <1> QED
    BY <1>1, <1>2 DEF SessionsUnknown

\* Every step keeps the ids unknown: HandleRequest adds an entry under an id
\* that is no user's, and Finish looks up the user's.
LEMMA SessionsPreserved ==
  ASSUME McpAssumptions
  PROVE  McpInvariant /\ SessionsUnknown /\ [McpNext]_mcpVars => SessionsUnknown'
  <1> SUFFICES ASSUME McpInvariant, SessionsUnknown, [McpNext]_mcpVars
               PROVE  SessionsUnknown'
    OBVIOUS
  <1> USE DEF McpAssumptions
  <1>t. McpTypeOK /\ SessionsUnknown /\ RunsForTokenOwner
    BY DEF McpInvariant
  <1>0. ASSUME UNCHANGED <<sessions, reply>> PROVE SessionsUnknown'
    BY <1>0 DEF SessionsUnknown
  <1>1. ASSUME NEW p \in Posts, Receive(p) PROVE SessionsUnknown'
    BY <1>0, <1>1, <1>t, AnswerKeeps DEF Receive
  <1>2. ASSUME NEW p \in Posts, Authenticate(p) PROVE SessionsUnknown'
    BY <1>0, <1>2, <1>t, AnswerKeeps DEF Authenticate
  <1>3. ASSUME NEW p \in Posts, Transport(p) PROVE SessionsUnknown'
    <2>1. Known = {NoUser}
      BY <1>t DEF SessionsUnknown, Known
    <2>2. sessions' = sessions
      <3>1. NoUser \notin Ids
        BY DEF Ids
      <3>2. [i \in Ids |-> IF i = NoUser THEN NoUser ELSE sessions[i]] = sessions
        BY <3>1, <1>t DEF McpTypeOK
      <3> QED
        BY <1>3, <2>1, <3>2 DEF Transport
    <2>3. \/ UNCHANGED reply
          \/ \E status \in {"200", "400", "parse error"} : Answer(p, status, NoUser)
      BY <1>3 DEF Transport
    <2> QED
      BY <1>0, <1>t, <2>2, <2>3, AnswerKeeps
  <1>4. ASSUME NEW p \in Posts, HandleRequest(p) PROVE SessionsUnknown'
    BY <1>4, <1>t DEF McpTypeOK, Ids, SessionsUnknown, HandleRequest, CreateSession
  <1>5. ASSUME NEW p \in Posts, Finish(p) PROVE SessionsUnknown'
    <2>1. user[p] \in Users /\ sessions[user[p]] = NoUser
      BY <1>5, <1>t DEF McpTypeOK, RunsForTokenOwner, SessionsUnknown, Finish
    <2>2. \E status \in {"200", "202"} : Answer(p, status, NoUser)
      BY <1>5, <2>1 DEF Finish, GetUserId
    <2> QED
      BY <1>5, <1>t, <2>2, AnswerKeeps DEF Finish
  <1>6. ASSUME NEW t \in Tokens, DeleteToken(t) \/ \E u \in Users : CreateToken(t, u)
        PROVE  SessionsUnknown'
    BY <1>0, <1>6 DEF DeleteToken, CreateToken
  <1> QED
    BY <1>0, <1>1, <1>2, <1>3, <1>4, <1>5, <1>6 DEF McpNext, mcpVars

(* The counterexample to InitializeTellsSession is no accident of its      *)
(* interleaving: no response of the server ever carries a session id, as   *)
(* handle_post looks the session up under the user's id.  So no DELETE     *)
(* /mcp names a session, and the map keeps every entry.                    *)
THEOREM NoSessionIdIsSent ==
  ASSUME McpAssumptions
  PROVE  McpSpec => [](\A p \in Posts : reply[p].session = NoUser)
  <1>1. McpInit => SessionsUnknown
    BY DEF McpAssumptions, McpInit, SessionsUnknown, Ids
  <1>2. SessionsUnknown => \A p \in Posts : reply[p].session = NoUser
    BY DEF SessionsUnknown
  <1> QED
    BY McpInitially, McpPreserved, SessionsPreserved, <1>1, <1>2, PTL DEF McpSpec

=============================================================================
