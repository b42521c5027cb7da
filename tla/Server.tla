------------------------------- MODULE Server -------------------------------
(***************************************************************************)
(* The two HTTP servers over one database: object requests, collection     *)
(* requests and sync reports, their statements interleaved.                *)
(***************************************************************************)
EXTENDS SyncReports, CollectionRequests

serverVars == <<store, requests, clients, managers>>

ServerInit == SyncInit /\ CollectionInit

ServerNext ==
    \/ SyncNext /\ UNCHANGED managers
    \/ ManagerStep /\ UNCHANGED <<requests, clients>>

ServerSpec == ServerInit /\ [][ServerNext]_serverVars

\* Tables, requests, reports and clients keep the types of their fields.
ServerTypeOK == SyncTypeOK /\ CollectionTypeOK

(* Also across the deletion and re-creation of its calendar, a client      *)
(* whose token is the current one, while no request is between its row     *)
(* write and its bump, misses no stored object and has none in an old      *)
(* version.                                                                *)
CurrentTokenMissesNothing ==
    \A k \in Clients :
        LET c == mirrored[k] IN
        token[k] # None /\ token[k] = sync_token[c] /\ Settled(c) =>
            \A u \in Uids : objects[c][u] # None => copy[k][u] = objects[c][u]

(* No calendar ever carries a ctag or sync token again that it, or a       *)
(* client, or the change log has seen: a re-created calendar is never      *)
(* mistaken for the old one by an unchanged token.                         *)
TokensNotReused ==
    [][\A c \in Calendars :
          sync_token'[c] \notin {sync_token[c], None} =>
              /\ \A d \in Calendars : sync_token[d] # sync_token'[c]
              /\ \A k \in Clients : sync_token'[c] \notin {token[k], read_token[k]}
              /\ \A d \in Calendars : \A i \in DOMAIN sync_changes[d] :
                     sync_changes[d][i].token # sync_token'[c]]_serverVars

=============================================================================
