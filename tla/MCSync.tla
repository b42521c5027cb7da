------------------------------- MODULE MCSync -------------------------------
(* Small instances of SyncReports for TLC. *)
EXTENDS SyncReports, ObjectsRefinement

OneUser == CHOOSE u \in Users : TRUE

CalDavTasks == {t \in Task : t.kind \in {"PUT", "DELETE"} /\ t.user = OneUser}

OneUid == CHOOSE u \in Uids : TRUE

OneObject == \A r \in Requests : Uid(r) = OneUid

\* Either all requests are about one object, and the client mirrors it; or two
\* objects are written side by side, and the client has no access.
MirrorOrOverlap ==
    /\ SyncInit
    /\ \A c \in Created : owner[c] = OneUser
    /\ \A k \in Clients : OneObject <=> viewer[k] = OneUser
    /\ \/ OneObject
       \/ 2 * Cardinality({r \in Requests : Uid(r) = OneUid}) > Cardinality(Requests)

MCSyncSpec == MirrorOrOverlap /\ [][SyncNext]_allVars /\ Handling /\ Polling

=============================================================================
