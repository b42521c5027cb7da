------------------------------ MODULE MCPolling ------------------------------
(* Small instances of Polling for TLC. *)
EXTENDS Polling

\* Writes and deletions of one object, and the creation of another.  The tools are
\* no more than that: create_event is a PUT and delete_event a DELETE without an
\* access check, update_event a PUT that looks for the row first.
Writers ==
    LET first == CHOOSE u \in Uids : TRUE IN
    {t \in Task : \/ t.kind \in {"PUT", "DELETE"} /\ t.uid = first
                  \/ t.kind = "create_event" /\ t.uid # first}

=============================================================================
