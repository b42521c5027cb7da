------------------------------ MODULE MCServer ------------------------------
(* Small instances of Server for TLC. *)
EXTENDS Server, TLC

CalDavTasks == {t \in Task : t.kind \in {"PUT", "DELETE"}}

Lifecycle ==
    {t \in CollectionTask :
        t.kind \in {"MKCALENDAR", "DELETE"} /\ t.fields = {} /\ t.guest = t.user}

ServerSymmetry ==
    Permutations(Requests) \cup Permutations(Managers) \cup Permutations(Uids)

=============================================================================
