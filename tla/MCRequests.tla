----------------------------- MODULE MCRequests -----------------------------
(* Small instances of ObjectRequests for TLC. *)
EXTENDS ObjectRequests

PutTasks == {t \in Task : t.kind = "PUT"}

=============================================================================
