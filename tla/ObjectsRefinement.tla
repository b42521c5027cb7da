------------------------- MODULE ObjectsRefinement -------------------------
(***************************************************************************)
(* ObjectRequests as an implementation of AtomicObjects.  A request is     *)
(* decided by the statement that writes the row (InsertRow, UpdateRow,     *)
(* DeleteRow); the precondition and the SELECT before it, the log entry,   *)
(* the bump and the reading back after it do not show.                     *)
(***************************************************************************)
EXTENDS ObjectRequests

Decided(r) == pc[r] \in {"log", "bump", "readback"}

\* The answer that a decided request is going to give.
Promised(r) ==
    [status |-> IF Mcp(r) THEN "ok" ELSE IF ~ Deletes(r) /\ is_new[r] THEN "201" ELSE "204",
     etag   |-> IF Deletes(r) THEN None ELSE etag[r]]

\* How far a request has come, and its answer, as AtomicObjects sees them.
Progress ==
    [r \in Requests |->
        IF pc[r] = "idle" THEN "idle"
        ELSE IF pc[r] = "done" THEN "returned"
        ELSE IF Decided(r) THEN "decided" ELSE "called"]

Outcome == [r \in Requests |-> IF Decided(r) THEN Promised(r) ELSE answer[r]]

Atomic == INSTANCE AtomicObjects WITH
    Absent  <- None,
    rows    <- objects,
    asks    <- task,
    expects <- if_match,
    phase   <- Progress,
    result  <- Outcome

(* For clients that take turns on an object, a request is one atomic       *)
(* operation: the If-Match comparison and the SELECT of upsert_object hold *)
(* when the row is written, and the answer is about that write alone,      *)
(* although other objects of the calendar are written in between.          *)
ImplementsAtomicObjects == Atomic!AtomicSpec

=============================================================================
