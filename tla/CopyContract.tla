----------------------------- MODULE CopyContract -----------------------------
(***************************************************************************)
(* What parallelCopy promises its caller, TransferTask._run, whatever the    *)
(* number of workers and the order in which the server answers: one verdict *)
(* that is "ok" only if no request failed and nobody cancelled, that names  *)
(* the I/O error if one came first, and that comes soon after a cancel.     *)
(***************************************************************************)

VARIABLES
    phase,       \* "new", "copying", then the verdict
    failed,      \* a read or a write has failed
    cancelled    \* token.isCancellationRequested

vars == <<phase, failed, cancelled>>

Verdicts == {"ok", "failed", "aborted"}

Init == phase = "new" /\ failed = FALSE /\ cancelled = FALSE

\* An empty file is done at once, a cancelled copy is not begun.
Begin ==
    /\ phase = "new"
    /\ \/ phase' = "ok"
       \/ cancelled /\ phase' = "aborted"
       \/ ~cancelled /\ phase' = "copying"
    /\ UNCHANGED <<failed, cancelled>>

RequestFails ==
    /\ phase = "copying" /\ ~cancelled
    /\ failed' = TRUE
    /\ UNCHANGED <<phase, cancelled>>

Cancel ==
    /\ phase \in {"new", "copying"} /\ ~cancelled
    /\ cancelled' = TRUE
    /\ UNCHANGED <<phase, failed>>

Settle ==
    /\ phase = "copying"
    /\ phase' = IF failed THEN "failed" ELSE IF cancelled THEN "aborted" ELSE "ok"
    /\ UNCHANGED <<failed, cancelled>>

Next == Begin \/ RequestFails \/ Cancel \/ Settle

Spec == Init /\ [][Next]_vars
FairSpec == Spec /\ WF_vars(cancelled /\ Settle)
=============================================================================
