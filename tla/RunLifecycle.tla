---------------------------- MODULE RunLifecycle -----------------------------
(***************************************************************************)
(* What the platform promises about a durable run that only workers        *)
(* execute (docs/concepts/task-and-run.md, "Lifecycle"): its phase, and    *)
(* the one worker that may move it.  Leases, attempts, tasks, snapshots    *)
(* and the order of the writes are the implementation's (RunExecution).    *)
(***************************************************************************)
CONSTANTS
    Owners,  \* workers
    Nobody   \* the run has no owner

VARIABLES
    phase,   \* queued, executing, answered, succeeded, failed or canceled
    owner

vars == <<phase, owner>>

Init == phase = "queued" /\ owner = Nobody

\* a worker takes the run from the queue, or from an owner that let its lease run out
Claim(w) ==
    /\ phase \in {"queued", "executing"}
    /\ phase' = "executing" /\ owner' = w

\* the run of an owner that let its lease run out goes back to the queue
Requeue ==
    /\ phase = "executing"
    /\ phase' = "queued" /\ owner' = Nobody

\* the owner, and nobody else, moves an executing run: to the agent's answer, to the
\* result of an error handler, or to a failure
Conclude(w) ==
    /\ phase = "executing" /\ owner = w
    /\ phase' \in {"answered", "succeeded", "failed"}
    /\ UNCHANGED owner

\* a failure is final unless the owner has another attempt
Resume(w) ==
    /\ phase = "failed" /\ owner = w
    /\ phase' = "executing"
    /\ UNCHANGED owner

Settle ==
    /\ phase = "answered"
    /\ phase' = "succeeded"
    /\ UNCHANGED owner

\* the owner leaves a run only when it is over
Release(w) ==
    /\ phase \in {"succeeded", "failed"} /\ owner = w
    /\ owner' = Nobody
    /\ UNCHANGED phase

Cancel ==
    /\ phase \in {"queued", "executing", "answered"}
    /\ phase' = "canceled" /\ owner' = Nobody

Next ==
    \/ \E w \in Owners : Claim(w) \/ Conclude(w) \/ Resume(w) \/ Release(w)
    \/ Requeue \/ Settle \/ Cancel

Spec == Init /\ [][Next]_vars
=============================================================================
