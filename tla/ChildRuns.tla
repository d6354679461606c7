------------------------------ MODULE ChildRuns ------------------------------
(***************************************************************************)
(* AgentContext.run_child_agent in a deployment of API servers and         *)
(* workers: clients submit a run, a worker claims it, its agent calls a    *)
(* child agent as a durable stage.  The worker submits the child run under *)
(* a request id that the stage key fixes and executes it itself            *)
(* (run_now), under no worker id; but the child is QUEUED in the table     *)
(* that every worker polls.                                                *)
(*                                                                         *)
(* The parent's own attempts are module RunExecution and the fencing of    *)
(* its stage module StageLedger; here the parent is executing or not, and  *)
(* the execution token of the stage is the worker that began it.  A lease  *)
(* has run out when no task of its worker renews it any more, or (Timely = *)
(* FALSE) at any time.                                                     *)
(***************************************************************************)
EXTENDS Submission, RunStatus

CONSTANTS
    Workers,      \* worker processes
    Clients,      \* HTTP requests, the other submitters
    Timely,       \* TRUE: a live worker renews its leases in time
    MaxAttempts,  \* of the child
    MaxExits,     \* bound: crashes and graceful shutdowns of workers
    MaxTimeouts   \* bound: timeouts of the parent's attempts

ASSUME SubmitterAssumption ==
    /\ Submitters = Workers \cup Clients /\ Workers \cap Clients = {}
    /\ Timely \in BOOLEAN
    /\ NoWorker \notin Submitters
    /\ {"parent", "child"} \subseteq Requests
    /\ \A c \in Clients : RequestOf[c] \in Requests \ {"child"}
    /\ \A w \in Workers : RequestOf[w] = "child"
    /\ MaxAttempts \in Nat \ {0} /\ MaxExits \in Nat /\ MaxTimeouts \in Nat

VARIABLES
    up,       \* per worker: it is running
    stopping, \* the workers that shut down: they claim nothing more
    told,     \* tasks whose cancellation event a shutdown has set
    ptask,    \* per worker: its task for the parent run
    stage,    \* the parent's stage row for the child call
    ctask,    \* per executor: its task for the child run
    exits, timeouts

vars == <<subVars, up, stopping, told, ptask, stage, ctask, exits, timeouts>>

\* a worker executes the child for the parent's task, or because it claimed it
Executors == Workers \X {"inline", "claimed"}

ProcOf(e) == e[1]

Inline(w) == <<w, "inline">>

Claimed(w) == <<w, "claimed">>

\* the worker_id it executes under
WorkerIdOf(e) == IF e[2] = "inline" THEN NoWorker ELSE ProcOf(e)

NoResult == [status |-> "none", out |-> NoWorker]

NoTask == [pc |-> "idle", n |-> 0, seen |-> "none"]

IdleParent == [at |-> "idle", result |-> NoResult]

FailedRecord == [at |-> "record", result |-> [NoResult EXCEPT !.status = "FAILED"]]

\* the worker has a task for the run, which renews the lease
Attends(w, r) ==
    IF r = "child" THEN ctask[Claimed(w)].pc # "idle" ELSE r = "parent" /\ ptask[w].at # "idle"

LeaseOver(r) ==
    rows[r].worker # NoWorker /\ (Timely => ~Attends(rows[r].worker, r))

\* the cancellation event of a worker's parent task, or of a child's executor, is set
ParentTold(w) == <<w, "parent">> \in told

Told(e) == e \in told

\* variant: an expired lease is not looked at
ClaimableQueued(r) == Stored(r) /\ rows[r].status = "QUEUED"

\* claim_ready: a queued run, or one whose worker lost its lease
Claimable(r) ==
    /\ Stored(r)
    /\ \/ rows[r].status = "QUEUED"
       \/ rows[r].status \in Executing /\ LeaseOver(r)

ClaimedRow(r, w) ==
    [rows[r] EXCEPT !.status = "RUNNING", !.worker = w,
                    !.attempts = IF rows[r].status \in Executing /\ @ > 0 THEN @ - 1 ELSE @]

-----------------------------------------------------------------------------
(* The parent *)

ClientSubmits(c) ==
    /\ Submit(c, RequestOf[c])
    /\ UNCHANGED <<up, stopping, told, ptask, stage, ctask, exits, timeouts>>

ClaimParent(w) ==
    /\ up[w] /\ w \notin stopping /\ ptask[w].at = "idle"
    /\ Claimable("parent")
    /\ rows' = [rows EXCEPT !["parent"] = ClaimedRow("parent", w)]
    /\ ptask' = [ptask EXCEPT ![w].at = "stage"]
    /\ UNCHANGED <<convs, spc, up, stopping, told, stage, ctask, exits, timeouts>>

OwnsParent(w) == rows["parent"].worker = w /\ rows["parent"].status \in Executing

\* StageRunner.run_stage up to the operation: the event, a canceled run or stage and a
\* lost ownership end the task, a finished stage is restored, else the attempt begins
EnterStage(w) ==
    LET goesOn == OwnsParent(w) /\ ~ParentTold(w)
    IN  /\ ptask[w].at = "stage"
        /\ \/ /\ goesOn /\ stage.status = "SUCCEEDED"
              /\ ptask' = [ptask EXCEPT ![w].at = "ending"]
              /\ UNCHANGED stage
           \/ /\ goesOn /\ stage.status \in {"none", "RUNNING"}
              /\ ptask' = [ptask EXCEPT ![w].at = "submit"]
              /\ stage' = [status |-> "RUNNING", by |-> w, result |-> NoResult]
           \/ /\ ~goesOn \/ stage.status = "CANCELED"
              /\ ptask' = [ptask EXCEPT ![w] = IdleParent]
              /\ UNCHANGED stage
        /\ UNCHANGED <<subVars, up, stopping, told, ctask, exits, timeouts>>

\* no agent of the name, a disabled one, or an input its schema rejects: the result
\* is a failure without a child run
ChildRefused(w) ==
    /\ ptask[w].at = "submit" /\ spc[w].at = "idle"
    /\ ptask' = [ptask EXCEPT ![w] = FailedRecord]
    /\ UNCHANGED <<subVars, up, stopping, told, stage, ctask, exits, timeouts>>

ChildSubmitted(w) ==
    /\ ptask[w].at = "submit"
    /\ Submit(w, "child")
    /\ UNCHANGED <<up, stopping, told, ptask, stage, ctask, exits, timeouts>>

\* variant: only a failure is not taken for a success
ResultUnlessFailed(row) ==
    IF row.status \notin {"FAILED", "TIMEOUT", "CANCELED"}
    THEN [status |-> "SUCCEEDED", out |-> row.out]
    ELSE [status |-> IF row.status = "TIMEOUT" THEN "TIMEOUT" ELSE "FAILED", out |-> NoWorker]

\* how run_child_agent reads the run that run_now returned
ResultOf(row) ==
    IF row.status \in {"SUCCEEDED", "AGENT_SUCCEEDED"}
    THEN [status |-> "SUCCEEDED", out |-> row.out]
    ELSE [status |-> IF row.status = "TIMEOUT" THEN "TIMEOUT" ELSE "FAILED", out |-> NoWorker]

ToRecord(w, row) == [ptask EXCEPT ![w] = [at |-> "record", result |-> ResultOf(row)]]

\* run_now: a finished child is the result, any other one is executed here
RunNow(w) ==
    /\ ptask[w].at = "submit" /\ spc[w].at = "done"
    /\ IF rows["child"].status \in Terminal
       THEN ptask' = ToRecord(w, rows["child"]) /\ UNCHANGED ctask
       ELSE /\ ptask' = [ptask EXCEPT ![w].at = "await"]
            /\ ctask' = [ctask EXCEPT ![Inline(w)].pc = "admit"]
    /\ spc' = [spc EXCEPT ![w] = NotSubmitting]
    /\ UNCHANGED <<rows, convs, up, stopping, told, stage, exits, timeouts>>

\* the scheduler refuses the child (its depth, no coordination slot): run_now raises,
\* the result is a failure and the child's row is left as it is
RunNowRaises(w) ==
    /\ ptask[w].at = "await" /\ ctask[Inline(w)].pc = "admit"
    /\ ptask' = [ptask EXCEPT ![w] = FailedRecord]
    /\ ctask' = [ctask EXCEPT ![Inline(w)] = NoTask]
    /\ UNCHANGED <<subVars, up, stopping, told, stage, exits, timeouts>>

\* the stage's outcome: canceled with the run or by a shutdown's event, or recorded by
\* the current execution
RecordResult(w) ==
    LET canceled == rows["parent"].status = "CANCELED" \/ ParentTold(w)
        current  == stage.status = "RUNNING" /\ stage.by = w
    IN  /\ ptask[w].at = "record"
        /\ \/ /\ canceled
              /\ stage' = IF current THEN [stage EXCEPT !.status = "CANCELED"] ELSE stage
              /\ ptask' = [ptask EXCEPT ![w] = IdleParent]
           \/ /\ ~canceled /\ current
              /\ stage' = [stage EXCEPT !.status = "SUCCEEDED", !.result = ptask[w].result]
              /\ ptask' = [ptask EXCEPT ![w] = [IdleParent EXCEPT !.at = "ending"]]
           \/ /\ ~canceled /\ ~current
              /\ ptask' = [ptask EXCEPT ![w] = IdleParent]
              /\ UNCHANGED stage
        /\ UNCHANGED <<subVars, up, stopping, told, ctask, exits, timeouts>>

ParentEnds(w) ==
    /\ ptask[w].at = "ending"
    /\ rows' = IF OwnsParent(w)
               THEN [rows EXCEPT !["parent"].status = "SUCCEEDED", !["parent"].worker = NoWorker]
               ELSE rows
    /\ ptask' = [ptask EXCEPT ![w] = IdleParent]
    /\ UNCHANGED <<convs, spc, up, stopping, told, stage, ctask, exits, timeouts>>

\* RunCancelledError in what the agent does after the child call: nothing is written
ParentStops(w) ==
    /\ ptask[w].at = "ending" /\ ParentTold(w)
    /\ ptask' = [ptask EXCEPT ![w] = IdleParent]
    /\ UNCHANGED <<subVars, up, stopping, told, stage, ctask, exits, timeouts>>

\* RunManager.cancel
CanceledRow(r) ==
    IF rows[r].status \in Terminal THEN rows[r]
    ELSE [rows[r] EXCEPT !.status = "CANCELED", !.worker = NoWorker]

\* the API server knows no children of the run: its index is per process
CancelParent ==
    /\ Stored("parent") /\ rows["parent"].status \notin Terminal
    /\ rows' = [rows EXCEPT !["parent"] = CanceledRow("parent")]
    /\ UNCHANGED <<convs, spc, up, stopping, told, ptask, stage, ctask, exits, timeouts>>

\* CancelledError in run_now, wherever the child's execution is suspended: the
\* child is canceled and the error goes on
ChildInterrupted(w) ==
    /\ ptask[w].at = "await"
    /\ ctask[Inline(w)].pc \in {"admit", "agent", "backoff"}
    /\ rows' = [rows EXCEPT !["child"] = CanceledRow("child")]
    /\ ctask' = [ctask EXCEPT ![Inline(w)] = NoTask]

\* the parent's renewal matches no row
ParentRenewalStops(w) ==
    /\ ChildInterrupted(w)
    /\ ~OwnsParent(w)
    /\ ptask' = [ptask EXCEPT ![w] = IdleParent]
    /\ UNCHANGED <<convs, spc, up, stopping, told, stage, exits, timeouts>>

\* the parent's attempt times out and is retried
ParentTimesOut(w) ==
    /\ ChildInterrupted(w)
    /\ OwnsParent(w) /\ timeouts < MaxTimeouts
    /\ ptask' = [ptask EXCEPT ![w].at = "stage"]
    /\ timeouts' = timeouts + 1
    /\ UNCHANGED <<convs, spc, up, stopping, told, stage, exits>>

-----------------------------------------------------------------------------
(* The child's executor (RunExecutor), inline or claimed *)

ClaimChild(w) ==
    /\ up[w] /\ w \notin stopping /\ ctask[Claimed(w)].pc = "idle"
    /\ Claimable("child")
    /\ rows' = [rows EXCEPT !["child"] = ClaimedRow("child", w)]
    /\ ctask' = [ctask EXCEPT ![Claimed(w)].pc = "admit"]
    /\ UNCHANGED <<convs, spc, up, stopping, told, ptask, stage, exits, timeouts>>

\* execute returns the row as it is now (row), to the parent's task if it is inline
Returns(e, row) ==
    /\ ctask' = [ctask EXCEPT ![e] = NoTask]
    /\ ptask' = IF e = Inline(ProcOf(e)) THEN ToRecord(ProcOf(e), row) ELSE ptask

Goes(e, task) == ctask' = [ctask EXCEPT ![e] = task] /\ UNCHANGED ptask

ChildUnchanged == UNCHANGED <<convs, spc, up, stopping, told, stage, exits, timeouts>>

\* variant: the worker of the row is not compared
OwnedByAnyone(e, expected) == rows["child"].status \in expected

\* _update_owned
Owned(e, expected) ==
    rows["child"].status \in expected /\ rows["child"].worker = WorkerIdOf(e)

Execute(e) ==
    /\ ctask[e].pc = "admit"
    /\ IF rows["child"].attempts < MaxAttempts
       THEN Goes(e, [ctask[e] EXCEPT !.pc = "begin", !.n = rows["child"].attempts + 1])
       ELSE Returns(e, rows["child"])
    /\ ChildUnchanged /\ UNCHANGED rows

BeginAttempt(e) ==
    /\ ctask[e].pc = "begin"
    /\ IF rows["child"].status = "CANCELED" \/ Told(e)
       THEN Returns(e, rows["child"])
       ELSE Goes(e, [ctask[e] EXCEPT !.pc = "commit", !.seen = rows["child"].status])
    /\ ChildUnchanged /\ UNCHANGED rows

CommitAttempt(e) ==
    /\ ctask[e].pc = "commit"
    /\ \/ /\ Owned(e, {ctask[e].seen})
          /\ rows' = [rows EXCEPT !["child"].status = IF ctask[e].n = 1 THEN "RUNNING" ELSE "RETRYING",
                                  !["child"].attempts = ctask[e].n]
          /\ Goes(e, [ctask[e] EXCEPT !.pc = "agent", !.seen = "none"])
       \/ /\ ~Owned(e, {ctask[e].seen})
          /\ Returns(e, rows["child"])
          /\ UNCHANGED rows
    /\ ChildUnchanged

AgentSucceeds(e) ==
    /\ ctask[e].pc = "agent"
    /\ \/ /\ Owned(e, Executing)
          /\ rows' = [rows EXCEPT !["child"].status = "AGENT_SUCCEEDED", !["child"].out = ProcOf(e)]
          /\ Goes(e, [ctask[e] EXCEPT !.pc = "prepare"])
       \/ /\ ~Owned(e, Executing)
          /\ Returns(e, rows["child"])
          /\ UNCHANGED rows
    /\ ChildUnchanged

\* prepare_for_run without a callback, then the release of the lease
PrepareCallback(e) ==
    /\ ctask[e].pc = "prepare"
    /\ rows' = IF Owned(e, {"AGENT_SUCCEEDED"})
               THEN [rows EXCEPT !["child"].status = "SUCCEEDED", !["child"].worker = NoWorker]
               ELSE rows
    /\ Returns(e, rows'["child"])
    /\ ChildUnchanged

\* RunCancelledError: nothing is written
AgentStops(e) ==
    /\ ctask[e].pc = "agent" /\ Told(e)
    /\ Returns(e, rows["child"])
    /\ ChildUnchanged /\ UNCHANGED rows

\* an attempt fails: for good, or with another one to follow; before that one the row
\* says FAILED, TIMEOUT or RETRYING by the kind of the error, and keeps its worker
AgentFails(e) ==
    /\ ctask[e].pc = "agent"
    /\ \/ /\ Owned(e, Executing)
          /\ \/ /\ \E status \in {"FAILED", "TIMEOUT"} :
                      rows' = [rows EXCEPT !["child"].status = status, !["child"].worker = NoWorker]
                /\ Returns(e, rows'["child"])
             \/ /\ ctask[e].n < MaxAttempts
                /\ \E status \in {"FAILED", "TIMEOUT", "RETRYING"} :
                      rows' = [rows EXCEPT !["child"].status = status]
                /\ Goes(e, [ctask[e] EXCEPT !.pc = "backoff", !.n = @ + 1])
       \/ /\ ~Owned(e, Executing)
          /\ Returns(e, rows["child"])
          /\ UNCHANGED rows
    /\ ChildUnchanged

BackoffEnds(e) ==
    /\ ctask[e].pc = "backoff"
    /\ Goes(e, [ctask[e] EXCEPT !.pc = "begin"])
    /\ ChildUnchanged /\ UNCHANGED rows

\* the renewal of a claimed child matches no row
ChildRenewalStops(w) ==
    /\ ctask[Claimed(w)].pc \in {"admit", "agent", "backoff"}
    /\ ~Owned(Claimed(w), Executing)
    /\ Goes(Claimed(w), NoTask)
    /\ ChildUnchanged /\ UNCHANGED rows

ChildStep(e) ==
    \/ Execute(e) \/ BeginAttempt(e) \/ CommitAttempt(e) \/ AgentSucceeds(e)
    \/ PrepareCallback(e) \/ AgentStops(e) \/ AgentFails(e) \/ BackoffEnds(e)

-----------------------------------------------------------------------------
\* bound: one worker is away at a time
OthersUp(w) == \A u \in Workers \ {w} : up[u] /\ u \notin stopping

\* the process is gone, with its tasks
Exit(w) ==
    /\ up' = [up EXCEPT ![w] = FALSE]
    /\ stopping' = stopping \ {w}
    /\ told' = {t \in told : t[1] # w}
    /\ ptask' = [ptask EXCEPT ![w] = IdleParent]
    /\ ctask' = [ctask EXCEPT ![Inline(w)] = NoTask, ![Claimed(w)] = NoTask]
    /\ spc' = [spc EXCEPT ![w] = NotSubmitting]
    /\ UNCHANGED <<convs, stage, timeouts>>

Crash(w) ==
    /\ up[w] /\ w \notin stopping
    /\ OthersUp(w) /\ exits < MaxExits
    /\ Exit(w)
    /\ exits' = exits + 1
    /\ UNCHANGED rows

\* RunManager.shutdown sets the event of every run that is executed here: a task that
\* still waits for its admission has none
Shutdown(w) ==
    /\ up[w] /\ w \notin stopping
    /\ OthersUp(w) /\ exits < MaxExits
    /\ exits' = exits + 1
    /\ stopping' = stopping \cup {w}
    /\ \E parent \in SUBSET {<<w, "parent">>} :
          /\ ptask[w].at = "idle" => parent = {}
          /\ ptask[w].at \notin {"idle", "stage"} => parent # {}
          /\ told' = told \cup parent
                         \cup {e \in {Inline(w), Claimed(w)} : ctask[e].pc \notin {"idle", "admit"}}
    /\ UNCHANGED <<subVars, up, ptask, stage, ctask, timeouts>>

\* no task of w is between two awaits
Suspended(w) ==
    /\ ptask[w].at \in {"idle", "stage", "await", "ending"}
    /\ \A e \in {Inline(w), Claimed(w)} : ctask[e].pc \in {"idle", "admit", "agent", "backoff"}

\* ... and cancels, after the timeout, what has not ended: CancelledError reaches
\* run_child_agent, which cancels the child
ShutdownOver(w) ==
    /\ w \in stopping /\ Suspended(w)
    /\ rows' = IF ptask[w].at = "await" THEN [rows EXCEPT !["child"] = CanceledRow("child")] ELSE rows
    /\ Exit(w)
    /\ UNCHANGED exits

\* a worker that comes back has a new worker id; the old one's leases run out
Restart(w) ==
    /\ ~up[w]
    /\ \A r \in DOMAIN rows : rows[r].worker # w
    /\ up' = [up EXCEPT ![w] = TRUE]
    /\ UNCHANGED <<subVars, stopping, told, ptask, stage, ctask, exits, timeouts>>

Init ==
    /\ SubmitInit
    /\ stopping = {} /\ told = {}
    /\ up = [w \in Workers |-> TRUE]
    /\ ptask = [w \in Workers |-> IdleParent]
    /\ stage = [status |-> "none", by |-> NoWorker, result |-> NoResult]
    /\ ctask = [e \in Executors |-> NoTask]
    /\ exits = 0 /\ timeouts = 0

WorkerStep(w) ==
    \/ ClaimParent(w) \/ EnterStage(w) \/ ChildRefused(w) \/ ChildSubmitted(w)
    \/ RunNow(w) \/ RunNowRaises(w)
    \/ RecordResult(w) \/ ParentEnds(w) \/ ParentStops(w) \/ ParentRenewalStops(w)
    \/ ClaimChild(w) \/ ChildRenewalStops(w)
    \/ \E e \in {Inline(w), Claimed(w)} : ChildStep(e)

Next ==
    \/ \E c \in Clients : ClientSubmits(c)
    \/ \E w \in Workers : WorkerStep(w) \/ ParentTimesOut(w)
                          \/ Crash(w) \/ Shutdown(w) \/ ShutdownOver(w) \/ Restart(w)
    \/ CancelParent

Spec == Init /\ [][Next]_vars

\* event loops run, attempts end (wait_for), workers poll, end their shutdown and are
\* restarted
FairSpec ==
    /\ Spec
    /\ \A c \in Clients : WF_vars(ClientSubmits(c))
    /\ \A w \in Workers : WF_vars(WorkerStep(w)) /\ WF_vars(ShutdownOver(w)) /\ WF_vars(Restart(w))

-----------------------------------------------------------------------------
(* Properties *)

\* While leases are renewed in time, no two processes execute the child at once:
\* neither the parent's worker and a worker that polled the queue, nor the workers
\* of two executions of the parent (the inline execution has no worker id of its own).
OneExecutor ==
    Timely => \A d, e \in Executors : ctask[d].pc = "agent" /\ ctask[e].pc = "agent" => d = e

\* What the parent's stage recorded as the child's success is the child run's own
\* output, through crashes, timeouts, cancellation and a second execution of either,
\* while leases are renewed in time (a worker that lost the parent without noticing
\* may execute the child again).
SuccessIsChilds ==
    Timely /\ stage.status = "SUCCEEDED" /\ stage.result.status = "SUCCEEDED" =>
        /\ rows["child"].status \in {"AGENT_SUCCEEDED", "SUCCEEDED"}
        /\ rows["child"].out = stage.result.out

\* A stored parent comes to an end, after any crashes, timeouts, refusals and claims of
\* its child: no row that they leave behind keeps the next execution from going past it.
\* Only a graceful shutdown may leave its stage CANCELED, which no later execution passes.
ParentSettles ==
    Stored("parent") ~> \/ Stored("parent") /\ rows["parent"].status \in Terminal
                        \/ stage.status = "CANCELED"

-----------------------------------------------------------------------------
(* What the repository says of the program and the code does not do *)

\* docs/guides/deployment.md: after a graceful shutdown "a worker that disappears can
\* leave a lease that must expire before recovery": a run that is claimed again, behind
\* any exit of its worker, is taken to its end.
RecoveredParentSettles ==
    Stored("parent") ~> Stored("parent") /\ rows["parent"].status \in Terminal
=============================================================================
