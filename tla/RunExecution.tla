---------------------------- MODULE RunExecution ----------------------------
(***************************************************************************)
(* The life of ONE durable run that has no callback configured: its row in *)
(* ai_agent_run, the processes that execute it, and everything that may    *)
(* change the row: orchestration/manager.py (RunManager), run_executor.py  *)
(* (RunExecutor), worker.py (RunWorker), the run repository's conditional  *)
(* updates, and ToolGateway.call's WAITING_TOOL write.                     *)
(*                                                                         *)
(* Processes.  A "serve" process executes a run in-process, under no       *)
(* worker id and no lease; a worker process executes it under its own      *)
(* worker id, which it alone uses, and a lease it renews.  A process runs  *)
(* at most one background task for the run (_start_background).            *)
(*                                                                         *)
(* Atomicity.  A process is one asyncio event loop and its store calls are *)
(* synchronous, so between two awaits only OTHER processes interleave with *)
(* it.  Every store transaction is one step.  A read and the conditional   *)
(* update that follows it without an await are one step when the update    *)
(* matches what was read (reclaim, recover, cancel, tool call, release);   *)
(* BeginAttempt/CommitAttempt and RetryRead/RetryWrite are kept apart,     *)
(* because there another process's step in between changes the result.     *)
(*                                                                         *)
(* Time.  A lease is the number of ticks it has left: 0 is expired.  A     *)
(* snapshot of the row that a task holds ages together with the row.       *)
(***************************************************************************)
EXTENDS Integers, RunStatus

CONSTANTS
    Servers,      \* serve processes: HTTP API, in-process execution
    ApiOnly,      \* those of them started with --api-only
    Workers,      \* worker processes; a worker's id is the process itself
    NoWorker,     \* the NULL of the worker column
    MaxAttempts,  \* max(1, agent.retry_policy.max_attempts)
    LeaseTicks,   \* lease_seconds, in ticks
    Requests,     \* the operator requests the instance exercises
    Staged,       \* TRUE: the agent uses durable stages (see StageLedger)
    Timely,       \* TRUE: a live worker always renews before its lease runs out
    MaxOutages    \* bound: how many process exits (crash or shutdown) happen

ASSUME ProcessAssumption ==
    /\ ApiOnly \subseteq Servers
    /\ Servers \cap Workers = {}
    /\ NoWorker \notin Workers \cup Servers

ASSUME BoundAssumption ==
    /\ MaxAttempts \in Nat \ {0}
    /\ LeaseTicks \in Nat \ {0}
    /\ MaxOutages \in Nat
    /\ Timely \in BOOLEAN /\ Staged \in BOOLEAN
    /\ Requests \subseteq {"cancel", "retry", "resend"}

VARIABLES
    run,       \* the durable row
    task,      \* per process: its background task for the run (volatile)
    mode,      \* per process: up, draining (graceful shutdown) or down
    retrying,  \* servers between the read and the write of retry()
    outages    \* process exits so far

vars == <<run, task, mode, retrying, outages>>

Procs == Servers \cup Workers

NoLease == -1

Leases == {NoLease} \cup 0..LeaseTicks

Rows == [status: RunStatuses, worker: Workers \cup {NoWorker}, lease: Leases,
         attempts: 0..MaxAttempts, error: ErrorTypes \cup {NoError}]

QueuedRow == [status |-> "QUEUED", worker |-> NoWorker, lease |-> NoLease,
              attempts |-> 0, error |-> NoError]

(***************************************************************************)
(* A task's pc names the point run_now/execute has reached.                *)
(*   start    created, run_now has not read the row                        *)
(*   admit    waiting for the scheduler's slots                            *)
(*   begin    top of the attempt loop          commit   row read, CAS next *)
(*   agent    inside runtime.run               backoff  sleeping           *)
(*   prepare  AGENT_SUCCEEDED written, prepare_for_run next                *)
(*   final    attempts over, finish_time write next                        *)
(*   release  _mark_queue_completed / _mark_queue_dead next                *)
(***************************************************************************)
PCs == {"idle", "start", "admit", "begin", "commit", "agent", "backoff",
        "prepare", "final", "release"}

\* pcs at which the task is suspended in an await
Suspended == {"start", "admit", "agent", "backoff"}

\* pcs at which execute() has registered its cancellation event
Registered == PCs \ {"idle", "start", "admit"}

Tasks == [pc: PCs, n: 0..MaxAttempts, seen: RunStatuses, snap: Rows, event: BOOLEAN]

IdleTask == [pc |-> "idle", n |-> 0, seen |-> "QUEUED", snap |-> QueuedRow,
             event |-> FALSE]

StartTask == [IdleTask EXCEPT !.pc = "start"]

TypeOK ==
    /\ run \in Rows
    /\ task \in [Procs -> Tasks]
    /\ mode \in [Procs -> {"up", "draining", "down"}]
    /\ retrying \subseteq Servers
    /\ outages \in 0..MaxOutages

\* the worker_id a process executes under
WorkerId(p) == IF p \in Workers THEN p ELSE NoWorker

\* _update_owned: the row is in an expected status and still owned by p
Owned(p, expected) == run.status \in expected /\ run.worker = WorkerId(p)

\* A field of the task that is not read again is put back to its idle value.
Goto(p, pc) == task' = [task EXCEPT ![p] = [@ EXCEPT !.pc = pc, !.snap = QueuedRow]]

GotoWith(p, pc, snap) ==
    task' = [task EXCEPT ![p] = [@ EXCEPT !.pc = pc, !.snap = snap, !.seen = "QUEUED"]]

Finish(p) == task' = [task EXCEPT ![p] = IdleTask]

Live(p) == mode[p] # "down"

\* p's event loop is not inside retry(), and its task is at pc
At(p, pc) == Live(p) /\ p \notin retrying /\ task[p].pc = pc

\* p's event loop is free to serve a request: its task is suspended or absent
Free(p) == mode[p] = "up" /\ p \notin retrying /\ task[p].pc \in Suspended \cup {"idle"}

Expired(row) == row.lease = 0

\* variant: the attempt is un-counted without looking whether one was counted
UncountedBlindly(row) == row.attempts - 1

Uncounted(row) == IF row.attempts > 0 THEN row.attempts - 1 ELSE row.attempts

(***************************************************************************)
(* Submission: the row is inserted QUEUED; a serve process that is not     *)
(* api-only starts it in the background, start=False or a worker           *)
(* deployment leaves it queued.                                            *)
(***************************************************************************)
Init ==
    /\ run = QueuedRow
    /\ task \in {[p \in Procs |-> IF p \in S THEN StartTask ELSE IdleTask] :
                    S \in {{}} \cup {{s} : s \in Servers \ ApiOnly}}
    /\ mode = [p \in Procs |-> "up"]
    /\ retrying = {}
    /\ outages = 0

-----------------------------------------------------------------------------
(* RunWorker's polling loop and the lease *)

\* variant: only queued rows can be claimed
ClaimableQueued == run.status = "QUEUED"

\* variant: RETRYING is left out of the statuses that an expired lease opens
ClaimableAttempts == \/ run.status = "QUEUED"
                     \/ run.status \in Executing \ {"RETRYING"} /\ Expired(run)

\* RunManager.dispatch_ready + RunRepository.claim_ready
Claimable == \/ run.status = "QUEUED"
             \/ run.status \in Executing /\ Expired(run)

\* variant: a run that this process is still executing is claimed all the same
DispatchRunning(w) ==
    /\ mode[w] = "up" /\ Claimable
    /\ run' = [run EXCEPT !.status = "RUNNING", !.worker = w, !.lease = LeaseTicks,
                          !.attempts = IF run.status \in Executing THEN Uncounted(run)
                                                                   ELSE @]
    /\ task' = IF task[w].pc = "idle" THEN [task EXCEPT ![w] = StartTask] ELSE task
    /\ UNCHANGED <<mode, retrying, outages>>

DispatchReady(w) ==
    /\ mode[w] = "up" /\ task[w].pc = "idle"
    /\ Claimable
    /\ run' = [run EXCEPT !.status = "RUNNING", !.worker = w, !.lease = LeaseTicks,
                          !.attempts = IF run.status \in Executing THEN Uncounted(run)
                                                                   ELSE @]
    /\ task' = [task EXCEPT ![w] = StartTask]
    /\ UNCHANGED <<mode, retrying, outages>>

\* variant: the interrupted attempt stays counted
ReclaimCounted(w) ==
    /\ mode[w] = "up" /\ task[w].pc = "idle"
    /\ run.status \in Executing /\ Expired(run)
    /\ run' = [run EXCEPT !.status = "QUEUED", !.worker = NoWorker, !.lease = NoLease]
    /\ UNCHANGED <<task, mode, retrying, outages>>

\* RunManager.reclaim_expired_leases
ReclaimExpiredLease(w) ==
    /\ mode[w] = "up" /\ task[w].pc = "idle"
    /\ run.status \in Executing /\ Expired(run)
    /\ run' = [run EXCEPT !.status = "QUEUED", !.worker = NoWorker, !.lease = NoLease,
                          !.attempts = Uncounted(run)]
    /\ UNCHANGED <<task, mode, retrying, outages>>

\* _renew_queue_lease_until_done, renew_lease matched the row
RenewLease(w) ==
    /\ Live(w) /\ task[w].pc \in Suspended
    /\ Owned(w, Executing)
    /\ run.lease # LeaseTicks
    /\ run' = [run EXCEPT !.lease = LeaseTicks]
    /\ UNCHANGED <<task, mode, retrying, outages>>

\* _renew_queue_lease_until_done, renew_lease matched nothing: the execution
\* task is cancelled, which no handler of the executor catches
RenewalStops(w) ==
    /\ Live(w) /\ task[w].pc \in Suspended
    /\ ~Owned(w, Executing)
    /\ Finish(w)
    /\ UNCHANGED <<run, mode, retrying, outages>>

-----------------------------------------------------------------------------
(* RunManager.run_now and RunExecutor.execute *)

RunNow(p) ==
    /\ At(p, "start")
    /\ IF run.status \in Terminal THEN Finish(p) ELSE Goto(p, "admit")
    /\ UNCHANGED <<run, mode, retrying, outages>>

Execute(p) ==
    /\ At(p, "admit")
    /\ task' = [task EXCEPT ![p] =
                  IF run.attempts < MaxAttempts
                  THEN [@ EXCEPT !.pc = "begin", !.n = run.attempts + 1]
                  ELSE [@ EXCEPT !.pc = "final", !.snap = run]]
    /\ UNCHANGED <<run, mode, retrying, outages>>

\* top of the loop: re-read the row, give up if the run is canceled
BeginAttempt(p) ==
    /\ At(p, "begin")
    /\ IF run.status = "CANCELED" \/ task[p].event
       THEN Finish(p)
       ELSE task' = [task EXCEPT ![p] =
              [@ EXCEPT !.pc = "commit", !.seen = run.status,
                        !.snap = [run EXCEPT
                            !.status = IF task[p].n = 1 THEN "RUNNING" ELSE "RETRYING",
                            !.attempts = task[p].n]]]
    /\ UNCHANGED <<run, mode, retrying, outages>>

\* the attempt is recorded only if the row is as it was read and still owned
CommitAttempt(p) ==
    /\ At(p, "commit")
    /\ IF Owned(p, {task[p].seen})
       THEN run' = task[p].snap /\ GotoWith(p, "agent", task[p].snap)
       ELSE Finish(p) /\ UNCHANGED run
    /\ UNCHANGED <<mode, retrying, outages>>

\* variant: the owner is not compared
ToolCallUnmatched(p) ==
    /\ At(p, "agent")
    /\ run' = [run EXCEPT !.status = "WAITING_TOOL"]
    /\ UNCHANGED <<task, mode, retrying, outages>>

\* ToolGateway.call marks the run WAITING_TOOL under whatever status it just
\* read and the worker of the attempt's snapshot (context.worker_id); a row
\* with another owner raises RunCancelledError
ToolCall(p) ==
    /\ At(p, "agent")
    /\ IF run.worker = task[p].snap.worker
       THEN run' = [run EXCEPT !.status = "WAITING_TOOL"] /\ UNCHANGED task
       ELSE Finish(p) /\ UNCHANGED run
    /\ UNCHANGED <<mode, retrying, outages>>

\* RunCancelledError out of the agent: the cancellation signal is set, the row
\* is CANCELED, the row has another owner, or a stage of the run was left
\* CANCELED.  The executor returns and leaves the row as it is
AgentStops(p) ==
    /\ At(p, "agent")
    /\ \/ task[p].event
       \/ run.status = "CANCELED"
       \/ run.worker # task[p].snap.worker
       \/ Staged
    /\ Finish(p)
    /\ UNCHANGED <<run, mode, retrying, outages>>

\* the output is written to the row as it is now
AgentSucceeds(p) ==
    /\ At(p, "agent")
    /\ IF Owned(p, Executing)
       THEN /\ run' = [run EXCEPT !.status = "AGENT_SUCCEEDED", !.error = NoError]
            /\ GotoWith(p, "prepare", run')
       ELSE Finish(p) /\ UNCHANGED run
    /\ UNCHANGED <<mode, retrying, outages>>

\* CallbackService.prepare_for_run without a callback: _skip_callback settles
\* the run; whether or not that matched the row, the lease is released next
PrepareCallback(p) ==
    /\ At(p, "prepare")
    /\ IF run.status = "AGENT_SUCCEEDED" /\ run.worker = task[p].snap.worker
       THEN run' = [task[p].snap EXCEPT !.status = "SUCCEEDED"]
       ELSE UNCHANGED run
    /\ Goto(p, "release")
    /\ UNCHANGED <<mode, retrying, outages>>

\* what the except clauses make of an exception in attempt n
Classified(n) ==
    { [status |-> "FAILED",  error |-> "OUTCOME_UNKNOWN"],  \* side effect
      [status |-> "TIMEOUT", error |-> "TRANSIENT"],        \* TimeoutError
      [status |-> "FAILED",  error |-> "PERMANENT"],        \* schema, not found
      [status |-> "FAILED",  error |-> "TRANSIENT"],        \* registry, permission
      [status |-> IF n < MaxAttempts THEN "RETRYING" ELSE "FAILED",
       error  |-> "TRANSIENT"] }                            \* tool, anything else

\* the whole snapshot taken when the attempt began is written back
AgentFails(p) ==
    /\ At(p, "agent")
    /\ \E c \in Classified(task[p].n) :
         LET failed == [task[p].snap EXCEPT !.status = c.status, !.error = c.error]
         IN  IF Owned(p, Executing)
             THEN /\ run' = failed
                  /\ IF IsRetryable(c.error) /\ task[p].n < MaxAttempts
                     THEN Goto(p, "backoff") ELSE GotoWith(p, "final", failed)
             ELSE Finish(p) /\ UNCHANGED run
    /\ UNCHANGED <<mode, retrying, outages>>

\* a registered error handler supplied a result: _finalize_run_with_result
\* (side effects of unknown outcome are never handled this way)
ErrorHandled(p) ==
    /\ At(p, "agent")
    /\ IF Owned(p, Executing)
       THEN /\ run' = [task[p].snap EXCEPT !.status = "SUCCEEDED", !.error = NoError]
            /\ Goto(p, "release")
       ELSE Finish(p) /\ UNCHANGED run
    /\ UNCHANGED <<mode, retrying, outages>>

BackoffOver(p) ==
    /\ At(p, "backoff")
    /\ task' = [task EXCEPT ![p] = [@ EXCEPT !.pc = "begin", !.n = task[p].n + 1]]
    /\ UNCHANGED <<run, mode, retrying, outages>>

\* variant: the owner is not compared
FinalWriteUnmatched(p) ==
    /\ At(p, "final")
    /\ IF run.status = task[p].snap.status
       THEN run' = task[p].snap /\ Goto(p, "release")
       ELSE Finish(p) /\ UNCHANGED run
    /\ UNCHANGED <<mode, retrying, outages>>

FinalWrite(p) ==
    /\ At(p, "final")
    /\ IF Owned(p, {task[p].snap.status})
       THEN run' = task[p].snap /\ Goto(p, "release")
       ELSE Finish(p) /\ UNCHANGED run
    /\ UNCHANGED <<mode, retrying, outages>>

\* _mark_queue_completed and _mark_queue_dead
ReleaseQueue(p) ==
    /\ At(p, "release")
    /\ run' = IF run.worker = WorkerId(p)
              THEN [run EXCEPT !.worker = NoWorker, !.lease = NoLease] ELSE run
    /\ Finish(p)
    /\ UNCHANGED <<mode, retrying, outages>>

\* an exception outside the executor's try: route or agent not resolvable,
\* scheduler refusal, a raising hook.  _run_background records it
InternalError(p) ==
    /\ At(p, "start") \/ At(p, "admit") \/ At(p, "agent")
    /\ run' = IF Owned(p, Executing \cup {"QUEUED"})
              THEN [run EXCEPT !.status = "FAILED", !.error = "TRANSIENT"] ELSE run
    /\ Finish(p)
    /\ UNCHANGED <<mode, retrying, outages>>

\* after the outcome is recorded, a raising hook or store call ends the task
\* with the row as it is: no handler writes to a row that is not executing
SettleFails(p) ==
    /\ At(p, "prepare") \/ At(p, "release")
    /\ Finish(p)
    /\ UNCHANGED <<run, mode, retrying, outages>>

-----------------------------------------------------------------------------
(* The operator's requests, served by any serve process *)

\* RunManager.cancel; the event reaches only an execution of the same process
Cancel(s) ==
    /\ Free(s) /\ "cancel" \in Requests
    /\ run.status \notin Terminal
    /\ run' = [run EXCEPT !.status = "CANCELED", !.worker = NoWorker, !.lease = NoLease]
    /\ task' = [task EXCEPT ![s].event = @ \/ task[s].pc \in Registered]
    /\ UNCHANGED <<mode, retrying, outages>>

\* RunManager.retry reads the row ...
RetryRead(s) ==
    /\ Free(s) /\ "retry" \in Requests
    /\ run.status \in {"FAILED", "TIMEOUT", "WAITING_CALLBACK"}
    /\ run.error # "OUTCOME_UNKNOWN"
    /\ retrying' = retrying \cup {s}
    /\ UNCHANGED <<run, task, mode, outages>>

\* variant: the attempts of the failed execution stay counted
RetryWriteCounted(s) ==
    /\ s \in retrying
    /\ run' = [QueuedRow EXCEPT !.attempts = run.attempts]
    /\ task' = IF task[s].pc = "idle" THEN [task EXCEPT ![s] = StartTask] ELSE task
    /\ retrying' = retrying \ {s}
    /\ UNCHANGED <<mode, outages>>

\* ... and overwrites it unconditionally, then starts it in this process
RetryWrite(s) ==
    /\ s \in retrying
    /\ run' = QueuedRow
    /\ task' = IF task[s].pc = "idle" THEN [task EXCEPT ![s] = StartTask] ELSE task
    /\ retrying' = retrying \ {s}
    /\ UNCHANGED <<mode, outages>>

\* RunManager.resend_callback of a run without a callback only settles it
ResendCallback(s) ==
    /\ Free(s) /\ "resend" \in Requests
    /\ run.status \in {"AGENT_SUCCEEDED", "WAITING_CALLBACK"}
    /\ run' = [run EXCEPT !.status = "SUCCEEDED"]
    /\ UNCHANGED <<task, mode, retrying, outages>>

-----------------------------------------------------------------------------
(* Process exits and starts, and time *)

Exit(p) ==
    /\ task' = [task EXCEPT ![p] = IdleTask]
    /\ mode' = [mode EXCEPT ![p] = "down"]
    /\ retrying' = retrying \ {p}

Crash(p) ==
    /\ mode[p] = "up" /\ outages < MaxOutages
    /\ outages' = outages + 1
    /\ Exit(p)
    /\ UNCHANGED run

\* RunManager.shutdown: set every cancellation event, wait, cancel what is left
Shutdown(p) ==
    /\ Free(p) /\ outages < MaxOutages
    /\ outages' = outages + 1
    /\ mode' = [mode EXCEPT ![p] = "draining"]
    /\ task' = [task EXCEPT ![p].event = task[p].pc \in Registered]
    /\ UNCHANGED <<run, retrying>>

ShutdownOver(p) ==
    /\ mode[p] = "draining"
    /\ Exit(p)
    /\ UNCHANGED <<run, outages>>

\* create_app's lifespan: a serve process that may execute recovers first
Recoverable ==
    /\ run.status \in {"CREATED", "QUEUED"} \cup Executing
    /\ ~(run.worker # NoWorker /\ run.lease > 0)

\* variant: recovery keeps the interrupted attempt counted
RestartCounted(p) ==
    /\ mode[p] = "down"
    /\ mode' = [mode EXCEPT ![p] = "up"]
    /\ \/ /\ p \in Servers \ ApiOnly /\ Recoverable
          /\ run' = [run EXCEPT !.status = "QUEUED", !.worker = NoWorker, !.lease = NoLease]
          /\ task' = [task EXCEPT ![p] = StartTask]
       \/ UNCHANGED <<run, task>>
    /\ UNCHANGED <<retrying, outages>>

\* recover_incomplete requeues the run and starts it; a route that does not
\* resolve skips it
Restart(p) ==
    /\ mode[p] = "down"
    /\ mode' = [mode EXCEPT ![p] = "up"]
    /\ \/ /\ p \in Servers \ ApiOnly /\ Recoverable
          /\ run' = [run EXCEPT !.status = "QUEUED", !.worker = NoWorker, !.lease = NoLease,
                                !.attempts = IF run.status \in Executing
                                             THEN Uncounted(run) ELSE @]
          /\ task' = [task EXCEPT ![p] = StartTask]
       \/ UNCHANGED <<run, task>>
    /\ UNCHANGED <<retrying, outages>>

Elapse(lease) == IF lease > 0 THEN lease - 1 ELSE lease

\* time passes for the row and for every snapshot of it
Tick ==
    /\ Timely => ~\E w \in Workers : /\ task[w].pc # "idle"
                                     /\ Owned(w, Executing)
                                     /\ run.lease = 1
    /\ run' = [run EXCEPT !.lease = Elapse(@)]
    /\ task' = [p \in Procs |-> [task[p] EXCEPT !.snap.lease = Elapse(@)]]
    /\ UNCHANGED <<mode, retrying, outages>>

-----------------------------------------------------------------------------
WorkerStep(w) ==
    \/ DispatchReady(w) \/ ReclaimExpiredLease(w)
    \/ RenewLease(w)    \/ RenewalStops(w)

\* the agent's part: it calls tools and ends in one way or another
AgentStep(p) ==
    \/ ToolCall(p)   \/ AgentStops(p) \/ AgentSucceeds(p)
    \/ AgentFails(p) \/ ErrorHandled(p)

AgentReturns(p) == AgentStops(p) \/ AgentSucceeds(p) \/ AgentFails(p) \/ ErrorHandled(p)

\* the steps between awaits, which nothing in the process can delay
ExecutorStep(p) ==
    \/ RunNow(p)          \/ Execute(p)     \/ BeginAttempt(p) \/ CommitAttempt(p)
    \/ PrepareCallback(p) \/ BackoffOver(p) \/ FinalWrite(p)   \/ ReleaseQueue(p)

OperatorStep(s) == Cancel(s) \/ RetryRead(s) \/ RetryWrite(s) \/ ResendCallback(s)

ProcessStep(p) == Crash(p) \/ Shutdown(p) \/ ShutdownOver(p) \/ Restart(p)

Next ==
    \/ \E w \in Workers : WorkerStep(w)
    \/ \E p \in Procs   : AgentStep(p) \/ ExecutorStep(p) \/ ProcessStep(p)
                           \/ InternalError(p) \/ SettleFails(p)
    \/ \E s \in Servers : OperatorStep(s)
    \/ Tick

Spec == Init /\ [][Next]_vars

(***************************************************************************)
(* Fairness for liveness: an event loop that runs takes its synchronous    *)
(* steps and its sleeps end; asyncio.wait_for ends every attempt; the      *)
(* worker loop polls for ever; a supervisor restarts a process that went   *)
(* down; time passes.  Nothing is assumed of operators or of outages.      *)
(***************************************************************************)
Fairness ==
    /\ \A p \in Procs : /\ WF_vars(ExecutorStep(p))
                        /\ WF_vars(AgentReturns(p))
                        /\ WF_vars(ShutdownOver(p))
                        /\ WF_vars(Restart(p))
    /\ \A w \in Workers : WF_vars(DispatchReady(w))
    /\ WF_vars(Tick)

FairSpec == Spec /\ Fairness

-----------------------------------------------------------------------------
(* Properties that hold *)

\* A run that waits in the queue has an attempt left, whatever sequence of
\* claims, lease losses, recoveries and retries put it there.  Otherwise the
\* executor's loop over range(attempts + 1, max + 1) is empty and the run is
\* left RUNNING without a lease, which no worker ever claims.
QueuedHasBudget == run.status = "QUEUED" => run.attempts < MaxAttempts

\* While a worker owns an executing row, the attempt number in the row is the
\* one the worker is executing: no claim, reclaim or recovery, by itself or by
\* another process, has un-counted the attempt behind its back.
OwnerRunsRecordedAttempt ==
    \A w \in Workers :
        Owned(w, Executing) /\ task[w].pc = "agent" => run.attempts = task[w].n

\* A row in an executing status that names a worker carries a lease, so that
\* claim_ready and reclaim_expired_leases can take it from a dead worker.
WorkerRowsAreReclaimable ==
    run.status \in Executing /\ run.worker # NoWorker => run.lease # NoLease

\* A settled run stays settled: no late result, tool call, renewal, claim,
\* reclaim or recovery moves a row out of SUCCEEDED or CANCELED, which
\* docs/concepts/task-and-run.md:40 lists among the "terminal statuses".  It
\* holds when workers alone execute (Servers = ApiOnly, no operator retry); an
\* in-process execution breaks it.
SettledIsFinal ==
    [][run.status \in {"SUCCEEDED", "CANCELED"} => run'.status = run.status]_vars

\* what a status means to the run's life cycle
Phase(status) ==
    CASE status \in {"CREATED", "QUEUED"} -> "queued"
      [] status \in Executing -> "executing"
      [] status \in {"AGENT_SUCCEEDED", "WAITING_CALLBACK"} -> "answered"
      [] status = "SUCCEEDED" -> "succeeded"
      [] status \in {"FAILED", "TIMEOUT"} -> "failed"
      [] status = "CANCELED" -> "canceled"

Lifecycle == INSTANCE RunLifecycle
             WITH Owners <- Workers, Nobody <- NoWorker,
                  phase <- Phase(run.status), owner <- run.worker

\* The executor, the workers' loops, the leases and the conditional updates implement
\* the life cycle of docs/concepts/task-and-run.md when workers alone execute: only the
\* current owner moves a run on, a failure is left again only by the owner that wrote
\* it, and an owner lets go only of a run that is over.
FollowsLifecycle == Lifecycle!Spec

\* the failure on record leaves an attempt to be made
Unfinished == /\ run.status \in {"FAILED", "TIMEOUT"}
              /\ IsRetryable(run.error) /\ run.attempts < MaxAttempts

\* no serve process has a task for the run
WorkersAlone == \A s \in Servers : task[s].pc = "idle"

\* A run that workers alone execute reaches an outcome and keeps it, through any
\* outage and any cancellation: it is not left queued, executing or between attempts.
\* A failure is an outcome only when the budget is used up or the error is not
\* retryable, or when the row still names the worker that left it so: that one met
\* an error outside the attempts (InternalError), or was lost in the backoff, which
\* RetriesAreMade is about.  AGENT_SUCCEEDED counts: see SettlesForGood.
ReachesOutcome ==
    []WorkersAlone => <>[](/\ run.status \in Terminal \cup {"AGENT_SUCCEEDED"}
                           /\ Unfinished => run.worker # NoWorker)

\* the row says that a worker executes the run, and that worker has no task for it
Orphaned == run.status \in Executing /\ run.worker # NoWorker /\ task[run.worker].pc = "idle"

\* A run whose worker was lost in an attempt, or in the backoff behind RETRYING, is
\* executed again, by a worker or by a server that recovered it, however often that
\* happens and whatever operators and in-process executions do meanwhile, unless it is
\* canceled or cannot be started (FAILED): the claim finds it by its lease in every
\* executing status, has an attempt left for it, and the loop gets to the agent.
LostRunIsExecutedAgain ==
    Orphaned ~> \/ \E p \in Procs : task[p].pc = "agent" /\ Owned(p, Executing)
                \/ run.status \in {"FAILED", "CANCELED"}

-----------------------------------------------------------------------------
(* What the repository says of the program and the code does not do *)

\* CHANGELOG.md: "Recovery preserves live leases"; TECHNICAL_REPORT.md: "Workers
\* renew leases while executing claimed work": a worker that is executing the
\* run and renews in time does not lose the run to another worker.
LiveOwnerKeepsRun ==
    [][\A w \in Workers :
         Owned(w, Executing) /\ task[w].pc \in {"agent", "backoff"}
         => run'.worker \in {w, NoWorker}]_vars

\* TECHNICAL_REPORT.md: "Startup recovery also requeues incomplete Runs and
\* compensates callback delivery": every run ends in a terminal status.
SettlesForGood == <>[](run.status \in Terminal)

\* TECHNICAL_REPORT.md: "An expired lease allows another worker to reclaim a Run": a
\* run that waits for its next attempt behind FAILED or TIMEOUT gets it, although its
\* worker may be lost, unless it is canceled.
RetriesAreMade ==
    (Unfinished /\ \E w \in Workers : task[w].pc = "backoff")
        ~> (run.status \in Executing \cup {"CANCELED"})
=============================================================================
