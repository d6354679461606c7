--------------------------- MODULE CallbackDelivery ---------------------------
(***************************************************************************)
(* The callback of ONE run that asks for one:                              *)
(* orchestration/callback_service.py (CallbackService), the claims of      *)
(* infra/store/repository/callback.py, and the callers in run_executor.py, *)
(* manager.py, worker.py and http/server.py.                               *)
(*                                                                         *)
(* A task is one coroutine of some process that handles the run: it ends   *)
(* an execution (record the outcome, prepare the callback, release the     *)
(* queue), dispatches a delivery it claimed, or serves an operator's       *)
(* resend.  It keeps copies of the run's and the delivery's row and writes *)
(* whole copies back: a run's copy if the status is still the one it read, *)
(* a delivery's copy unconditionally.  Every transaction is one step; what *)
(* happens between two awaits without touching a row joins the next step.  *)
(*                                                                         *)
(* What is abstracted: the execution itself (RunExecution); QUEUED stands  *)
(* for every status before the outcome, FAILED for FAILED and TIMEOUT; a   *)
(* payload is the number of the execution it reports; run_after only       *)
(* delays a claim, so a claim may simply happen late.  error_type is set   *)
(* exactly in FAILED, so a WAITING_CALLBACK run settles as SUCCEEDED.      *)
(***************************************************************************)
EXTENDS Integers

CONSTANTS
    Tasks,         \* coroutines that handle the run
    NoWorker,      \* the NULL of the run's worker column
    MaxAttempts,   \* callback.max_attempts
    LeaseTicks,    \* lease_seconds, in ticks
    Requested,     \* run.callback.events
    Requests,      \* the operator requests the instance exercises
    MaxOutcomes,   \* bound: executions of the run
    MaxEvents,     \* bound: callback event ids drawn
    MaxLosses      \* bound: tasks lost with their process

ASSUME TaskAssumption == NoWorker \notin Tasks

ASSUME BoundAssumption ==
    /\ MaxAttempts \in Nat \ {0} /\ LeaseTicks \in Nat \ {0}
    /\ MaxOutcomes \in Nat \ {0} /\ MaxEvents \in Nat \ {0} /\ MaxLosses \in Nat
    /\ Requested \subseteq {"succeeded", "failed", "canceled"}
    /\ Requests \subseteq {"retry", "cancel", "resend"}

VARIABLES
    run,     \* the run's row
    rows,    \* event id -> the delivery's row
    task,    \* per task: where it is and the copies it holds (volatile)
    acked,   \* the payloads whose receipt the consumer acknowledged
    losses   \* tasks lost so far

vars == <<run, rows, task, acked, losses>>

NoLease == -1

NoEvent == 0

Statuses == {"QUEUED", "AGENT_SUCCEEDED", "WAITING_CALLBACK", "SUCCEEDED", "FAILED", "CANCELED"}

\* outcome: the execution whose result the row holds; dead: dead_letter_reason
Runs == [status: Statuses, callback: {"PENDING", "DELIVERED", "FAILED", "SKIPPED"},
         outcome: 0..MaxOutcomes, event: 0..MaxEvents, dead: BOOLEAN,
         worker: Tasks \cup {NoWorker}]

NewRun == [status |-> "QUEUED", callback |-> "PENDING", outcome |-> 0, event |-> NoEvent,
           dead |-> FALSE, worker |-> NoWorker]

\* worker and lease_expire_time of a delivery are set and cleared together, and
\* the worker is never compared: the lease stands for both
Deliveries == [status: {"ABSENT", "PENDING", "DELIVERED", "FAILED"}, attempts: 0..MaxAttempts,
               lease: {NoLease} \cup 0..LeaseTicks, payload: 0..MaxOutcomes]

Absent == [status |-> "ABSENT", attempts |-> 0, lease |-> NoLease, payload |-> 0]

(***************************************************************************)
(* prepare   prepare_for_run next        save     its transaction next     *)
(* release   _mark_queue_* next          dispatch dispatch_delivery next   *)
(* sent      waiting for the response    told     DELIVERED is written,    *)
(*                                                log and hook next        *)
(* sleep     backing off                 exhausted run update next         *)
(* settle    delivery save next                                            *)
(***************************************************************************)
PCs == {"idle", "prepare", "save", "release", "dispatch", "sent", "told", "sleep", "exhausted",
        "settle"}

Dispatching == {"dispatch", "sent", "told", "sleep", "exhausted", "settle"}

TaskStates == [pc: PCs, resend: BOOLEAN, run: Runs, event: 0..MaxEvents, row: Deliveries]

IdleTask == [pc |-> "idle", resend |-> FALSE, run |-> NewRun, event |-> NoEvent, row |-> Absent]

TypeOK ==
    /\ run \in Runs
    /\ rows \in [1..MaxEvents -> Deliveries]
    /\ task \in [Tasks -> TaskStates]
    /\ acked \subseteq 0..MaxOutcomes
    /\ losses \in 0..MaxLosses

Init ==
    /\ run = NewRun
    /\ rows = [e \in 1..MaxEvents |-> Absent]
    /\ task = [t \in Tasks |-> IdleTask]
    /\ acked = {}
    /\ losses = 0

Idle(t) == task' = [task EXCEPT ![t] = IdleTask]

\* copies that are not read again are put back to their idle value
GotoRelease(t) == task' = [task EXCEPT ![t] = [IdleTask EXCEPT !.pc = "release", !.run = task[t].run]]

GotoDispatch(t, e, row) ==
    task' = [task EXCEPT ![t] = [IdleTask EXCEPT !.pc = "dispatch", !.event = e, !.row = row]]

\* variant: a delivered callback means success
SettledBlindly(r) == "SUCCEEDED"

\* CallbackService._settled_status
SettledStatus(r) ==
    IF r.status \in {"AGENT_SUCCEEDED", "WAITING_CALLBACK"} THEN "SUCCEEDED" ELSE r.status

\* CallbackService._run_event
RunEvent(r) ==
    CASE r.status = "FAILED"   -> "failed"
      [] r.status = "CANCELED" -> "canceled"
      [] r.status = "QUEUED"   -> "unknown"
      [] OTHER                 -> "succeeded"

-----------------------------------------------------------------------------
(* The end of an execution *)

\* RunExecutor records the result (agent's, error handler's or none), under the
\* worker that executed the run or, in-process, under none
RecordOutcome(t, status, worker) ==
    /\ task[t].pc = "idle"
    /\ run.status = "QUEUED" /\ run.outcome < MaxOutcomes
    /\ run' = [run EXCEPT !.status = status, !.outcome = @ + 1, !.dead = FALSE,
                          !.worker = worker]
    /\ task' = [task EXCEPT ![t] = [IdleTask EXCEPT !.pc = "prepare", !.run = run']]
    /\ UNCHANGED <<rows, acked, losses>>

\* the run's row is in the status and has the worker of t's copy
Current(t) == run.status = task[t].run.status /\ run.worker = task[t].run.worker

\* prepare_for_run for an event nobody asked for: _skip_callback
SkipCallback(t) ==
    /\ task[t].pc = "prepare"
    /\ RunEvent(task[t].run) \notin Requested
    /\ run' = IF Current(t)
              THEN [task[t].run EXCEPT !.callback = "SKIPPED",
                                       !.status = SettledStatus(task[t].run)]
              ELSE run
    /\ IF task[t].resend THEN Idle(t) ELSE GotoRelease(t)
    /\ UNCHANGED <<rows, acked, losses>>

\* new_event_id: no row has it and no task is about to save it
Fresh(e) == rows[e].status = "ABSENT" /\ \A t \in Tasks : task[t].event # e

\* variant: the delivery that is reused reports the new outcome
PrepareRefreshing(t) ==
    /\ task[t].pc = "prepare"
    /\ RunEvent(task[t].run) \in Requested
    /\ \E e \in 1..MaxEvents :
         /\ IF task[t].run.event = NoEvent THEN Fresh(e) ELSE e = task[t].run.event
         /\ task' = [task EXCEPT ![t] =
              [@ EXCEPT !.pc = "save", !.event = e,
                 !.row = IF rows[e].status # "ABSENT"
                         THEN [rows[e] EXCEPT !.lease = NoLease, !.payload = task[t].run.outcome]
                         ELSE [status |-> "PENDING", attempts |-> 0, lease |-> NoLease,
                               payload |-> task[t].run.outcome]]]
    /\ UNCHANGED <<run, rows, acked, losses>>

\* prepare_for_run: the delivery of the run's event id is reused with the payload
\* it has, or a new one is made
PrepareForRun(t) ==
    /\ task[t].pc = "prepare"
    /\ RunEvent(task[t].run) \in Requested
    /\ \E e \in 1..MaxEvents :
         /\ IF task[t].run.event = NoEvent THEN Fresh(e) ELSE e = task[t].run.event
         /\ task' = [task EXCEPT ![t] =
              [@ EXCEPT !.pc = "save", !.event = e,
                 !.row = IF rows[e].status # "ABSENT" THEN [rows[e] EXCEPT !.lease = NoLease]
                         ELSE [status |-> "PENDING", attempts |-> 0, lease |-> NoLease,
                               payload |-> task[t].run.outcome]]]
    /\ UNCHANGED <<run, rows, acked, losses>>

\* ... and its transaction, update_run_with_callback
SavePrepared(t) ==
    /\ task[t].pc = "save"
    /\ IF Current(t)
       THEN /\ run' = [task[t].run EXCEPT !.callback = "PENDING", !.event = task[t].event,
                         !.status = IF @ \in {"AGENT_SUCCEEDED", "SUCCEEDED"}
                                    THEN "WAITING_CALLBACK" ELSE @]
            /\ rows' = [rows EXCEPT ![task[t].event] = task[t].row]
       ELSE UNCHANGED <<run, rows>>
    /\ IF ~task[t].resend THEN GotoRelease(t)
       ELSE IF Current(t) THEN GotoDispatch(t, task[t].event, task[t].row)
       ELSE Idle(t)
    /\ UNCHANGED <<acked, losses>>

\* _mark_queue_dead after a failure, _mark_queue_completed otherwise
ReleaseQueue(t) ==
    /\ task[t].pc = "release"
    /\ run' = IF run.worker = task[t].run.worker
              THEN [run EXCEPT !.worker = NoWorker,
                               !.dead = @ \/ task[t].run.status = "FAILED"]
              ELSE run
    /\ Idle(t)
    /\ UNCHANGED <<rows, acked, losses>>

-----------------------------------------------------------------------------
(* The dispatcher *)

\* variant: only deliveries that never failed are claimed
ClaimUntried(t, e) ==
    /\ task[t].pc = "idle"
    /\ rows[e].status = "PENDING" /\ rows[e].lease <= 0
    /\ rows' = [rows EXCEPT ![e] = [@ EXCEPT !.lease = LeaseTicks]]
    /\ GotoDispatch(t, e, [rows[e] EXCEPT !.lease = LeaseTicks])
    /\ UNCHANGED <<run, acked, losses>>

\* dispatch_pending: CallbackRepository.claim_pending
ClaimPending(t, e) ==
    /\ task[t].pc = "idle"
    /\ \/ rows[e].status = "PENDING"
       \/ rows[e].status = "FAILED" /\ rows[e].attempts < MaxAttempts
    /\ rows[e].lease <= 0
    /\ rows' = [rows EXCEPT ![e] = [@ EXCEPT !.lease = LeaseTicks]]
    /\ GotoDispatch(t, e, [rows[e] EXCEPT !.lease = LeaseTicks])
    /\ UNCHANGED <<run, acked, losses>>

\* delivery.attempts = attempt
Counted(row) == [row EXCEPT !.attempts = row.attempts + 1]

\* dispatch_delivery reads the run and posts; without an attempt left it posts nothing
DispatchDelivery(t) ==
    /\ task[t].pc = "dispatch"
    /\ task' = [task EXCEPT ![t] =
         IF task[t].row.attempts < MaxAttempts
         THEN [@ EXCEPT !.pc = "sent", !.run = run, !.row = Counted(task[t].row)]
         ELSE [@ EXCEPT !.pc = "exhausted", !.run = run]]
    /\ UNCHANGED <<run, rows, acked, losses>>

\* the dispatcher's copies after an acknowledgement
DeliveredRow(t) == [task[t].row EXCEPT !.status = "DELIVERED", !.lease = NoLease]

DeliveredRun(t) == [task[t].run EXCEPT !.callback = "DELIVERED",
                                       !.status = SettledStatus(task[t].run)]

\* variant: any answer of the consumer counts as an acknowledgement
AcknowledgedByAnyAnswer(t) ==
    /\ task[t].pc = "sent"
    /\ acked' \in {acked, acked \cup {task[t].row.payload}}
    /\ rows' = [rows EXCEPT ![task[t].event] = DeliveredRow(t)]
    /\ run' = IF run.status = task[t].run.status THEN DeliveredRun(t) ELSE run
    /\ task' = [task EXCEPT ![t] = [@ EXCEPT !.pc = "told", !.row = DeliveredRow(t),
                                             !.run = DeliveredRun(t)]]
    /\ UNCHANGED losses

\* the consumer answered ackStatus = RECEIVED: both copies are changed, and written
\* in one transaction, or the delivery's alone if the run's status is another
Acknowledged(t) ==
    /\ task[t].pc = "sent"
    /\ acked' = acked \cup {task[t].row.payload}
    /\ rows' = [rows EXCEPT ![task[t].event] = DeliveredRow(t)]
    /\ run' = IF run.status = task[t].run.status THEN DeliveredRun(t) ELSE run
    /\ task' = [task EXCEPT ![t] = [@ EXCEPT !.pc = "told", !.row = DeliveredRow(t),
                                             !.run = DeliveredRun(t)]]
    /\ UNCHANGED losses

\* the log is written and on_callback_end returns
Delivered(t) ==
    /\ task[t].pc = "told"
    /\ Idle(t)
    /\ UNCHANGED <<run, rows, acked, losses>>

\* variant: one more attempt than configured
AttemptFailsOneMore(t) ==
    /\ task[t].pc \in {"sent", "told"}
    /\ rows' = [rows EXCEPT ![task[t].event] = [task[t].row EXCEPT !.status = "FAILED"]]
    /\ task' = [task EXCEPT ![t] =
         [@ EXCEPT !.pc = IF task[t].row.attempts <= MaxAttempts THEN "sleep" ELSE "exhausted",
                   !.row = [task[t].row EXCEPT !.status = "FAILED"]]]
    /\ UNCHANGED <<run, acked, losses>>

\* any exception of the attempt: refused URL, HTTP error, timeout, other answer; and,
\* after the acknowledgement is on record, the log's or the hook's
AttemptFails(t) ==
    /\ task[t].pc \in {"sent", "told"}
    /\ rows' = [rows EXCEPT ![task[t].event] = [task[t].row EXCEPT !.status = "FAILED"]]
    /\ task' = [task EXCEPT ![t] =
         [@ EXCEPT !.pc = IF task[t].row.attempts < MaxAttempts THEN "sleep" ELSE "exhausted",
                   !.row = [task[t].row EXCEPT !.status = "FAILED"]]]
    /\ UNCHANGED <<run, acked, losses>>

\* the backoff is over and the next attempt is posted
PostAgain(t) ==
    /\ task[t].pc = "sleep"
    /\ task' = [task EXCEPT ![t] = [@ EXCEPT !.pc = "sent", !.row = Counted(task[t].row)]]
    /\ UNCHANGED <<run, rows, acked, losses>>

\* variant: the run's status is not compared
ExhaustRunAnyway(t) ==
    /\ task[t].pc = "exhausted"
    /\ run' = [task[t].run EXCEPT !.callback = "FAILED"]
    /\ task' = [task EXCEPT ![t] = [@ EXCEPT !.pc = "settle", !.run = NewRun]]
    /\ UNCHANGED <<rows, acked, losses>>

\* attempts over: the run's callback_status ...
ExhaustRun(t) ==
    /\ task[t].pc = "exhausted"
    /\ run' = IF run.status = task[t].run.status
              THEN [task[t].run EXCEPT !.callback = "FAILED"] ELSE run
    /\ task' = [task EXCEPT ![t] = [@ EXCEPT !.pc = "settle", !.run = NewRun]]
    /\ UNCHANGED <<rows, acked, losses>>

\* ... then the delivery's lease
ReleaseDelivery(t) ==
    /\ task[t].pc = "settle"
    /\ rows' = [rows EXCEPT ![task[t].event] = [task[t].row EXCEPT !.lease = NoLease]]
    /\ Idle(t)
    /\ UNCHANGED <<run, acked, losses>>

-----------------------------------------------------------------------------
(* The operator, lost processes, time *)

\* CallbackService.resend: start the delivery over, then dispatch_for_run
Resend(t) ==
    /\ task[t].pc = "idle" /\ "resend" \in Requests
    /\ rows' = IF run.event = NoEvent THEN rows
               ELSE [rows EXCEPT ![run.event] = [@ EXCEPT !.status = "PENDING", !.attempts = 0,
                                                          !.lease = NoLease]]
    /\ task' = [task EXCEPT ![t] = [IdleTask EXCEPT !.pc = "prepare", !.resend = TRUE,
                                                    !.run = run]]
    /\ UNCHANGED <<run, acked, losses>>

\* RunManager.retry: callback_status and callback_event_id stay
Retry ==
    /\ "retry" \in Requests /\ run.status \in {"FAILED", "WAITING_CALLBACK"}
    /\ run' = [run EXCEPT !.status = "QUEUED", !.dead = FALSE, !.worker = NoWorker]
    /\ UNCHANGED <<rows, task, acked, losses>>

\* RunManager.cancel
Cancel ==
    /\ "cancel" \in Requests
    /\ run.status \in {"QUEUED", "AGENT_SUCCEEDED", "WAITING_CALLBACK"}
    /\ run' = [run EXCEPT !.status = "CANCELED", !.worker = NoWorker]
    /\ UNCHANGED <<rows, task, acked, losses>>

\* the process of a task goes down
Lose(t) ==
    /\ task[t].pc # "idle" /\ losses < MaxLosses
    /\ losses' = losses + 1
    /\ Idle(t)
    /\ UNCHANGED <<run, rows, acked>>

Elapse(lease) == IF lease > 0 THEN lease - 1 ELSE lease

Aged(row) == [row EXCEPT !.lease = Elapse(row.lease)]

Tick ==
    /\ rows' = [e \in 1..MaxEvents |-> Aged(rows[e])]
    /\ task' = [t \in Tasks |-> [task[t] EXCEPT !.row = Aged(task[t].row)]]
    /\ UNCHANGED <<run, acked, losses>>

-----------------------------------------------------------------------------
ExecutorStep(t) ==
    \/ \E s \in {"AGENT_SUCCEEDED", "SUCCEEDED", "FAILED"}, w \in {t, NoWorker} :
         RecordOutcome(t, s, w)
    \/ SkipCallback(t) \/ PrepareForRun(t) \/ SavePrepared(t) \/ ReleaseQueue(t)

DispatcherStep(t) ==
    \/ DispatchDelivery(t) \/ Acknowledged(t) \/ Delivered(t) \/ AttemptFails(t)
    \/ PostAgain(t) \/ ExhaustRun(t) \/ ReleaseDelivery(t)

Next ==
    \/ \E t \in Tasks : ExecutorStep(t) \/ DispatcherStep(t) \/ Resend(t) \/ Lose(t)
                         \/ \E e \in 1..MaxEvents : ClaimPending(t, e)
    \/ Retry \/ Cancel \/ Tick

Spec == Init /\ [][Next]_vars

(***************************************************************************)
(* Fairness for liveness: a coroutine goes on, a response arrives or the   *)
(* post times out, the dispatcher polls for ever, time passes.  Nothing is *)
(* assumed of executions, of operators or of lost processes.               *)
(***************************************************************************)
Fairness ==
    /\ \A t \in Tasks : /\ WF_vars(SkipCallback(t) \/ PrepareForRun(t) \/ SavePrepared(t)
                                   \/ ReleaseQueue(t) \/ DispatcherStep(t))
                        /\ \A e \in 1..MaxEvents : WF_vars(ClaimPending(t, e))
    /\ WF_vars(Tick)

FairSpec == Spec /\ Fairness

-----------------------------------------------------------------------------
(* Properties that hold *)

\* What is on record as delivered was acknowledged: the consumer confirmed the
\* payload of a DELIVERED delivery, and a run says DELIVERED only when the payload
\* of a delivery of its was confirmed, through lost processes, overlapping
\* dispatchers, resends and retries.
DeliveredWasAcknowledged ==
    /\ \A e \in 1..MaxEvents : rows[e].status = "DELIVERED" => rows[e].payload \in acked
    /\ run.callback = "DELIVERED" => \E e \in 1..MaxEvents : rows[e].payload \in acked

\* The payload of a delivery is frozen when it is first saved: whoever writes a
\* copy of the row back, after a retry, a resend or a lost lease, writes the same
\* payload, so every repetition of an event id tells the consumer the same.
PayloadIsFrozen ==
    [][\A e \in 1..MaxEvents :
         rows[e].status # "ABSENT" => rows'[e].payload = rows[e].payload]_vars

\* A failed execution stays failed until the operator retries it: no delivery,
\* exhausted or acknowledged, early, late or for an earlier execution, turns the
\* run into a succeeded one or sends it back to WAITING_CALLBACK.
FailureIsKept ==
    [][run.status = "FAILED" => run'.status \in {"FAILED", "QUEUED"}]_vars

\* A run that its delivery settled stays settled, and so does a canceled one, unless
\* the operator retries or resends: a dispatcher that lost its lease and fails, or is
\* acknowledged, after another one settled the run, and one whose log or hook raises
\* behind the acknowledgement and which posts again, leave the status alone.
SettledStays ==
    [][\/ run.status = "CANCELED"
       \/ run.status = "SUCCEEDED" /\ run.event # NoEvent
       => run'.status = run.status]_vars

\* Every delivery that was saved is acknowledged or uses up its attempts, though
\* the processes that dispatch it are lost between any two steps, leases run out under
\* them, and a second dispatcher writes a copy with fewer attempts back.
EveryDeliveryEnds ==
    \A e \in 1..MaxEvents :
        rows[e].status # "ABSENT"
        ~> \/ rows[e].status = "DELIVERED"
           \/ rows[e].status = "FAILED" /\ rows[e].attempts = MaxAttempts

-----------------------------------------------------------------------------
(* What the repository says of the program and the code does not do *)

\* callback_service.py: "Delivery state must never erase the business outcome": a
\* dispatcher's write never takes the row back to an earlier execution's result.
OutcomeIsNotErased ==
    [][\A t \in Tasks : task[t].pc \in Dispatching /\ task'[t].pc # task[t].pc
                        => run'.outcome >= run.outcome]_vars

\* TECHNICAL_REPORT.md: "Callback delivery is at-least-once": a run that waits for
\* its callback settles, or its delivery fails for good.
WaitingSettles ==
    run.status = "WAITING_CALLBACK"
    ~> run.status # "WAITING_CALLBACK" \/ run.callback = "FAILED"
=============================================================================
