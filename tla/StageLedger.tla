----------------------------- MODULE StageLedger -----------------------------
(***************************************************************************)
(* The durable stages of ONE run: framework/runtime/stage_runner.py        *)
(* (StageRunner.run_stage), infra/store/repository/stage.py and the        *)
(* side-effecting half of framework/tool/tools.py (ToolGateway), for an    *)
(* agent that wraps its work in one stage and calls one side-effecting     *)
(* tool from it.  The stage and the tool operation are two rows of the     *)
(* same ledger; effects counts what the outside world saw.                 *)
(*                                                                         *)
(* Several worker processes may be executing the run at once: a lease can  *)
(* expire under a live worker (RunExecution models when), so a claim is    *)
(* possible at any time.  Every store call is one step, because another    *)
(* process may step between any two.  A process executes the run at most   *)
(* once at a time and draws a fresh execution_id for every attempt, so the *)
(* process itself stands for the execution_id of its current attempt: the  *)
(* id an earlier attempt left in a row is overwritten by begin_attempt, or *)
(* refused by _prepare_side_effect_operation, before it is compared.       *)
(***************************************************************************)
EXTENDS Naturals

CONSTANTS
    Executors,     \* worker processes
    None,          \* NULL
    MaxAttempts,   \* max(1, max_attempts) of the stage
    Inputs,        \* what _validate_state compares: input hash, versions, index
    Outputs,       \* what an operation may return
    Checkpoints,   \* what an operation may save
    Disturbances   \* which of "claim" (of a live worker's run), "shutdown" happen

ASSUME ExecutorAssumption ==
    /\ None \notin Executors \cup Inputs \cup Outputs \cup Checkpoints
    /\ MaxAttempts \in Nat \ {0}
    /\ Disturbances \subseteq {"claim", "shutdown"}

VARIABLES
    stage,     \* the stage's row
    tool,      \* the side-effecting operation's row
    ex,        \* per process: its execution of the run (volatile)
    worker,    \* the worker column of the run's row
    canceled,  \* the run's row is CANCELED
    effects    \* how often the tool's endpoint was reached

vars == <<stage, tool, ex, worker, canceled, effects>>

StageStatuses == {"PENDING", "RUNNING", "SUCCEEDED", "FAILED", "CANCELED", "OUTCOME_UNKNOWN"}

\* ABSENT: the row does not exist yet
StageRows ==
    [status: StageStatuses \cup {"ABSENT"}, attempts: 0..MaxAttempts,
     owner: Executors \cup {None}, input: Inputs \cup {None},
     output: Outputs \cup {None}, checkpoint: Checkpoints \cup {None}]

\* returned: error_type = "SIDE_EFFECT_RETURNED"
ToolRows ==
    [status: StageStatuses \cup {"ABSENT"}, attempts: {0, 1},
     owner: Executors \cup {None}, returned: BOOLEAN]

(***************************************************************************)
(* start   run_stage called              begin  state validated            *)
(* step    begin_attempt committed       op     inside operation(...)      *)
(* tool    ToolGateway.call admitted     claim  begin_side_effect_once next*)
(* mark    ..._dispatched next           invoke endpoint not reached yet   *)
(* sent    waiting for the response      commit response accepted          *)
(* after   operation row SUCCEEDED       done   run_stage returned         *)
(***************************************************************************)
PCs == {"idle", "start", "begin", "step", "op", "tool", "claim", "mark", "invoke",
        "sent", "commit", "after", "done"}

\* inside operation(...)
InOperation == {"op", "tool", "claim", "mark", "invoke", "sent", "commit", "after"}

\* input, out, checkpoint: what the execution was given; event: its cancellation
\* signal is set; answered: it has the tool's output
Executions ==
    [pc: PCs, input: Inputs \cup {None}, out: Outputs \cup {None},
     checkpoint: Checkpoints \cup {None}, event: BOOLEAN, answered: BOOLEAN]

IdleExecution == [pc |-> "idle", input |-> None, out |-> None, checkpoint |-> None,
                  event |-> FALSE, answered |-> FALSE]

TypeOK ==
    /\ stage \in StageRows
    /\ tool \in ToolRows
    /\ ex \in [Executors -> Executions]
    /\ worker \in Executors \cup {None}
    /\ canceled \in BOOLEAN
    /\ effects \in Nat

Init ==
    /\ stage = [status |-> "ABSENT", attempts |-> 0, owner |-> None, input |-> None,
                output |-> None, checkpoint |-> None]
    /\ tool = [status |-> "ABSENT", attempts |-> 0, owner |-> None, returned |-> FALSE]
    /\ ex = [p \in Executors |-> IdleExecution]
    /\ worker = None
    /\ canceled = FALSE
    /\ effects = 0

Goto(p, pc) == ex' = [ex EXCEPT ![p] = [@ EXCEPT !.pc = pc]]

\* the execution ends: an exception leaves run_stage, or the process is gone
Over(p) == ex' = [ex EXCEPT ![p] = IdleExecution]

\* _raise_if_cancelled
Cancelled(p) == canceled \/ ex[p].event

\* variant: the execution_id is not compared
ActiveAnyone(p) == stage.status = "RUNNING"

\* _update_active on the stage
Active(p) == stage.status = "RUNNING" /\ stage.owner = p

Mark(p, status) == stage' = IF Active(p) THEN [stage EXCEPT !.status = status] ELSE stage

\* RunCancelledError inside the operation: run_stage marks the stage CANCELED
StopCancelled(p) == Mark(p, "CANCELED") /\ Over(p)

\* SideEffectOutcomeUnknownError: run_stage marks the stage OUTCOME_UNKNOWN
StopUnknown(p) == Mark(p, "OUTCOME_UNKNOWN") /\ Over(p)

-----------------------------------------------------------------------------
(* run_stage up to the operation *)

\* a worker claims the run, or its owner starts the next attempt
ClaimRun(p) ==
    /\ ex[p].pc = "idle" /\ ~canceled
    /\ worker \in {None, p} \/ "claim" \in Disturbances
    /\ worker' = p
    /\ Goto(p, "start")
    /\ UNCHANGED <<stage, tool, canceled, effects>>

\* variant: the recorded input is not validated
EnterUnvalidated(p, input) ==
    /\ ex[p].pc = "start" /\ ~Cancelled(p)
    /\ stage' = IF stage.status = "ABSENT"
                THEN [stage EXCEPT !.status = "PENDING", !.input = input] ELSE stage
    /\ ex' = [ex EXCEPT ![p] =
               IF stage'.status \in {"CANCELED", "OUTCOME_UNKNOWN"}
               THEN IdleExecution
               ELSE IF stage'.status = "SUCCEEDED"
               THEN [@ EXCEPT !.pc = "done", !.input = input, !.out = stage'.output]
               ELSE [@ EXCEPT !.pc = "begin", !.input = input]]
    /\ UNCHANGED <<tool, worker, canceled, effects>>

\* get_or_create, _validate_state, and the statuses that end run_stage at once
EnterStage(p, input) ==
    /\ ex[p].pc = "start" /\ ~Cancelled(p)
    /\ stage' = IF stage.status = "ABSENT"
                THEN [stage EXCEPT !.status = "PENDING", !.input = input] ELSE stage
    /\ ex' = [ex EXCEPT ![p] =
               IF stage'.input # input \/ stage'.status \in {"CANCELED", "OUTCOME_UNKNOWN"}
               THEN IdleExecution
               ELSE IF stage'.status = "SUCCEEDED"
               THEN [@ EXCEPT !.pc = "done", !.input = input, !.out = stage'.output]
               ELSE [@ EXCEPT !.pc = "begin", !.input = input]]
    /\ UNCHANGED <<tool, worker, canceled, effects>>

EnterCancelled(p) ==
    /\ ex[p].pc = "start" /\ Cancelled(p)
    /\ Over(p)
    /\ UNCHANGED <<stage, tool, worker, canceled, effects>>

\* variant: the attempt budget is off by one
BeginOneMore(p) ==
    /\ ex[p].pc = "begin"
    /\ IF \/ stage.status = "RUNNING"
          \/ stage.status \in {"PENDING", "FAILED"} /\ stage.attempts <= MaxAttempts
       THEN /\ stage' = [stage EXCEPT !.status = "RUNNING", !.owner = p,
                           !.attempts = IF stage.status = "RUNNING" THEN @ ELSE @ + 1]
            /\ ex' = [ex EXCEPT ![p] =
                        [@ EXCEPT !.pc = "step", !.checkpoint = stage.checkpoint]]
       ELSE Over(p) /\ UNCHANGED stage
    /\ UNCHANGED <<tool, worker, canceled, effects>>

\* StageRepository.begin_attempt; None raises StageAttemptsExhaustedError
BeginAttempt(p) ==
    /\ ex[p].pc = "begin"
    /\ IF \/ stage.status = "RUNNING"
          \/ stage.status \in {"PENDING", "FAILED"} /\ stage.attempts < MaxAttempts
       THEN /\ stage' = [stage EXCEPT !.status = "RUNNING", !.owner = p,
                           !.attempts = IF stage.status = "RUNNING" THEN @ ELSE @ + 1]
            /\ ex' = [ex EXCEPT ![p] =
                        [@ EXCEPT !.pc = "step", !.checkpoint = stage.checkpoint]]
       ELSE Over(p) /\ UNCHANGED stage
    /\ UNCHANGED <<tool, worker, canceled, effects>>

\* _set_current_step: raised outside the try, the stage stays RUNNING
SetCurrentStep(p) ==
    /\ ex[p].pc = "step"
    /\ IF worker = p THEN Goto(p, "op") ELSE Over(p)
    /\ UNCHANGED <<stage, tool, worker, canceled, effects>>

-----------------------------------------------------------------------------
(* The operation: checkpoints, the end *)

SaveCheckpoint(p, c) ==
    /\ ex[p].pc = "op"
    /\ \/ Cancelled(p) /\ StopCancelled(p)
       \/ /\ ~Cancelled(p) /\ Active(p)
          /\ stage' = [stage EXCEPT !.checkpoint = c]
          /\ ex' = [ex EXCEPT ![p] = [@ EXCEPT !.checkpoint = c]]
       \/ ~Cancelled(p) /\ ~Active(p) /\ Over(p) /\ UNCHANGED stage  \* stale
    /\ UNCHANGED <<tool, worker, canceled, effects>>

OperationSucceeds(p, output) ==
    /\ ex[p].pc = "op"
    /\ \/ Cancelled(p) /\ StopCancelled(p)
       \/ /\ ~Cancelled(p) /\ Active(p)
          /\ stage' = [stage EXCEPT !.status = "SUCCEEDED", !.output = output,
                                    !.checkpoint = None]
          /\ ex' = [ex EXCEPT ![p] = [@ EXCEPT !.pc = "done", !.out = output]]
       \/ ~Cancelled(p) /\ ~Active(p) /\ Over(p) /\ UNCHANGED stage  \* stale
    /\ UNCHANGED <<tool, worker, canceled, effects>>

OperationFails(p) ==
    /\ ex[p].pc = "op"
    /\ Mark(p, "FAILED") /\ Over(p)
    /\ UNCHANGED <<tool, worker, canceled, effects>>

\* the agent goes on with the result and its execution ends
LeaveStage(p) ==
    /\ ex[p].pc = "done"
    /\ Over(p)
    /\ UNCHANGED <<stage, tool, worker, canceled, effects>>

-----------------------------------------------------------------------------
(* The operation: ToolGateway.call of a side-effecting tool *)

\* the WAITING_TOOL write matches the run's owner or raises RunCancelledError
CallTool(p) ==
    /\ ex[p].pc = "op"
    /\ IF worker = p THEN Goto(p, "tool") /\ UNCHANGED stage ELSE StopCancelled(p)
    /\ UNCHANGED <<tool, worker, canceled, effects>>

\* variant: an operation that was dispatched is taken to have returned
PrepareTrusting(p) ==
    /\ ex[p].pc = "tool"
    /\ tool' = IF tool.status = "ABSENT" THEN [tool EXCEPT !.status = "PENDING"] ELSE tool
    /\ \/ /\ tool'.status \in {"SUCCEEDED", "OUTCOME_UNKNOWN"}
          /\ ex' = [ex EXCEPT ![p] = [@ EXCEPT !.pc = "op", !.answered = TRUE]]
          /\ UNCHANGED stage
       \/ tool'.status = "RUNNING" /\ StopUnknown(p)
       \/ tool'.status = "PENDING" /\ Goto(p, "claim") /\ UNCHANGED stage
    /\ UNCHANGED <<worker, canceled, effects>>

\* _prepare_side_effect_operation: get_or_create and the statuses it refuses
PrepareSideEffect(p) ==
    /\ ex[p].pc = "tool"
    /\ tool' = IF tool.status = "ABSENT" THEN [tool EXCEPT !.status = "PENDING"] ELSE tool
    /\ \/ /\ tool'.status = "SUCCEEDED"
          /\ ex' = [ex EXCEPT ![p] = [@ EXCEPT !.pc = "op", !.answered = TRUE]]
          /\ UNCHANGED stage
       \/ tool'.status \in {"RUNNING", "OUTCOME_UNKNOWN"} /\ StopUnknown(p)
       \/ /\ tool'.status \in {"PENDING", "FAILED", "CANCELED"}
          /\ Goto(p, "claim") /\ UNCHANGED stage
    /\ UNCHANGED <<worker, canceled, effects>>

\* variant: the claim does not compare what was read a step earlier
ClaimUnchecked(p) ==
    /\ ex[p].pc = "claim"
    /\ tool' = [tool EXCEPT !.status = "RUNNING", !.attempts = 1, !.owner = p]
    /\ Goto(p, "mark")
    /\ UNCHANGED <<stage, worker, canceled, effects>>

\* begin_side_effect_once
ClaimSideEffect(p) ==
    /\ ex[p].pc = "claim"
    /\ IF tool.status = "PENDING" /\ tool.attempts = 0
       THEN /\ tool' = [tool EXCEPT !.status = "RUNNING", !.attempts = 1, !.owner = p]
            /\ Goto(p, "mark") /\ UNCHANGED stage
       ELSE StopUnknown(p) /\ UNCHANGED tool
    /\ UNCHANGED <<worker, canceled, effects>>

\* mark_side_effect_dispatched
DispatchSideEffect(p) ==
    /\ ex[p].pc = "mark"
    /\ IF tool.status = "RUNNING" /\ tool.owner = p
       THEN /\ tool' = [tool EXCEPT !.status = "OUTCOME_UNKNOWN"]
            /\ Goto(p, "invoke") /\ UNCHANGED stage
       ELSE StopUnknown(p) /\ UNCHANGED tool
    /\ UNCHANGED <<worker, canceled, effects>>

\* _invoke reaches the endpoint
Invoke(p) ==
    /\ ex[p].pc = "invoke"
    /\ effects' = effects + 1
    /\ Goto(p, "sent")
    /\ UNCHANGED <<stage, tool, worker, canceled>>

\* timeout, cancellation, invalid output or any other exception of the attempt,
\* before or after the endpoint was reached or the response was committed
ToolRaises(p) ==
    /\ ex[p].pc \in {"invoke", "sent", "after"}
    /\ StopUnknown(p)
    /\ UNCHANGED <<tool, worker, canceled, effects>>

\* _complete_side_effect_operation: mark_side_effect_returned ...
ResponseReturned(p) ==
    /\ ex[p].pc = "sent"
    /\ IF tool.status = "OUTCOME_UNKNOWN" /\ tool.owner = p
       THEN tool' = [tool EXCEPT !.returned = TRUE] /\ Goto(p, "commit") /\ UNCHANGED stage
       ELSE StopUnknown(p) /\ UNCHANGED tool
    /\ UNCHANGED <<worker, canceled, effects>>

\* ... then mark_succeeded
ResponseCommitted(p) ==
    /\ ex[p].pc = "commit"
    /\ IF /\ tool.owner = p
          /\ tool.status = "RUNNING" \/ (tool.status = "OUTCOME_UNKNOWN" /\ tool.returned)
       THEN /\ tool' = [tool EXCEPT !.status = "SUCCEEDED", !.returned = FALSE]
            /\ Goto(p, "after") /\ UNCHANGED stage
       ELSE StopUnknown(p) /\ UNCHANGED tool
    /\ UNCHANGED <<worker, canceled, effects>>

\* the on_tool_end hook is over
ToolReturns(p) ==
    /\ ex[p].pc = "after"
    /\ ex' = [ex EXCEPT ![p] = [@ EXCEPT !.pc = "op", !.answered = TRUE]]
    /\ UNCHANGED <<stage, tool, worker, canceled, effects>>

-----------------------------------------------------------------------------
(* What happens to the execution from outside *)

\* process loss, or asyncio cancellation outside a side-effecting call: the
\* lease renewal or the run's timeout stops the task, rows stay as they are
Lost(p) ==
    /\ ex[p].pc # "idle"
    /\ Over(p)
    /\ UNCHANGED <<stage, tool, worker, canceled, effects>>

\* RunManager.shutdown sets the execution's event and lets it go on for a while
Shutdown(p) ==
    /\ "shutdown" \in Disturbances
    /\ ex[p].pc # "idle" /\ ~ex[p].event
    /\ ex' = [ex EXCEPT ![p] = [@ EXCEPT !.event = TRUE]]
    /\ UNCHANGED <<stage, tool, worker, canceled, effects>>

\* RunManager.cancel
Cancel ==
    /\ ~canceled
    /\ canceled' = TRUE /\ worker' = None
    /\ UNCHANGED <<stage, tool, ex, effects>>

\* variant: a retry starts every stage over that has no result
ResetUnfinished(row) ==
    IF row.status \in {"FAILED", "CANCELED", "OUTCOME_UNKNOWN"}
    THEN [row EXCEPT !.status = "PENDING", !.attempts = 0, !.owner = None] ELSE row

\* reset_failed_for_run
ResetFailed(row) ==
    IF row.status = "FAILED"
    THEN [row EXCEPT !.status = "PENDING", !.attempts = 0, !.owner = None] ELSE row

\* RunManager.retry; the run's own status is not modelled, and a run that failed
\* under one worker may still be executing under another, so it may come any time
Retry ==
    /\ ~canceled
    /\ stage' = ResetFailed(stage)
    /\ tool' = ResetFailed(tool)
    /\ worker' = None
    /\ UNCHANGED <<ex, canceled, effects>>

-----------------------------------------------------------------------------
StageStep(p) ==
    \/ ClaimRun(p)     \/ EnterCancelled(p) \/ \E i \in Inputs : EnterStage(p, i)
    \/ BeginAttempt(p) \/ SetCurrentStep(p) \/ OperationFails(p) \/ LeaveStage(p)
    \/ \E c \in Checkpoints : SaveCheckpoint(p, c)
    \/ \E o \in Outputs : OperationSucceeds(p, o)

ToolStep(p) ==
    \/ CallTool(p)  \/ PrepareSideEffect(p) \/ ClaimSideEffect(p)
    \/ DispatchSideEffect(p) \/ Invoke(p)   \/ ToolRaises(p)
    \/ ResponseReturned(p)   \/ ResponseCommitted(p) \/ ToolReturns(p)

Next ==
    \/ \E p \in Executors : StageStep(p) \/ ToolStep(p) \/ Lost(p) \/ Shutdown(p)
    \/ Cancel
    \/ Retry

Spec == Init /\ [][Next]_vars

-----------------------------------------------------------------------------
(* Properties that hold *)

\* The endpoint of a side-effecting tool is reached at most once for one
\* operation of the run, through retries, lost workers, overlapping executions
\* and operator retries (begin_side_effect_once, mark_side_effect_dispatched).
AtMostOneEffect == effects <= 1

\* A tool output, committed or handed to an operation, from the endpoint or from
\* the ledger, is the answer to a call the endpoint really received.
OutputIsConfirmed ==
    tool.status = "SUCCEEDED" \/ (\E p \in Executors : ex[p].answered) => effects = 1

\* All executions that got through the stage got the same output, the one on
\* record, and for the input on record: an execution that was superseded while
\* its operation ran returns nothing.
OneResult ==
    \A p \in Executors : ex[p].pc = "done" =>
        /\ stage.status = "SUCCEEDED"
        /\ ex[p].out = stage.output /\ ex[p].input = stage.input

\* The execution that holds the stage knows the checkpoint on record: no
\* superseded execution has replaced it since (save_checkpoint's execution_id).
CheckpointIsOwners ==
    \A p \in Executors : Active(p) /\ ex[p].pc \in InOperation
                         => stage.checkpoint = ex[p].checkpoint

\* A stage that succeeded, was canceled or has an unknown outcome is never
\* replayed: neither a late execution nor an operator retry touches the row.
StageIsFinal ==
    [][stage.status \in {"SUCCEEDED", "CANCELED", "OUTCOME_UNKNOWN"} => stage' = stage]_vars

-----------------------------------------------------------------------------
(* What the repository says of the program and the code does not do *)

\* stage_runner.py: "Keep the stage RUNNING with its last checkpoint. A later
\* worker can claim it with a new execution token after timeout or process
\* loss": only the cancellation of the run makes a stage CANCELED, which every
\* later execution refuses.
OnlyCancelCancels == stage.status = "CANCELED" => canceled
=============================================================================
