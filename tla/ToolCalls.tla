------------------------------ MODULE ToolCalls ------------------------------
(***************************************************************************)
(* ToolGateway.call: the calls of one tool in one process, through the     *)
(* registry checks, the circuit breaker, the QPS window, the WAITING_TOOL  *)
(* mark, the input guardrails, the semaphore and the attempts.             *)
(*                                                                         *)
(* The durable operation of a side-effecting tool is module StageLedger    *)
(* and the distributed slot module SlotLocks: here both answer or refuse.  *)
(* A call is suspended at every await, so the gates it passed are stale    *)
(* when it goes on.  Time: the cooldown ends and the window slides by      *)
(* actions of their own.                                                   *)
(***************************************************************************)
EXTENDS Integers, FiniteSets

CONSTANTS
    Calls,           \* calls of the tool that may be in progress at once
    Tools,           \* the tools to consider
    MaxConcurrency,  \* of the tool
    ToolAttempts,    \* retry_policy.max_attempts
    Threshold,       \* of the circuit breaker
    Qps              \* of the tool, 0 for none

ASSUME ToolAssumption ==
    /\ Tools \subseteq [op : {"idempotent", "side_effecting"}, fallback : BOOLEAN, handler : BOOLEAN]
    /\ MaxConcurrency \in Nat \ {0} /\ ToolAttempts \in Nat \ {0}
    /\ Threshold \in Nat \ {0} /\ Qps \in Nat

VARIABLES
    tool,     \* the tool: its operation type, a breaker fallback, a failure handler
    tc,       \* the calls
    permits,  \* free permits of the tool's semaphore
    breaker,  \* the breaker's state; open stands for open_until > now
    window,   \* acquisitions of the last second
    owned     \* the run is still executing for this worker

toolVars == <<tool, tc, permits, breaker, window, owned>>

NoCall == [st |-> "idle", n |-> 0]

\* how a call ends: an output, an output that names an error (_guardrail_blocked,
\* _tool_error), an exception, or one that must reach the run
Outputs == {"value", "error"}
Ended == Outputs \cup {"raised", "canceled", "unknown"}

ClosedBreaker == [failures |-> 0, open |-> FALSE]

ToolInit ==
    /\ tool \in Tools
    /\ tc = [c \in Calls |-> NoCall]
    /\ permits = MaxConcurrency /\ breaker = ClosedBreaker /\ window = 0
    /\ owned = TRUE

Goes(c, st) == tc' = [tc EXCEPT ![c].st = st]

\* variant: the permit is kept when the outcome is in doubt
LeaveInDoubt(c, st) ==
    Goes(c, st) /\ permits' = IF st = "unknown" THEN permits ELSE permits + 1

\* async with semaphore: the permit goes back however the call ends
Leave(c, st) == Goes(c, st) /\ permits' = permits + 1

\* the fallback output, or an exception
FallbackIfBreakerOpen(c) ==
    breaker.open /\ Goes(c, IF tool.fallback THEN "value" ELSE "raised")

\* registry.get, validate_allowed and validate_input, which may raise; then the breaker
BeginCall(c) ==
    /\ tc[c].st = "idle"
    /\ \/ Goes(c, "raised")
       \/ FallbackIfBreakerOpen(c)
       \/ ~breaker.open /\ Goes(c, "qps")
    /\ UNCHANGED <<tool, permits, breaker, window, owned>>

AcquireQps(c) ==
    /\ tc[c].st = "qps"
    /\ Qps = 0 \/ window < Qps
    /\ window' = IF Qps = 0 THEN window ELSE window + 1
    /\ Goes(c, "mark")
    /\ UNCHANGED <<tool, permits, breaker, owned>>

SlideWindow ==
    /\ window > 0
    /\ window' = window - 1
    /\ UNCHANGED <<tool, tc, permits, breaker, owned>>

\* the run becomes WAITING_TOOL if it is still this worker's; then on_tool_start, which
\* may raise, and the input guardrails
MarkWaiting(c) ==
    /\ tc[c].st = "mark"
    /\ \/ ~owned /\ Goes(c, "canceled")
       \/ owned /\ \E st \in {"queue", "error", "raised"} : Goes(c, st)
    /\ UNCHANGED <<tool, permits, breaker, window, owned>>

EnterSemaphore(c) ==
    /\ tc[c].st = "queue" /\ permits > 0
    /\ permits' = permits - 1
    /\ Goes(c, "held")
    /\ UNCHANGED <<tool, breaker, window, owned>>

\* the distributed slot and, for a side effect, the durable operation: refused,
\* answered from the ledger, in doubt, or begun
PrepareCall(c) ==
    /\ tc[c].st = "held"
    /\ \/ Leave(c, "raised")
       \/ tool.op = "side_effecting" /\ \E st \in {"value", "unknown"} : Leave(c, st)
       \/ tc' = [tc EXCEPT ![c] = [st |-> "invoke", n |-> 1]] /\ UNCHANGED permits
    /\ UNCHANGED <<tool, breaker, window, owned>>

RecordFailure(b) ==
    [failures |-> b.failures + 1, open |-> b.open \/ b.failures + 1 >= Threshold]

\* an attempt that raised: another one, or the end of the call
AttemptFailed(c, b) ==
    /\ breaker' = RecordFailure(b)
    /\ \/ /\ tool.op = "idempotent" /\ tc[c].n < ToolAttempts
          /\ Goes(c, "backoff") /\ UNCHANGED permits
       \/ tool.op = "side_effecting" /\ Leave(c, "unknown")
       \/ /\ tool.op = "idempotent" /\ tc[c].n >= ToolAttempts
          /\ \E st \in (IF tool.handler THEN {"error"} ELSE {}) \cup {"raised"} : Leave(c, st)

\* an output, allowed or rejected by its guardrails; on_tool_end may still raise
\* inside the attempt
InvokeReturns(c) ==
    /\ tc[c].st = "invoke"
    /\ \/ breaker' = ClosedBreaker /\ \E st \in Outputs : Leave(c, st)
       \/ AttemptFailed(c, ClosedBreaker)
    /\ UNCHANGED <<tool, window, owned>>

\* an exception, a timeout, an invalid output or an output guardrail's exception
InvokeFails(c) ==
    /\ tc[c].st = "invoke"
    /\ AttemptFailed(c, breaker)
    /\ UNCHANGED <<tool, window, owned>>

RetryTool(c) ==
    /\ tc[c].st = "backoff"
    /\ tc' = [tc EXCEPT ![c] = [st |-> "invoke", n |-> @.n + 1]]
    /\ UNCHANGED <<tool, permits, breaker, window, owned>>

\* CancelledError at the await where the call is suspended
CancelCall(c) ==
    /\ \/ tc[c].st \in {"qps", "mark", "queue"}
          /\ Goes(c, "canceled") /\ UNCHANGED permits
       \/ tc[c].st \in {"held", "backoff"} /\ Leave(c, "canceled")
       \/ tc[c].st = "invoke"
          /\ Leave(c, IF tool.op = "side_effecting" THEN "unknown" ELSE "canceled")
    /\ UNCHANGED <<tool, breaker, window, owned>>

\* open_until passes; the failures stay counted
CooldownEnds ==
    /\ breaker.open
    /\ breaker' = [breaker EXCEPT !.open = FALSE]
    /\ UNCHANGED <<tool, tc, permits, window, owned>>

\* a cancel or another worker's claim in the runs table
RunLost ==
    /\ owned
    /\ owned' = FALSE
    /\ UNCHANGED <<tool, tc, permits, breaker, window>>

ToolStep(c) ==
    \/ AcquireQps(c) \/ MarkWaiting(c) \/ EnterSemaphore(c) \/ PrepareCall(c)
    \/ InvokeReturns(c) \/ InvokeFails(c) \/ RetryTool(c)

ToolClock == SlideWindow \/ CooldownEnds
=============================================================================
