------------------------------ MODULE PiRuntime ------------------------------
(***************************************************************************)
(* One attempt of a Pi agent: the Node worker that runs the model and tool *)
(* loop (runner.mjs), the pipes, and the host that owns the task           *)
(* (PiProcess.run, PiAgent._run_once and its handlers, PiTools.call).      *)
(*                                                                         *)
(* The worker may crash or hang at any step, a store save may fail, the    *)
(* cancellation signal may be set, and the attempt's own task may be       *)
(* canceled again while it cleans up.  A tool call is begun and ends with  *)
(* any of the outcomes of module ToolCalls.  Payloads, sizes and usage    *)
(* are left out; pi-agent-core's loop is external and modelled from how    *)
(* runner.mjs uses it.  An answer that is written is not over: its task    *)
(* waits for the pipe to drain, holding the write lock, and leaves the set *)
(* of pending requests later still, while the worker may already go on.    *)
(***************************************************************************)
EXTENDS Integers, FiniteSets, Sequences

CONSTANTS
    CallIds,          \* ids of the tool calls of one turn
    MaxTurns, MaxToolCalls, MaxParallel,  \* max_turns, max_tool_calls, max_parallel_tools
    MaxPending,       \* MAX_PENDING_REQUESTS
    MaxInterrupts,    \* bound: cancellations of the attempt's task
    MaxSaveFailures   \* bound: saves of a model call that the store refuses

ASSUME PiAssumption ==
    /\ MaxTurns \in Nat \ {0} /\ MaxToolCalls \in Nat \ {0} /\ MaxParallel \in Nat \ {0}
    /\ IsFiniteSet(CallIds)
    /\ MaxPending \in Nat /\ MaxParallel <= MaxPending  \* at most 64 of 128 (PiAgent._run_once)
    /\ MaxInterrupts \in Nat /\ MaxSaveFailures \in Nat

VARIABLES
    node,        \* the worker
    stdout,      \* its records the host has not read
    stdin,       \* the host's records it has not read
    host,        \* PiProcess.run and what it came to
    handlers,    \* request id -> the task that answers it
    active,      \* the attempt's ModelCallRecords, by turn
    stored,      \* their rows: turn -> status
    unfinished,  \* turns without a saved end
    identities,  \* (turn, call) of the tool requests seen
    running,     \* of those, the ones being served
    signal,      \* the run's cancellation event
    interrupts, saveFailures

piVars == <<node, stdout, stdin, host, handlers, active, stored, unfinished, identities,
            running, signal, interrupts, saveFailures>>

Turns == 1..MaxTurns

Started == [type |-> "start", kind |-> "none", call |-> "none"]
Abort == [Started EXCEPT !.type = "abort"]
Response(h) == [type |-> "response", kind |-> h.kind, call |-> h.call]

Failed(stop) == stop \in {"error", "aborted", "length"}

NoNode == [st |-> "off", pc |-> "start", turn |-> 0, used |-> 0, seq |-> 0,
           stop |-> "none", batch |-> [c \in CallIds |-> "none"]]

PiInit ==
    /\ node = NoNode /\ stdout = << >> /\ stdin = << >>
    /\ host = [pc |-> "idle", step |-> "none", end |-> "none", seq |-> 0,
               turns |-> 0, failure |-> FALSE, refused |-> {}, lost |-> FALSE]
    /\ handlers = << >> /\ active = << >> /\ stored = [t \in Turns |-> "none"]
    /\ unfinished = {} /\ identities = {} /\ running = {}
    /\ signal = FALSE /\ interrupts = 0 /\ saveFailures = 0

Asked(batch) == Cardinality({c \in CallIds : batch[c] = "asked"})

-----------------------------------------------------------------------------
(* The worker *)

NodeUnchanged ==
    UNCHANGED <<host, handlers, active, stored, unfinished, identities, running,
                signal, interrupts, saveFailures>>

Requests(n, kind, turn, call, stop) ==
    /\ node' = [n EXCEPT !.seq = @ + 1]
    /\ stdout' = Append(stdout, [type |-> "request", id |-> n.seq + 1, kind |-> kind,
                                 turn |-> turn, call |-> call, stop |-> stop])

\* prepareRequest
NodePrepares ==
    /\ node.st = "up" /\ node.pc = "prepare"
    /\ IF node.turn < MaxTurns
       THEN Requests([node EXCEPT !.pc = "prepared", !.turn = @ + 1],
                     "prepare_request", node.turn + 1, "none", "none")
       ELSE node' = [node EXCEPT !.pc = "failing"] /\ UNCHANGED stdout
    /\ UNCHANGED stdin /\ NodeUnchanged

\* the provider's answer, a timeout included, with any tool calls under any stop reason;
\* message_end asks for the model's record to be closed
NodeModelEnds ==
    /\ node.st = "up" /\ node.pc = "model"
    /\ \E stop \in {"stop", "toolUse", "length", "error"}, wanted \in SUBSET CallIds :
          Requests([node EXCEPT !.pc = "ended", !.stop = stop,
                        !.batch = [c \in CallIds |-> IF c \in wanted THEN "wanted" ELSE "none"]],
                   "model_end", node.turn, "none", stop)
    /\ UNCHANGED stdin /\ NodeUnchanged

Wanted(n) == Cardinality({c \in CallIds : n.batch[c] = "wanted"})

\* the acknowledgement of model_end: the whole batch is checked before any of it runs,
\* under "stop" as under "toolUse"; a message without calls is the last one, and is an
\* answer only under "stop"
AfterModelEnd(n) ==
    IF Failed(n.stop) \/ n.used + Wanted(n) > MaxToolCalls THEN [n EXCEPT !.pc = "failing"]
    ELSE IF Wanted(n) > 0 THEN [n EXCEPT !.pc = "tools", !.used = @ + Wanted(n)]
    ELSE [n EXCEPT !.pc = IF n.stop = "stop" THEN "answering" ELSE "failing"]

\* a line on stdin: the start, a response, or the abort that ends the agent's loop
NodeReads ==
    /\ node.st = "up" /\ stdin # << >>
    /\ stdin' = Tail(stdin)
    /\ node' = CASE Head(stdin).type = "start" -> [node EXCEPT !.pc = "prepare"]
                 [] Head(stdin).type = "abort" ->
                        IF node.pc = "done" THEN node ELSE [node EXCEPT !.pc = "failing"]
                 [] Head(stdin).kind = "prepare_request" /\ node.pc = "prepared" ->
                        [node EXCEPT !.pc = "model"]
                 [] Head(stdin).kind = "model_end" /\ node.pc = "ended" -> AfterModelEnd(node)
                 [] Head(stdin).kind = "tool_call" /\ node.pc = "tools" ->
                        [node EXCEPT !.batch[Head(stdin).call] = "served"]
                 [] OTHER -> node
    /\ UNCHANGED stdout /\ NodeUnchanged

\* withToolSlot and the request for the call
NodeCallsTool(c) ==
    /\ node.st = "up" /\ node.pc = "tools" /\ node.batch[c] = "wanted"
    /\ Asked(node.batch) < MaxParallel
    /\ Requests([node EXCEPT !.batch[c] = "asked"], "tool_call", node.turn, c, "none")
    /\ UNCHANGED stdin /\ NodeUnchanged

\* finishTurn
NodeFinishesTurn ==
    /\ node.st = "up" /\ node.pc = "tools"
    /\ \A c \in CallIds : node.batch[c] \in {"none", "served"}
    /\ node' = [node EXCEPT !.pc = IF node.turn >= MaxTurns THEN "failing" ELSE "prepare"]
    /\ UNCHANGED <<stdout, stdin>> /\ NodeUnchanged

\* the result (unless the answer is empty) or the error code
NodeCompletes ==
    /\ node.st = "up" /\ node.pc \in {"answering", "failing"}
    /\ \E type \in {"result", "error"} :
          /\ type = "result" => node.pc = "answering"
          /\ stdout' = Append(stdout, [type |-> type, id |-> 0, kind |-> "none",
                                       turn |-> node.turn, call |-> "none", stop |-> "none"])
    /\ node' = [node EXCEPT !.pc = "done"]
    /\ UNCHANGED stdin /\ NodeUnchanged

\* the process ends: its work is done, or it crashes
NodeExits ==
    /\ node.st = "up"
    /\ node' = [node EXCEPT !.st = "gone"]
    /\ UNCHANGED <<stdout, stdin>> /\ NodeUnchanged

NodeStep ==
    \/ NodePrepares \/ NodeModelEnds \/ NodeReads \/ NodeFinishesTurn \/ NodeCompletes
    \/ NodeExits \/ \E c \in CallIds : NodeCallsTool(c)

-----------------------------------------------------------------------------
(* The host *)

Ids == DOMAIN handlers

SetHandler(id, h) == handlers' = [i \in Ids \cup {id} |-> IF i = id THEN h ELSE handlers[i]]

DropHandler(id) == handlers' = [i \in Ids \ {id} |-> handlers[i]]

\* the requests whose answer is not written yet; the tasks of the others still drain
\* the pipe ("written") or are done and not discarded yet ("done")
Unanswered == {i \in Ids : handlers[i].st \notin {"written", "done"}}

\* end: how the attempt's reading ended; reasons: why the host refused a record, if it did
ToCleanup(end, reasons) ==
    host' = [host EXCEPT !.pc = "cleanup", !.step = "abort", !.end = end,
                         !.refused = @ \cup reasons]

HostUnchanged ==
    UNCHANGED <<active, stored, unfinished, identities, running, interrupts, saveFailures>>

\* the signal is looked at, then the worker is spawned and told to start
StartWorker ==
    /\ host.pc = "idle"
    /\ \/ /\ ~signal
          /\ node' = [node EXCEPT !.st = "up"]
          /\ stdin' = <<Started>>
          /\ host' = [host EXCEPT !.pc = "reading"]
       \/ /\ host' = [host EXCEPT !.pc = "over", !.end = IF signal THEN "canceled" ELSE "failed"]
          /\ UNCHANGED <<node, stdin>>
    /\ UNCHANGED <<stdout, handlers, signal>> /\ HostUnchanged

\* one line of stdout: a result only when every task is done, an error, or the next
\* request, which gets a task of its own when the set of tasks has room
ReadRecord ==
    LET r == Head(stdout) IN
    /\ host.pc = "reading" /\ ~host.failure /\ stdout # << >>
    /\ stdout' = Tail(stdout)
    /\ \/ /\ r.type = "result"
          /\ IF \A i \in Ids : handlers[i].st = "done"
             THEN host' = [host EXCEPT !.pc = "cleanup", !.step = "abort", !.end = "result",
                                       !.turns = r.turn]
             ELSE ToCleanup("failed", IF Unanswered = {} THEN {"draining"} ELSE {"broken"})
          /\ UNCHANGED handlers
       \/ r.type = "error" /\ ToCleanup("failed", {}) /\ UNCHANGED handlers
       \/ /\ r.type = "request"
          /\ IF r.id = host.seq + 1 /\ Cardinality(Ids) < MaxPending
             THEN /\ host' = [host EXCEPT !.seq = r.id]
                  /\ SetHandler(r.id, [kind |-> r.kind, turn |-> r.turn, call |-> r.call,
                                       stop |-> r.stop, st |-> "new"])
             ELSE /\ ToCleanup("failed",
                               IF r.id = host.seq + 1 /\ Cardinality(Unanswered) < MaxPending
                               THEN {"draining"} ELSE {"broken"})
                  /\ UNCHANGED handlers
    /\ UNCHANGED <<node, stdin, signal>> /\ HostUnchanged

\* the loop ends: the signal, a handler's exception, or the end of stdout
StopReading ==
    /\ host.pc = "reading"
    /\ \/ signal /\ ToCleanup("canceled", {})
       \/ host.failure /\ ToCleanup("failed", {})
       \/ stdout = << >> /\ node.st = "gone" /\ ToCleanup("failed", {})
    /\ UNCHANGED <<node, stdout, stdin, handlers, signal>> /\ HostUnchanged

\* handle() raises in the task of request id: the first exception stops the loop
HandlerRaises(id, reasons) ==
    /\ host' = [host EXCEPT !.failure = TRUE, !.refused = @ \cup reasons]
    /\ DropHandler(id)

Serves(id, st) == SetHandler(id, [handlers[id] EXCEPT !.st = st]) /\ UNCHANGED host

Handling(id, kind) ==
    id \in Ids /\ host.pc = "reading" /\ handlers[id].kind = kind /\ handlers[id].st = "new"

\* variant: a save that fails is only logged
SavesQuietly(id, turn, status) ==
    /\ unfinished' = IF status = "started" THEN unfinished \cup {turn} ELSE unfinished \ {turn}
    /\ Serves(id, "write")
    /\ \/ stored' = [stored EXCEPT ![turn] = status] /\ UNCHANGED saveFailures
       \/ /\ saveFailures < MaxSaveFailures
          /\ saveFailures' = saveFailures + 1
          /\ UNCHANGED stored

\* save_model_call, then what follows it, or the exception of the store
Saves(id, turn, status) ==
    \/ /\ stored' = [stored EXCEPT ![turn] = status]
       /\ unfinished' = IF status = "started" THEN unfinished \cup {turn} ELSE unfinished \ {turn}
       /\ Serves(id, "write")
       /\ UNCHANGED saveFailures
    \/ /\ saveFailures < MaxSaveFailures
       /\ saveFailures' = saveFailures + 1
       /\ unfinished' = IF status = "started" THEN unfinished \cup {turn} ELSE unfinished
       /\ HandlerRaises(id, {})
       /\ UNCHANGED stored

HandlePrepare(id) ==
    /\ Handling(id, "prepare_request")
    /\ \/ /\ handlers[id].turn = Len(active) + 1 /\ unfinished = {} /\ running = {}
          /\ active' = Append(active, [status |-> "started", stop |-> "none"])
          /\ Saves(id, handlers[id].turn, "started")
       \/ /\ ~(handlers[id].turn = Len(active) + 1 /\ unfinished = {} /\ running = {})
          /\ HandlerRaises(id, {"broken"})
          /\ UNCHANGED <<active, stored, unfinished, saveFailures>>
    /\ UNCHANGED <<node, stdout, stdin, identities, running, signal, interrupts>>

HandleModelEnd(id) ==
    LET turn == handlers[id].turn
        status == IF Failed(handlers[id].stop) THEN "failed" ELSE "succeeded"
    IN  /\ Handling(id, "model_end")
        /\ \/ /\ turn \in unfinished /\ active[turn].status = "started"
              /\ active' = [active EXCEPT ![turn] = [status |-> status, stop |-> handlers[id].stop]]
              /\ Saves(id, turn, status)
           \/ /\ ~(turn \in unfinished /\ active[turn].status = "started")
              /\ HandlerRaises(id, {"broken"})
              /\ UNCHANGED <<active, stored, unfinished, saveFailures>>
        /\ UNCHANGED <<node, stdout, stdin, identities, running, signal, interrupts>>

\* the identity of a tool request: of the last turn, whose end is saved; new, and within
\* the budget
ToolRequestInOrder(h) ==
    /\ h.turn = Len(active) /\ h.turn \notin unfinished
    /\ active[h.turn].status = "succeeded"
    /\ <<h.turn, h.call>> \notin identities
    /\ Cardinality(identities) < MaxToolCalls

\* and the turn's model stopped to use tools
ToolRequestValid(h) == ToolRequestInOrder(h) /\ active[h.turn].stop = "toolUse"

HandleToolCall(id) ==
    LET key == <<handlers[id].turn, handlers[id].call>> IN
    /\ Handling(id, "tool_call")
    /\ \/ /\ ToolRequestValid(handlers[id])
          /\ identities' = identities \cup {key} /\ running' = running \cup {key}
          /\ Serves(id, "slot")
       \/ /\ ~ToolRequestValid(handlers[id])
          /\ HandlerRaises(id, IF ToolRequestInOrder(handlers[id])
                               THEN {"stopReason"} ELSE {"broken"})
          /\ UNCHANGED <<identities, running>>
    /\ UNCHANGED <<node, stdout, stdin, active, stored, unfinished, signal,
                   interrupts, saveFailures>>

Serving(id, st) == id \in Ids /\ host.pc = "reading" /\ handlers[id].st = st

\* tool_slots, then PiTools.call
TakeToolSlot(id) ==
    /\ Serving(id, "slot")
    /\ Cardinality({i \in Ids : handlers[i].st = "tool"}) < MaxParallel
    /\ Serves(id, "tool")
    /\ UNCHANGED <<node, stdout, stdin, signal>> /\ HostUnchanged

\* variant: the request is still counted as running when it is answered
ToolCallEndsEarly(id) ==
    /\ Serving(id, "tool")
    /\ Serves(id, "write") \/ HandlerRaises(id, {})
    /\ UNCHANGED <<node, stdout, stdin, signal>> /\ HostUnchanged

\* a result or an ordinary failure is the model's to see; a canceled run, a side effect
\* in doubt and a failure of the infrastructure stop the attempt
ToolCallEnds(id) ==
    /\ Serving(id, "tool")
    /\ Serves(id, "write") \/ HandlerRaises(id, {})
    /\ running' = running \ {<<handlers[id].turn, handlers[id].call>>}
    /\ UNCHANGED <<node, stdout, stdin, active, stored, unfinished, identities, signal,
                   interrupts, saveFailures>>

\* _write under its lock: the response is on the pipe and its task waits for the drain;
\* a response that cannot be encoded raises
WriteResponse(id) ==
    /\ Serving(id, "write")
    /\ \A i \in Ids : handlers[i].st # "written"
    /\ \/ /\ stdin' = IF node.st = "up" THEN Append(stdin, Response(handlers[id])) ELSE stdin
          /\ Serves(id, "written")
       \/ HandlerRaises(id, {}) /\ UNCHANGED stdin
    /\ UNCHANGED <<node, stdout, signal>> /\ HostUnchanged

\* the pipe has drained and the task is done; a worker that is gone may break the pipe
ResponseDrains(id) ==
    /\ Serving(id, "written")
    /\ Serves(id, "done") \/ (node.st = "gone" /\ HandlerRaises(id, {}))
    /\ UNCHANGED <<node, stdout, stdin, signal>> /\ HostUnchanged

\* the done callback takes the task out of the set
DiscardTask(id) ==
    /\ Serving(id, "done")
    /\ DropHandler(id)
    /\ UNCHANGED <<node, stdout, stdin, host, signal>> /\ HostUnchanged

Handle(id) ==
    \/ HandlePrepare(id) \/ HandleModelEnd(id) \/ HandleToolCall(id) \/ TakeToolSlot(id)
    \/ ToolCallEnds(id) \/ WriteResponse(id) \/ ResponseDrains(id) \/ DiscardTask(id)

-----------------------------------------------------------------------------
(* The end of the attempt *)

\* _cleanup cancels the tasks of the open requests; one that waits for a tool ends
\* when the tool acknowledges
CancelHandler(id) ==
    /\ host.pc = "cleanup" /\ id \in Ids
    /\ DropHandler(id)
    /\ running' = running \ {<<handlers[id].turn, handlers[id].call>>}
    /\ UNCHANGED <<node, stdout, stdin, host, active, stored, unfinished, identities, signal,
                   interrupts, saveFailures>>

\* _close: abort and a closed stdin, then SIGTERM, then SIGKILL to the process group
CloseWorker ==
    /\ host.pc = "cleanup" /\ host.step # "reaped"
    /\ \/ /\ host.step = "abort" /\ node.st = "up"
          /\ stdin' = Append(stdin, Abort)
          /\ host' = [host EXCEPT !.step = "wait"]
          /\ UNCHANGED node
       \/ /\ host.step = "wait" /\ node.st = "up"
          /\ node' = IF node.pc = "done" THEN node ELSE [node EXCEPT !.pc = "failing"]
          /\ host' = [host EXCEPT !.step = "term"]
          /\ UNCHANGED stdin
       \/ /\ host.step = "term" \/ node.st = "gone"
          /\ node' = [node EXCEPT !.st = "gone"]
          /\ host' = [host EXCEPT !.step = "reaped"]
          /\ UNCHANGED stdin
    /\ UNCHANGED <<stdout, handlers, signal>> /\ HostUnchanged

CleanupEnds ==
    /\ host.pc = "cleanup" /\ host.step = "reaped" /\ Ids = {}
    /\ host' = [host EXCEPT !.pc = "closing"]
    /\ UNCHANGED <<node, stdout, stdin, handlers, signal>> /\ HostUnchanged

\* variant: the cleanup is awaited without a shield
InterruptUnshielded ==
    /\ interrupts < MaxInterrupts
    /\ interrupts' = interrupts + 1
    /\ \/ host.pc = "reading" /\ ToCleanup("interrupted", {})
       \/ host.pc = "cleanup" /\ host' = [host EXCEPT !.pc = "closing", !.end = "interrupted"]
    /\ UNCHANGED <<node, stdout, stdin, handlers, active, stored, unfinished,
                   identities, running, signal, saveFailures>>

\* the attempt's task is canceled (a timeout, a lost lease, a shutdown), while it
\* reads or while it already cleans up: the cleanup is shielded and goes on
Interrupt ==
    /\ interrupts < MaxInterrupts
    /\ interrupts' = interrupts + 1
    /\ \/ host.pc = "reading" /\ ToCleanup("interrupted", {})
       \/ host.pc = "cleanup" /\ host' = [host EXCEPT !.end = "interrupted"]
    /\ UNCHANGED <<node, stdout, stdin, handlers, active, stored, unfinished,
                   identities, running, signal, saveFailures>>

\* the result agrees with the turns the host has seen
ResultMatches ==
    /\ active # << >> /\ unfinished = {} /\ host.turns = Len(active)
    /\ active[Len(active)] = [status |-> "succeeded", stop |-> "stop"]

\* an exception closes the records of unfinished turns; a save that fails is logged
CloseRecords(rest) ==
    /\ rest \subseteq unfinished
    /\ saveFailures + Cardinality(rest) <= MaxSaveFailures
    /\ saveFailures' = saveFailures + Cardinality(rest)
    /\ stored' = [t \in Turns |-> IF t \in unfinished \ rest THEN "failed" ELSE stored[t]]

\* variant: only Exception is caught, so an interrupted attempt closes nothing
FinishAttemptUncaught ==
    /\ host.pc = "closing"
    /\ \/ /\ host.end = "result" /\ ResultMatches
          /\ host' = [host EXCEPT !.pc = "over", !.end = "succeeded"]
          /\ UNCHANGED <<stored, saveFailures>>
       \/ /\ host.end = "interrupted"
          /\ host' = [host EXCEPT !.pc = "over"]
          /\ UNCHANGED <<stored, saveFailures>>
       \/ \E rest \in SUBSET unfinished :
             /\ host.end # "interrupted"
             /\ CloseRecords(rest)
             /\ host' = [host EXCEPT !.pc = "over", !.lost = rest # {}]
    /\ UNCHANGED <<node, stdout, stdin, handlers, active, unfinished, identities,
                   running, signal, interrupts>>

\* _run_once after process.run: the output, or the exception of the attempt, of a
\* result that does not match, of an output that is not valid
FinishAttempt ==
    /\ host.pc = "closing"
    /\ \/ /\ host.end = "result" /\ ResultMatches
          /\ host' = [host EXCEPT !.pc = "over", !.end = "succeeded"]
          /\ UNCHANGED <<stored, saveFailures>>
       \/ \E rest \in SUBSET unfinished :
             /\ CloseRecords(rest)
             /\ host' = [host EXCEPT !.pc = "over", !.lost = rest # {},
                             !.end = IF host.end = "result" THEN "failed" ELSE @,
                             !.refused = IF host.end = "result" /\ ~ResultMatches
                                         THEN @ \cup {"broken"} ELSE @]
    /\ UNCHANGED <<node, stdout, stdin, handlers, active, unfinished, identities,
                   running, signal, interrupts>>

SetSignal ==
    /\ ~signal
    /\ signal' = TRUE
    /\ UNCHANGED <<node, stdout, stdin, host, handlers>> /\ HostUnchanged

HostStep ==
    \/ StartWorker \/ ReadRecord \/ StopReading \/ CloseWorker \/ CleanupEnds \/ FinishAttempt
    \/ \E id \in Ids : Handle(id) \/ CancelHandler(id)

-----------------------------------------------------------------------------
(* Properties *)

\* When the attempt is over neither the Node worker nor a task of one of its requests
\* is left, whatever stopped it and however often it was canceled on the way
\* (transport.py, "A second cancellation [...] must not orphan Node").
NothingIsLeftBehind ==
    host.pc \in {"closing", "over"} => node.st # "up" /\ Ids = {} /\ running = {}

\* An attempt that is over has no model call left in state started, unless the store
\* refused the very save that should have closed it.
RecordsAreClosed ==
    host.pc = "over" /\ ~host.lost => \A t \in Turns : stored[t] # "started"

\* While a tool runs, the store holds the end of the model turn that asked for it, and
\* no other turn has begun (runner.mjs, "Acknowledgement is a persistence barrier").
ToolsFollowStoredTurns ==
    \A id \in Ids : handlers[id].st = "tool" =>
        /\ stored[handlers[id].turn] = "succeeded"
        /\ \A t \in Turns : stored[t] # "started"

\* The host refuses a record of the repository's own worker for two reasons only: the tasks
\* of answers the worker already has are not over yet, or the model named tools under
\* another stop reason than toolUse.  No order of the worker's requests, of the responses
\* and of the tools' ends breaks the identities, the turn order, the budgets, the number
\* of unanswered requests, or the match of the result with the turns the host has seen.
WorkerKeepsProtocol == "broken" \notin host.refused
=============================================================================
