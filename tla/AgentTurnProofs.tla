--------------------------- MODULE AgentTurnProofs ---------------------------
(***************************************************************************)
(* Proofs about AgentTurn and its components: the Skills of a session, the *)
(* record of a completion, and the Pi worker's protocol with its host.     *)
(***************************************************************************)
EXTENDS AgentTurn, FiniteSetTheorems, TLAPS

(***************************************************************************)
(* Sequences, by their elements.                                           *)
(***************************************************************************)
LEMMA AppendFacts ==
    ASSUME NEW S, NEW s \in Seq(S), NEW e \in S
    PROVE  /\ Append(s, e) \in Seq(S) /\ Len(s) \in Nat /\ Len(Append(s, e)) = Len(s) + 1
           /\ Append(s, e)[Len(s) + 1] = e
           /\ \A i \in 1..Len(s) : Append(s, e)[i] = s[i]
OBVIOUS

LEMMA TailFacts ==
    ASSUME NEW S, NEW s \in Seq(S), s # << >>
    PROVE  /\ Tail(s) \in Seq(S) /\ Len(s) \in Nat \ {0} /\ Len(Tail(s)) = Len(s) - 1
           /\ Head(s) = s[1] /\ Head(s) \in S
           /\ \A i \in 1..Len(Tail(s)) : Tail(s)[i] = s[i + 1] /\ i + 1 \in 1..Len(s)
OBVIOUS

LEMMA ExceptFacts ==
    ASSUME NEW S, NEW s \in Seq(S), NEW n \in 1..Len(s), NEW e \in S
    PROVE  /\ [s EXCEPT ![n] = e] \in Seq(S) /\ Len([s EXCEPT ![n] = e]) = Len(s)
           /\ [s EXCEPT ![n] = e][n] = e
           /\ \A i \in 1..Len(s) : i # n => [s EXCEPT ![n] = e][i] = s[i]
OBVIOUS

(***************************************************************************)
(* The Pi worker and its host.  The protocol is a conversation: what the   *)
(* worker waits for (its pc, its batch of tool calls) is at any time in    *)
(* one of three places only, as a request in stdout, as a handler's task   *)
(* or as a response in stdin, and the host's records stand where that      *)
(* place says.                                                             *)
(***************************************************************************)
Stops == {"none", "stop", "toolUse", "length", "error"}
Kinds == {"prepare_request", "model_end", "tool_call"}
CallNames == CallIds \cup {"none"}
Marks == {"none", "wanted", "asked", "served"}

NodeTypes ==
    [st : {"off", "up", "gone"},
     pc : {"start", "prepare", "prepared", "model", "ended", "tools", "answering", "failing", "done"},
     turn : 0..MaxTurns, used : Nat, seq : Nat, stop : Stops, batch : [CallIds -> Marks]]

\* why the host refuses a record
Reasons == {"draining", "stopReason", "broken"}

\* the tasks that have written their answer
Replied == {"written", "done"}

HostTypes ==
    [pc : {"idle", "reading", "cleanup", "closing", "over"},
     step : {"none", "abort", "wait", "term", "reaped"},
     end : {"none", "result", "failed", "canceled", "interrupted", "succeeded"},
     seq : Nat, turns : 0..MaxTurns, failure : BOOLEAN, refused : SUBSET Reasons, lost : BOOLEAN]

OutRecords ==
    [type : {"request", "result", "error"}, id : Nat, kind : Kinds \cup {"none"},
     turn : 0..MaxTurns, call : CallNames, stop : Stops]

InRecords ==
    [type : {"start", "abort", "response"}, kind : Kinds \cup {"none"}, call : CallNames]

HandlerTypes ==
    [kind : Kinds \cup {"none"}, turn : 0..MaxTurns, call : CallNames, stop : Stops,
     st : {"new", "slot", "tool", "write", "written", "done"}]

CallRecords == [status : {"started", "succeeded", "failed"}, stop : Stops]

PiTypes ==
    /\ node \in NodeTypes /\ host \in HostTypes
    /\ stdout \in Seq(OutRecords) /\ stdin \in Seq(InRecords)
    /\ Ids \subseteq Nat \ {0} /\ \A id \in Ids : handlers[id] \in HandlerTypes
    /\ active \in Seq(CallRecords)
    /\ stored \in [Turns -> {"none", "started", "succeeded", "failed"}]
    /\ unfinished \subseteq 1..Len(active)
    /\ identities \subseteq (0..MaxTurns) \X CallNames /\ running \subseteq (0..MaxTurns) \X CallNames

KeyOf(h) == <<h.turn, h.call>>

\* what the host looks after: its worker, and the requests being served
CareInv ==
    /\ host.pc = "idle" => node.st = "off" /\ Ids = {} /\ unfinished = {} /\ running = {}
    /\ host.pc = "cleanup" /\ host.step = "reaped" => node.st # "up"
    /\ host.pc \in {"closing", "over"} => node.st # "up" /\ Ids = {}
    /\ \A k \in running : \E id \in Ids :
            handlers[id].st \in {"slot", "tool"} /\ KeyOf(handlers[id]) = k
    /\ Ids \subseteq 1..host.seq

\* the stored rows and the records in memory
RowsInv ==
    /\ host.pc # "over" => \A t \in Turns : stored[t] = "started" => t \in unfinished
    /\ host.pc = "over" /\ ~host.lost => \A t \in Turns : stored[t] # "started"

\* what a tool that is being served rests on
ServedInv ==
    /\ unfinished \subseteq {Len(active)} /\ Len(active) <= MaxTurns
    /\ \A t \in 1..Len(active) : t \notin unfinished /\ host.pc = "reading" =>
            stored[t] = active[t].status
    /\ \A id \in Ids : handlers[id].st \in {"slot", "tool"} =>
            /\ unfinished = {}
            /\ handlers[id].turn \in Turns /\ stored[handlers[id].turn] = "succeeded"
            /\ KeyOf(handlers[id]) \in identities
            /\ host.pc = "reading" => KeyOf(handlers[id]) \in running
    /\ \A i, j \in Ids : /\ handlers[i].st \in {"slot", "tool"} /\ handlers[j].st \in {"slot", "tool"}
                         /\ KeyOf(handlers[i]) = KeyOf(handlers[j])
                         => i = j

\* r is what the worker has asked for and is waiting for
Asks(r) ==
    /\ r.turn = node.turn
    /\ \/ node.pc = "prepared" /\ r.kind = "prepare_request" /\ r.call = "none"
       \/ node.pc = "ended" /\ r.kind = "model_end" /\ r.call = "none" /\ r.stop = node.stop
       \/ node.pc = "tools" /\ r.kind = "tool_call" /\ r.call \in CallIds /\ node.batch[r.call] = "asked"

Answers(r) ==
    /\ r.type = "response"
    /\ \/ node.pc = "prepared" /\ r.kind = "prepare_request" /\ r.call = "none"
       \/ node.pc = "ended" /\ r.kind = "model_end" /\ r.call = "none"
       \/ node.pc = "tools" /\ r.kind = "tool_call" /\ r.call \in CallIds /\ node.batch[r.call] = "asked"

Status(stop) == IF Failed(stop) THEN "failed" ELSE "succeeded"

\* where the host stands with turn n of the model
Before(n) == Len(active) = n - 1 /\ unfinished = {}
Open(n) == Len(active) = n /\ unfinished = {n} /\ active[n].status = "started"
Closed(n, stop) ==
    n >= 1 /\ Len(active) = n /\ unfinished = {} /\ active[n] = [status |-> Status(stop), stop |-> stop]

\* a request the host has not looked at, and one it has answered
FreshAsk(r) ==
    /\ node.pc = "prepared" => Before(node.turn)
    /\ node.pc = "ended" => Open(node.turn)
    /\ node.pc = "tools" => KeyOf(r) \notin identities

ServedAsk ==
    /\ node.pc = "prepared" => Open(node.turn)
    /\ node.pc = "ended" => Closed(node.turn, node.stop)

\* each request is in one place
OnePlace ==
    /\ \A i, j \in 1..Len(stdout) : stdout[i].call = stdout[j].call => i = j
    /\ \A i, j \in Unanswered : handlers[i].call = handlers[j].call => i = j
    /\ \A i, j \in 1..Len(stdin) : stdin[i].call = stdin[j].call => i = j
    /\ \A i \in 1..Len(stdout), j \in Unanswered : stdout[i].call # handlers[j].call
    /\ \A i \in 1..Len(stdout), j \in 1..Len(stdin) : stdout[i].call # stdin[j].call
    /\ \A i \in Unanswered, j \in 1..Len(stdin) : handlers[i].call # stdin[j].call

Claims == identities \cup {<<node.turn, c>> : c \in {d \in CallIds : node.batch[d] # "none"}}

\* the budget of tool calls, which the worker counts before any of a batch runs
BudgetInv ==
    /\ \A k \in identities : k[1] <= node.turn
    /\ node.pc \in {"prepared", "model", "ended"} => \A k \in identities : k[1] # node.turn
    /\ IsFiniteSet(identities) /\ Cardinality(identities) <= node.used
    /\ node.pc = "tools" =>
         /\ Cardinality(Claims) <= node.used /\ node.used <= MaxToolCalls
         /\ \A c \in CallIds : node.batch[c] = "wanted" => <<node.turn, c>> \notin identities
    /\ Asked(node.batch) <= MaxParallel

\* the worker's state and the host's
TurnInv ==
    /\ node.pc \in {"prepared", "model", "ended", "tools"} => node.turn >= 1
    /\ node.pc = "start" => node.turn = 0 /\ active = << >> /\ unfinished = {}
    /\ node.pc = "prepare" => Len(active) = node.turn /\ unfinished = {}
    /\ node.pc = "model" => Open(node.turn)
    /\ node.pc = "ended" =>
         node.stop # "none" /\ \A c \in CallIds : node.batch[c] \in {"none", "wanted"}
    /\ node.pc = "tools" => Closed(node.turn, node.stop) /\ ~Failed(node.stop)
    /\ node.pc = "answering" => Closed(node.turn, "stop")

Nothing == stdout = << >> /\ stdin = << >> /\ Unanswered = {}

OutInv ==
    \A i \in 1..Len(stdout) :
        /\ stdout[i].type = "request" /\ stdout[i].id = host.seq + i
        /\ Asks(stdout[i]) /\ FreshAsk(stdout[i])

TaskInv ==
    \A id \in Unanswered :
        /\ Asks(handlers[id])
        /\ handlers[id].st = "new" => FreshAsk(handlers[id])
        /\ handlers[id].st # "new" => ServedAsk
        /\ handlers[id].st \in {"slot", "tool"} => node.pc = "tools"

InInv == \A i \in 1..Len(stdin) : Answers(stdin[i]) /\ ServedAsk

\* the records on the way
WireInv ==
    /\ node.pc = "start" => stdout = << >> /\ stdin = <<Started>> /\ Unanswered = {}
    /\ node.pc \in {"prepare", "model", "answering", "failing"} => Nothing
    /\ node.pc = "done" =>
         /\ stdin = << >> /\ Unanswered = {} /\ Len(stdout) <= 1
         /\ \A i \in 1..Len(stdout) :
               /\ stdout[i].type # "request"
               /\ stdout[i].type = "result" => Closed(stdout[i].turn, "stop")
    /\ node.pc \in {"prepared", "ended", "tools"} => OutInv /\ TaskInv /\ InInv
    /\ node.pc # "done" => node.seq = host.seq + Len(stdout)
    /\ OnePlace

TalkInv ==
    /\ host.pc = "idle" => /\ node = NoNode /\ stdout = << >> /\ active = << >>
                           /\ identities = {} /\ host.seq = 0
    /\ host.pc = "reading" => BudgetInv /\ TurnInv /\ WireInv
    /\ host.end = "result" /\ host.pc \in {"cleanup", "closing"} => ResultMatches
    /\ "broken" \notin host.refused

\* the steps of the worker and of the host; those of the other adapters count an
\* interruption at most
PiSteps ==
    \/ NodeStep \/ HostStep \/ Interrupt \/ SetSignal
    \/ UNCHANGED <<node, stdout, stdin, host, handlers, active, stored, unfinished, identities, running>>

LEMMA PiOnly == [Next]_vars => PiSteps
<1> SUFFICES ASSUME [Next]_vars PROVE PiSteps
  OBVIOUS
<1>1. CASE PiWorker \/ PiHost \/ PiStopped
  BY <1>1 DEF PiWorker, PiHost, PiStopped, PiSteps
<1>2. CASE UNCHANGED vars
  BY <1>2 DEF vars, piVars, PiSteps
<1>3. CASE InterruptCalls
  BY <1>3 DEF InterruptCalls, PiSteps
<1>4. CASE LoadAgent \/ PythonEnds \/ PromptEnds \/ PiEnds \/ PromptCompletes \/ CancelPrompt
  BY <1>4 DEF LoadAgent, PythonEnds, PromptEnds, PiEnds, PromptCompletes, CancelPrompt, piVars, PiSteps
<1>5. CASE ToolTime \/ ToolRunLost \/ Completing \/ ModelReconfigured
  BY <1>5 DEF ToolTime, ToolRunLost, Completing, ModelReconfigured, piVars, PiSteps
<1>6. CASE \E c \in Calls : PythonCalls(c) \/ CancelCalls(c) \/ Tooling(c)
  BY <1>6 DEF PythonCalls, CancelCalls, Tooling, piVars, PiSteps
<1>7. CASE \E s \in Skills : SkillChanged(s) \/ SkillActivated(s)
  BY <1>7 DEF SkillChanged, SkillActivated, piVars, PiSteps
<1> QED
  BY <1>1, <1>2, <1>3, <1>4, <1>5, <1>6, <1>7 DEF Next

\* The worker's steps keep the types.
LEMMA NodeTypesStep ==
    ASSUME PiTypes, NodeStep
    PROVE  PiTypes'
<1> USE PiAssumption
<1>0. UNCHANGED <<host, handlers, active, stored, unfinished, identities, running>>
  BY DEF NodeStep, NodeUnchanged, NodePrepares, NodeModelEnds, NodeReads, NodeCallsTool,
         NodeFinishesTurn, NodeCompletes, NodeExits
<1>1. ASSUME node' \in NodeTypes, stdout' \in Seq(OutRecords), stdin' \in Seq(InRecords)
      PROVE  PiTypes'
  BY <1>0, <1>1 DEF PiTypes, Ids
<1>2. ASSUME NEW n \in NodeTypes, NEW kind \in Kinds, NEW turn \in 0..MaxTurns,
             NEW call \in CallNames, NEW stop \in Stops, Requests(n, kind, turn, call, stop)
      PROVE  node' \in NodeTypes /\ stdout' \in Seq(OutRecords)
  <2>1. n.seq \in Nat /\ node' = [n EXCEPT !.seq = n.seq + 1]
    BY <1>2 DEF Requests, NodeTypes
  <2>2. node' \in NodeTypes
    BY <2>1 DEF NodeTypes
  <2>3. stdout' = Append(stdout, [type |-> "request", id |-> n.seq + 1, kind |-> kind,
                                  turn |-> turn, call |-> call, stop |-> stop])
    BY <1>2 DEF Requests
  <2>4. [type |-> "request", id |-> n.seq + 1, kind |-> kind,
         turn |-> turn, call |-> call, stop |-> stop] \in OutRecords
    BY <2>1 DEF OutRecords
  <2> QED
    BY <2>2, <2>3, <2>4 DEF PiTypes
<1>3. CASE NodePrepares
  <2>1. CASE node.turn < MaxTurns
    <3>0. node.turn \in 0..MaxTurns
      BY DEF PiTypes, NodeTypes
    <3>1. node.turn + 1 \in 0..MaxTurns
      BY <2>1, <3>0
    <3>2. \A m \in 0..MaxTurns : [node EXCEPT !.pc = "prepared", !.turn = m] \in NodeTypes
      BY DEF PiTypes, NodeTypes
    <3>3. [node EXCEPT !.pc = "prepared", !.turn = node.turn + 1] \in NodeTypes
      BY <3>1, <3>2
    <3> QED
      BY <1>1, <1>2, <1>3, <2>1, <3>1, <3>3 DEF NodePrepares, Kinds, CallNames, Stops, PiTypes
  <2>2. CASE ~(node.turn < MaxTurns)
    <3>1. [node EXCEPT !.pc = "failing"] \in NodeTypes
      BY DEF PiTypes, NodeTypes
    <3> QED
      BY <1>1, <1>3, <2>2, <3>1 DEF NodePrepares, PiTypes
  <2> QED
    BY <2>1, <2>2
<1>4. CASE NodeModelEnds
  <2>1. PICK stop \in {"stop", "toolUse", "length", "error"}, wanted \in SUBSET CallIds :
          Requests([node EXCEPT !.pc = "ended", !.stop = stop,
                        !.batch = [c \in CallIds |-> IF c \in wanted THEN "wanted" ELSE "none"]],
                   "model_end", node.turn, "none", stop)
    BY <1>4 DEF NodeModelEnds
  <2>2. [c \in CallIds |-> IF c \in wanted THEN "wanted" ELSE "none"] \in [CallIds -> Marks]
    BY DEF Marks
  <2>3. [node EXCEPT !.pc = "ended", !.stop = stop,
             !.batch = [c \in CallIds |-> IF c \in wanted THEN "wanted" ELSE "none"]] \in NodeTypes
    BY <2>2 DEF PiTypes, NodeTypes, Stops
  <2>4. node.turn \in 0..MaxTurns /\ stop \in Stops
    BY DEF PiTypes, NodeTypes, Stops
  <2>5. node' \in NodeTypes /\ stdout' \in Seq(OutRecords)
    BY <1>2, <2>1, <2>3, <2>4 DEF Kinds, CallNames
  <2> QED
    BY <1>1, <1>4, <2>5 DEF NodeModelEnds, PiTypes
<1>5. CASE NodeReads
  <2>1. stdin' \in Seq(InRecords) /\ Head(stdin) \in InRecords
    BY <1>5 DEF NodeReads, PiTypes
  <2>2. AfterModelEnd(node) \in NodeTypes
    <3>1. Wanted(node) \in Nat
      BY FS_Subset, FS_CardinalityType DEF Wanted
    <3>2. node.used + Wanted(node) \in Nat
      BY <3>1 DEF PiTypes, NodeTypes
    <3>3. /\ \A pc \in {"answering", "failing"} : [node EXCEPT !.pc = pc] \in NodeTypes
          /\ [node EXCEPT !.pc = "tools", !.used = node.used + Wanted(node)] \in NodeTypes
      BY <3>2 DEF PiTypes, NodeTypes
    <3> QED
      BY <3>3 DEF AfterModelEnd
  <2>3. ASSUME NEW c \in CallNames PROVE [node EXCEPT !.batch[c] = "served"] \in NodeTypes
    BY DEF PiTypes, NodeTypes, Marks
  <2>4. Head(stdin).call \in CallNames
    BY <2>1 DEF InRecords
  <2>5. [node EXCEPT !.batch[Head(stdin).call] = "served"] \in NodeTypes
    BY <2>3, <2>4
  <2>6. \A pc \in {"prepare", "failing", "model"} : [node EXCEPT !.pc = pc] \in NodeTypes
    BY DEF PiTypes, NodeTypes
  <2>7. node \in NodeTypes
    BY DEF PiTypes
  <2>8. node' \in NodeTypes
    BY <1>5, <2>2, <2>5, <2>6, <2>7 DEF NodeReads
  <2> QED
    BY <1>1, <1>5, <2>1, <2>8 DEF NodeReads, PiTypes
<1>6. ASSUME NEW c \in CallIds, NodeCallsTool(c) PROVE PiTypes'
  <2>1. [node EXCEPT !.batch[c] = "asked"] \in NodeTypes /\ node.turn \in 0..MaxTurns
    BY DEF PiTypes, NodeTypes, Marks
  <2>2. node' \in NodeTypes /\ stdout' \in Seq(OutRecords)
    BY <1>2, <1>6, <2>1 DEF NodeCallsTool, Kinds, CallNames, Stops
  <2> QED
    BY <1>1, <1>6, <2>2 DEF NodeCallsTool, PiTypes
<1>7. CASE NodeFinishesTurn
  <2>1. \A pc \in {"prepare", "failing"} : [node EXCEPT !.pc = pc] \in NodeTypes
    BY DEF PiTypes, NodeTypes
  <2> QED
    BY <1>1, <1>7, <2>1 DEF NodeFinishesTurn, PiTypes
<1>8. CASE NodeCompletes
  <2>1. [node EXCEPT !.pc = "done"] \in NodeTypes
    BY DEF PiTypes, NodeTypes
  <2>2. \A type \in {"result", "error"} : [type |-> type, id |-> 0, kind |-> "none",
             turn |-> node.turn, call |-> "none", stop |-> "none"] \in OutRecords
    BY DEF OutRecords, PiTypes, NodeTypes, CallNames, Stops
  <2>3. stdout' \in Seq(OutRecords)
    BY <1>8, <2>2 DEF NodeCompletes, PiTypes
  <2> QED
    BY <1>1, <1>8, <2>1, <2>3 DEF NodeCompletes, PiTypes
<1>9. CASE NodeExits
  <2>1. [node EXCEPT !.st = "gone"] \in NodeTypes
    BY DEF PiTypes, NodeTypes
  <2> QED
    BY <1>1, <1>9, <2>1 DEF NodeExits, PiTypes
<1> QED
  BY <1>3, <1>4, <1>5, <1>6, <1>7, <1>8, <1>9 DEF NodeStep

\* What becomes of the handlers.
Sets(id, h) ==
    /\ Ids' = Ids \cup {id} /\ handlers'[id] = h /\ \A i \in Ids \ {id} : handlers'[i] = handlers[i]
    /\ Unanswered' = IF h.st \in Replied THEN Unanswered \ {id} ELSE Unanswered \cup {id}

Drops(id) ==
    /\ Ids' = Ids \ {id} /\ \A i \in Ids \ {id} : handlers'[i] = handlers[i]
    /\ Unanswered' = Unanswered \ {id}

LEMMA HandlerFacts ==
    ASSUME NEW id, NEW h
    PROVE  (SetHandler(id, h) => Sets(id, h)) /\ (DropHandler(id) => Drops(id))
<1>1. ASSUME SetHandler(id, h) PROVE Sets(id, h)
  <2>1. handlers' = [i \in Ids \cup {id} |-> IF i = id THEN h ELSE handlers[i]]
    BY <1>1 DEF SetHandler
  <2>2. Ids' = Ids \cup {id}
    BY <2>1 DEF Ids
  <2>3. handlers'[id] = h /\ \A i \in Ids \ {id} : handlers'[i] = handlers[i]
    BY <2>1
  <2>4. Unanswered' = {i \in Ids' : handlers'[i].st \notin Replied}
    BY DEF Unanswered, Replied
  <2> QED
    BY <2>2, <2>3, <2>4 DEF Sets, Unanswered, Replied
<1>2. ASSUME DropHandler(id) PROVE Drops(id)
  <2>1. handlers' = [i \in Ids \ {id} |-> handlers[i]]
    BY <1>2 DEF DropHandler
  <2>2. Ids' = Ids \ {id}
    BY <2>1 DEF Ids
  <2>3. \A i \in Ids \ {id} : handlers'[i] = handlers[i]
    BY <2>1
  <2>4. Unanswered' = {i \in Ids' : handlers'[i].st \notin Replied}
    BY DEF Unanswered, Replied
  <2> QED
    BY <2>2, <2>3, <2>4 DEF Drops, Unanswered, Replied
<1> QED
  BY <1>1, <1>2

\* a handler's task moves to state st, or raises
Moves(id, st) == /\ host' = host /\ Sets(id, handlers'[id]) /\ handlers'[id].st = st
                 /\ handlers'[id].kind = handlers[id].kind /\ handlers'[id].turn = handlers[id].turn
                 /\ handlers'[id].call = handlers[id].call /\ handlers'[id].stop = handlers[id].stop
                 /\ Ids' = Ids /\ handlers'[id] \in HandlerTypes

RaisesIn(id, reasons) ==
    /\ Drops(id)
    /\ host'.pc = host.pc /\ host'.step = host.step /\ host'.end = host.end /\ host'.seq = host.seq
    /\ host'.refused = host.refused \cup reasons /\ host'.lost = host.lost
    /\ host' \in HostTypes

LEMMA ServeFacts ==
    ASSUME PiTypes, NEW id \in Ids, NEW reasons \in SUBSET Reasons
    PROVE  /\ \A st \in {"slot", "tool", "write", "written", "done"} : Serves(id, st) => Moves(id, st)
           /\ HandlerRaises(id, reasons) => RaisesIn(id, reasons)
<1>0. handlers[id] \in HandlerTypes /\ host \in HostTypes
  BY DEF PiTypes
<1>1. ASSUME NEW st \in {"slot", "tool", "write", "written", "done"}, Serves(id, st) PROVE Moves(id, st)
  <2> DEFINE h == [handlers[id] EXCEPT !.st = st]
  <2>1. /\ h \in HandlerTypes /\ h.st = st
        /\ h.kind = handlers[id].kind /\ h.turn = handlers[id].turn
        /\ h.call = handlers[id].call /\ h.stop = handlers[id].stop
    BY <1>0 DEF HandlerTypes
  <2>2. Sets(id, h) /\ host' = host
    BY <1>1, HandlerFacts DEF Serves
  <2>3. handlers'[id] = h /\ Ids' = Ids
    BY <2>2 DEF Sets
  <2> HIDE DEF h
  <2>4. Sets(id, handlers'[id])
    BY <2>2, <2>3
  <2> QED
    BY <2>1, <2>2, <2>3, <2>4 DEF Moves
<1>2. ASSUME HandlerRaises(id, reasons) PROVE RaisesIn(id, reasons)
  <2>1. Drops(id) /\ host' = [host EXCEPT !.failure = TRUE, !.refused = host.refused \cup reasons]
    BY <1>2, HandlerFacts DEF HandlerRaises
  <2>2. host.refused \cup reasons \in SUBSET Reasons
    BY <1>0 DEF HostTypes
  <2>3. \A x \in SUBSET Reasons : /\ [host EXCEPT !.failure = TRUE, !.refused = x] \in HostTypes
                                  /\ [host EXCEPT !.failure = TRUE, !.refused = x].refused = x
    BY <1>0 DEF HostTypes
  <2>4. host' \in HostTypes /\ host'.refused = host.refused \cup reasons
    BY <2>1, <2>2, <2>3
  <2> QED
    BY <1>0, <2>1, <2>4 DEF RaisesIn, HostTypes
<1> QED
  BY <1>1, <1>2

Saved(id, turn, status) ==
    \/ /\ stored' = [stored EXCEPT ![turn] = status] /\ Moves(id, "write")
       /\ unfinished' = IF status = "started" THEN unfinished \cup {turn} ELSE unfinished \ {turn}
    \/ /\ stored' = stored /\ RaisesIn(id, {})
       /\ unfinished' = IF status = "started" THEN unfinished \cup {turn} ELSE unfinished

LEMMA SaveFacts ==
    ASSUME PiTypes, NEW id \in Ids, NEW turn, NEW status, Saves(id, turn, status)
    PROVE  Saved(id, turn, status)
BY ServeFacts DEF Saves, Saved, Reasons

\* The steps of the handlers' tasks, and what they keep.
HandlerKeeps == UNCHANGED <<node, stdout>> /\ host.pc = "reading"

PrepareServed(id) ==
    /\ HandlerKeeps /\ UNCHANGED <<stdin, identities, running>>
    /\ handlers[id].kind = "prepare_request" /\ handlers[id].st = "new"
    /\ \/ /\ handlers[id].turn = Len(active) + 1 /\ unfinished = {} /\ running = {}
          /\ active' = Append(active, [status |-> "started", stop |-> "none"])
          /\ Saved(id, handlers[id].turn, "started")
       \/ /\ ~(handlers[id].turn = Len(active) + 1 /\ unfinished = {} /\ running = {})
          /\ RaisesIn(id, {"broken"}) /\ UNCHANGED <<active, stored, unfinished>>

ModelEndServed(id) ==
    LET turn == handlers[id].turn
        stop == handlers[id].stop
    IN  /\ HandlerKeeps /\ UNCHANGED <<stdin, identities, running>>
        /\ handlers[id].kind = "model_end" /\ handlers[id].st = "new"
        /\ \/ /\ turn \in unfinished /\ active[turn].status = "started"
              /\ active' = [active EXCEPT ![turn] = [status |-> Status(stop), stop |-> stop]]
              /\ Saved(id, turn, Status(stop))
           \/ /\ ~(turn \in unfinished /\ active[turn].status = "started")
              /\ RaisesIn(id, {"broken"}) /\ UNCHANGED <<active, stored, unfinished>>

ToolCallServed(id) ==
    /\ HandlerKeeps /\ UNCHANGED <<stdin, active, stored, unfinished>>
    /\ handlers[id].kind = "tool_call" /\ handlers[id].st = "new"
    /\ \/ /\ ToolRequestValid(handlers[id]) /\ Moves(id, "slot")
          /\ identities' = identities \cup {KeyOf(handlers[id])}
          /\ running' = running \cup {KeyOf(handlers[id])}
       \/ /\ ~ToolRequestValid(handlers[id]) /\ UNCHANGED <<identities, running>>
          /\ RaisesIn(id, IF ToolRequestInOrder(handlers[id]) THEN {"stopReason"} ELSE {"broken"})

SlotTaken(id) ==
    /\ HandlerKeeps /\ UNCHANGED <<stdin, active, stored, unfinished, identities, running>>
    /\ handlers[id].st = "slot" /\ Moves(id, "tool")

ToolEnded(id) ==
    /\ HandlerKeeps /\ UNCHANGED <<stdin, active, stored, unfinished, identities>>
    /\ handlers[id].st = "tool" /\ (Moves(id, "write") \/ RaisesIn(id, {}))
    /\ running' = running \ {KeyOf(handlers[id])}

ResponseWritten(id) ==
    /\ HandlerKeeps /\ UNCHANGED <<active, stored, unfinished, identities, running>>
    /\ handlers[id].st = "write"
    /\ \/ Moves(id, "written") /\ (stdin' = stdin \/ stdin' = Append(stdin, Response(handlers[id])))
       \/ RaisesIn(id, {}) /\ stdin' = stdin

ResponseOver(id) ==
    /\ HandlerKeeps /\ UNCHANGED <<stdin, active, stored, unfinished, identities, running>>
    /\ handlers[id].st \in Replied
    /\ Moves(id, "done") \/ RaisesIn(id, {}) \/ (host' = host /\ Drops(id))

HandlerShape(id) ==
    \/ PrepareServed(id) \/ ModelEndServed(id) \/ ToolCallServed(id)
    \/ SlotTaken(id) \/ ToolEnded(id) \/ ResponseWritten(id) \/ ResponseOver(id)

LEMMA HandlerShapes ==
    ASSUME PiTypes, NEW id \in Ids, Handle(id)
    PROVE  HandlerShape(id)
<1> USE DEF HandlerKeeps, HostUnchanged, Reasons
<1>1. CASE HandlePrepare(id)
  <2>1. Saves(id, handlers[id].turn, "started") => Saved(id, handlers[id].turn, "started")
    BY SaveFacts
  <2> QED
    BY <1>1, <2>1, ServeFacts DEF HandlePrepare, Handling, PrepareServed, HandlerShape
<1>2. CASE HandleModelEnd(id)
  <2> DEFINE turn == handlers[id].turn
             stop == handlers[id].stop
  <2>1. Saves(id, turn, Status(stop)) => Saved(id, turn, Status(stop))
    BY SaveFacts
  <2> QED
    BY <1>2, <2>1, ServeFacts DEF HandleModelEnd, Handling, ModelEndServed, HandlerShape, Status
<1>3. CASE HandleToolCall(id)
  BY <1>3, ServeFacts DEF HandleToolCall, Handling, ToolCallServed, HandlerShape, KeyOf
<1>4. CASE TakeToolSlot(id)
  BY <1>4, ServeFacts DEF TakeToolSlot, Serving, SlotTaken, HandlerShape
<1>5. CASE ToolCallEnds(id)
  BY <1>5, ServeFacts DEF ToolCallEnds, Serving, ToolEnded, HandlerShape, KeyOf
<1>6. CASE WriteResponse(id)
  BY <1>6, ServeFacts DEF WriteResponse, Serving, ResponseWritten, HandlerShape
<1>7. CASE ResponseDrains(id)
  BY <1>7, ServeFacts DEF ResponseDrains, Serving, ResponseOver, HandlerShape, Replied
<1>8. CASE DiscardTask(id)
  BY <1>8, HandlerFacts DEF DiscardTask, Serving, ResponseOver, HandlerShape, Replied
<1> QED
  BY <1>1, <1>2, <1>3, <1>4, <1>5, <1>6, <1>7, <1>8 DEF Handle

LEMMA HandlerTypesStep ==
    ASSUME PiTypes, NEW id \in Ids, HandlerShape(id)
    PROVE  PiTypes'
<1> USE PiAssumption
<1>0. /\ handlers[id] \in HandlerTypes /\ KeyOf(handlers[id]) \in (0..MaxTurns) \X CallNames
      /\ node' = node /\ stdout' = stdout
  BY DEF PiTypes, HandlerShape, PrepareServed, ModelEndServed, ToolCallServed, SlotTaken, ToolEnded,
         ResponseWritten, ResponseOver, HandlerKeeps, HandlerTypes, KeyOf
<1>1. ASSUME (\E st : Moves(id, st)) \/ (\E x : RaisesIn(id, x))
      PROVE  host' \in HostTypes /\ Ids' \subseteq Nat \ {0} /\ \A i \in Ids' : handlers'[i] \in HandlerTypes
  BY <1>1 DEF Moves, RaisesIn, Sets, Drops, PiTypes
<1>2. ASSUME NEW turn \in Turns, NEW status \in {"started", "succeeded", "failed"}, Saved(id, turn, status)
      PROVE  stored' \in [Turns -> {"none", "started", "succeeded", "failed"}]
  BY <1>2 DEF Saved, PiTypes
<1>3. CASE PrepareServed(id)
  <2>1. CASE /\ handlers[id].turn = Len(active) + 1
             /\ active' = Append(active, [status |-> "started", stop |-> "none"])
             /\ Saved(id, handlers[id].turn, "started")
    <3>1. handlers[id].turn \in Turns
      BY <1>0, <2>1 DEF HandlerTypes, Turns, PiTypes
    <3>2. active' \in Seq(CallRecords) /\ Len(active') = Len(active) + 1
      BY <2>1 DEF PiTypes, CallRecords, Stops
    <3>3. unfinished' = unfinished \cup {handlers[id].turn}
      BY <2>1 DEF Saved
    <3>4. unfinished' \subseteq 1..Len(active')
      <4>1. Len(active) \in Nat /\ unfinished \subseteq 1..Len(active)
        BY DEF PiTypes
      <4>2. ASSUME NEW n \in Nat, unfinished \subseteq 1..n PROVE unfinished \cup {n + 1} \subseteq 1..(n + 1)
        BY <4>2
      <4>3. unfinished' = unfinished \cup {Len(active) + 1}
        BY <2>1, <3>3
      <4> QED
        BY <3>2, <4>1, <4>2, <4>3
    <3> QED
      BY <1>0, <1>1, <1>2, <1>3, <2>1, <3>1, <3>2, <3>4 DEF PrepareServed, Saved, PiTypes
  <2> QED
    BY <1>0, <1>1, <1>3, <2>1 DEF PrepareServed, PiTypes
<1>4. CASE ModelEndServed(id)
  <2> DEFINE turn == handlers[id].turn
             stop == handlers[id].stop
  <2>1. CASE /\ turn \in unfinished
             /\ active' = [active EXCEPT ![turn] = [status |-> Status(stop), stop |-> stop]]
             /\ Saved(id, turn, Status(stop))
    <3>1. Status(stop) \in {"succeeded", "failed"} /\ stop \in Stops
      BY <1>0 DEF Status, HandlerTypes
    <3> DEFINE e == [status |-> Status(stop), stop |-> stop]
    <3>0. e \in CallRecords
      BY <3>1 DEF CallRecords
    <3>2. active' \in Seq(CallRecords) /\ Len(active') = Len(active)
      <4> HIDE DEF e
      <4>1. active' = [active EXCEPT ![turn] = e] /\ turn \in 1..Len(active)
        BY <2>1 DEF PiTypes, e
      <4> QED
        BY <3>0, <4>1, ExceptFacts DEF PiTypes
    <3>3. unfinished' \subseteq unfinished
      BY <2>1, <3>1 DEF Saved
    <3>4. turn \in Turns
      BY <1>0, <2>1 DEF PiTypes, HandlerTypes, Turns
    <3>5. stored' \in [Turns -> {"none", "started", "succeeded", "failed"}]
      BY <1>2, <2>1, <3>1, <3>4
    <3> QED
      BY <1>0, <1>1, <1>4, <2>1, <3>2, <3>3, <3>5 DEF ModelEndServed, Saved, PiTypes
  <2> QED
    BY <1>0, <1>1, <1>4, <2>1 DEF ModelEndServed, PiTypes
<1>5. CASE ToolCallServed(id)
  BY <1>0, <1>1, <1>5 DEF ToolCallServed, PiTypes
<1>6. CASE SlotTaken(id) \/ ToolEnded(id)
  BY <1>0, <1>1, <1>6 DEF SlotTaken, ToolEnded, PiTypes
<1>7. CASE ResponseWritten(id)
  <2>1. Response(handlers[id]) \in InRecords
    BY <1>0 DEF Response, InRecords, HandlerTypes
  <2>2. stdin' \in Seq(InRecords)
    <3>1. stdin \in Seq(InRecords)
      BY DEF PiTypes
    <3>2. stdin' = stdin \/ stdin' = Append(stdin, Response(handlers[id]))
      BY <1>7 DEF ResponseWritten
    <3> QED
      BY <2>1, <3>1, <3>2, AppendFacts
  <2>3. host' \in HostTypes /\ Ids' \subseteq Nat \ {0} /\ \A i \in Ids' : handlers'[i] \in HandlerTypes
    BY <1>1, <1>7 DEF ResponseWritten
  <2> QED
    BY <1>0, <1>7, <2>2, <2>3 DEF ResponseWritten, PiTypes
<1>8. CASE ResponseOver(id)
  <2>1. host' \in HostTypes /\ Ids' \subseteq Nat \ {0} /\ \A i \in Ids' : handlers'[i] \in HandlerTypes
    <3>1. CASE host' = host /\ Drops(id)
      BY <3>1 DEF Drops, PiTypes
    <3> QED
      BY <1>1, <1>8, <3>1 DEF ResponseOver
  <2> QED
    BY <1>0, <1>8, <2>1 DEF ResponseOver, PiTypes
<1> QED
  BY <1>3, <1>4, <1>5, <1>6, <1>7, <1>8 DEF HandlerShape

\* The host's other steps.
Still == UNCHANGED <<active, stored, unfinished, identities, running>>

ToEnd(end, reasons) ==
    /\ host'.pc = "cleanup" /\ host'.step = "abort" /\ host'.end = end /\ host'.seq = host.seq
    /\ host'.refused = host.refused \cup reasons /\ host'.lost = host.lost

WorkerStarted ==
    /\ host.pc = "idle" /\ Still /\ UNCHANGED <<stdout, handlers>>
    /\ host'.seq = host.seq /\ host'.refused = host.refused /\ host'.lost = host.lost
    /\ \/ host'.pc = "reading" /\ node' = [node EXCEPT !.st = "up"] /\ stdin' = <<Started>>
       \/ host'.pc = "over" /\ UNCHANGED <<node, stdin>>

HandlerOf(r) == [kind |-> r.kind, turn |-> r.turn, call |-> r.call, stop |-> r.stop, st |-> "new"]

RecordRead ==
    LET r == Head(stdout) IN
    /\ host.pc = "reading" /\ stdout # << >> /\ stdout' = Tail(stdout)
    /\ UNCHANGED <<node, stdin>> /\ Still
    /\ \/ /\ r.type = "result" /\ handlers' = handlers
          /\ \/ ToEnd("result", {}) /\ host'.turns = r.turn
             \/ \E x \in SUBSET Reasons : ToEnd("failed", x) /\ ("broken" \in x => Unanswered # {})
       \/ r.type = "error" /\ handlers' = handlers /\ ToEnd("failed", {})
       \/ /\ r.type = "request" /\ r.id = host.seq + 1 /\ Sets(r.id, HandlerOf(r))
          /\ host'.seq = r.id /\ host'.pc = host.pc /\ host'.step = host.step /\ host'.end = host.end
          /\ host'.refused = host.refused /\ host'.lost = host.lost
       \/ /\ r.type = "request" /\ handlers' = handlers
          /\ \E x \in SUBSET Reasons :
                /\ ToEnd("failed", x)
                /\ "broken" \in x => ~(r.id = host.seq + 1 /\ Cardinality(Unanswered) < MaxPending)

ReadingStopped ==
    /\ host.pc = "reading" /\ UNCHANGED <<node, stdout, stdin, handlers>> /\ Still
    /\ \E end \in {"canceled", "failed", "interrupted"} : ToEnd(end, {})

HandlerCanceled(id) ==
    /\ host.pc = "cleanup" /\ host' = host /\ Drops(id) /\ UNCHANGED <<node, stdout, stdin>>
    /\ running' = running \ {KeyOf(handlers[id])}
    /\ UNCHANGED <<active, stored, unfinished, identities>>

WorkerClosed ==
    /\ host.pc = "cleanup" /\ host.step # "reaped" /\ UNCHANGED <<stdout, handlers>> /\ Still
    /\ host'.pc = host.pc /\ host'.end = host.end /\ host'.seq = host.seq
    /\ host'.refused = host.refused /\ host'.lost = host.lost /\ host'.turns = host.turns
    /\ host'.step = "reaped" => node'.st # "up"

InterruptedAgain ==
    /\ host.pc = "cleanup" /\ UNCHANGED <<node, stdout, stdin, handlers>> /\ Still
    /\ host'.end = "interrupted"
    /\ host'.pc = host.pc /\ host'.step = host.step /\ host'.seq = host.seq
    /\ host'.refused = host.refused /\ host'.lost = host.lost

CleanedUp ==
    /\ host.pc = "cleanup" /\ host.step = "reaped" /\ Ids = {}
    /\ UNCHANGED <<node, stdout, stdin, handlers>> /\ Still
    /\ host'.pc = "closing" /\ host'.end = host.end /\ host'.step = host.step /\ host'.seq = host.seq
    /\ host'.turns = host.turns
    /\ host'.refused = host.refused /\ host'.lost = host.lost

Finished ==
    /\ host.pc = "closing" /\ host'.pc = "over" /\ host'.seq = host.seq
    /\ UNCHANGED <<node, stdout, stdin, handlers, active, unfinished, identities, running>>
    /\ \/ host.end = "result" /\ ResultMatches /\ stored' = stored /\ host'.refused = host.refused
       \/ \E rest \in SUBSET unfinished :
             /\ stored' = [t \in Turns |-> IF t \in unfinished \ rest THEN "failed" ELSE stored[t]]
             /\ host'.lost = (rest # {})
             /\ "broken" \in host'.refused =>
                    "broken" \in host.refused \/ (host.end = "result" /\ ~ResultMatches)

Quiet == UNCHANGED <<node, stdout, stdin, host, handlers>> /\ Still

HostShape ==
    \/ WorkerStarted \/ RecordRead \/ ReadingStopped \/ WorkerClosed \/ InterruptedAgain
    \/ CleanedUp \/ Finished \/ Quiet \/ \E id \in Ids : HandlerShape(id) \/ HandlerCanceled(id)

\* Every step of the host has its shape and keeps the types.
LEMMA HostShapes ==
    ASSUME PiTypes, HostStep \/ Interrupt \/ SetSignal
    PROVE  PiTypes' /\ HostShape
<1> USE PiAssumption DEF HostUnchanged
<1>0. host \in HostTypes /\ node \in NodeTypes
  BY DEF PiTypes
<1>1. ASSUME NEW end \in {"failed", "canceled", "interrupted"}, NEW reasons \in SUBSET Reasons,
             ToCleanup(end, reasons)
      PROVE  ToEnd(end, reasons) /\ host' \in HostTypes
  <2>1. host' = [host EXCEPT !.pc = "cleanup", !.step = "abort", !.end = end, !.refused = host.refused \cup reasons]
    BY <1>1 DEF ToCleanup
  <2>2. host.refused \cup reasons \in SUBSET Reasons
    BY <1>0 DEF HostTypes
  <2>3. ASSUME NEW x \in SUBSET Reasons,
               host' = [host EXCEPT !.pc = "cleanup", !.step = "abort", !.end = end, !.refused = x]
        PROVE  /\ host' \in HostTypes /\ host'.refused = x /\ host'.pc = "cleanup" /\ host'.step = "abort"
               /\ host'.end = end /\ host'.seq = host.seq /\ host'.lost = host.lost
    BY <1>0, <2>3 DEF HostTypes
  <2> QED
    BY <2>1, <2>2, <2>3 DEF ToEnd
<1>2. CASE StartWorker
  <2>1. /\ \A pc \in {"reading"} : [host EXCEPT !.pc = pc] \in HostTypes
        /\ \A end \in {"canceled", "failed"} : [host EXCEPT !.pc = "over", !.end = end] \in HostTypes
        /\ [node EXCEPT !.st = "up"] \in NodeTypes /\ Started \in InRecords
    BY <1>0 DEF HostTypes, NodeTypes, Started, InRecords, CallNames
  <2>2. WorkerStarted
    BY <1>0, <1>2 DEF StartWorker, WorkerStarted, Still, HostTypes
  <2>3. host' \in HostTypes /\ node' \in NodeTypes /\ stdin' \in Seq(InRecords)
    <3>1. <<Started>> \in Seq(InRecords)
      BY <2>1
    <3> QED
      BY <1>2, <2>1, <3>1 DEF StartWorker, PiTypes
  <2> QED
    BY <2>2, <2>3 DEF WorkerStarted, Still, PiTypes, Ids, HostShape
<1>3. CASE ReadRecord
  <2> DEFINE r == Head(stdout)
  <2>1. r \in OutRecords /\ Tail(stdout) \in Seq(OutRecords)
    BY <1>3, TailFacts DEF ReadRecord, PiTypes
  <2>2. /\ host.pc = "reading" /\ stdout # << >> /\ stdout' = Tail(stdout) /\ UNCHANGED <<node, stdin>> /\ Still
    BY <1>3 DEF ReadRecord, Still
  <2>3. HandlerOf(r) \in HandlerTypes /\ r.id \in Nat
    BY <2>1 DEF HandlerOf, HandlerTypes, OutRecords
  <2>4. CASE /\ r.type = "request" /\ r.id = host.seq + 1
             /\ host' = [host EXCEPT !.seq = r.id] /\ SetHandler(r.id, HandlerOf(r))
    <3>1. Sets(r.id, HandlerOf(r))
      BY <2>4, HandlerFacts
    <3>2. /\ host' \in HostTypes /\ host'.seq = r.id /\ host'.pc = host.pc /\ host'.step = host.step
          /\ host'.end = host.end /\ host'.refused = host.refused /\ host'.lost = host.lost
      BY <1>0, <2>3, <2>4 DEF HostTypes
    <3>3. r.id \in Nat \ {0}
      BY <1>0, <2>4 DEF HostTypes
    <3>4. Ids' \subseteq Nat \ {0} /\ \A i \in Ids' : handlers'[i] \in HandlerTypes
      BY <2>3, <3>1, <3>3 DEF Sets, PiTypes
    <3>5. PiTypes'
      BY <2>1, <2>2, <3>2, <3>4 DEF PiTypes, Still
    <3>6. RecordRead
      BY <2>2, <2>4, <3>1, <3>2 DEF RecordRead
    <3> QED
      BY <3>5, <3>6 DEF HostShape
  <2>5. CASE /\ handlers' = handlers
             /\ \/ r.type = "error" /\ ToCleanup("failed", {})
                \/ /\ r.type = "result"
                   /\ ToCleanup("failed", IF Unanswered = {} THEN {"draining"} ELSE {"broken"})
                \/ /\ r.type = "request"
                   /\ ToCleanup("failed", IF r.id = host.seq + 1 /\ Cardinality(Unanswered) < MaxPending
                                          THEN {"draining"} ELSE {"broken"})
    <3>1. {} \in SUBSET Reasons /\ {"draining"} \in SUBSET Reasons /\ {"broken"} \in SUBSET Reasons
      BY DEF Reasons
    <3>2. PICK x \in SUBSET Reasons :
            /\ ToCleanup("failed", x)
            /\ \/ r.type = "error" /\ x = {}
               \/ r.type = "result" /\ ("broken" \in x => Unanswered # {})
               \/ /\ r.type = "request"
                  /\ "broken" \in x => ~(r.id = host.seq + 1 /\ Cardinality(Unanswered) < MaxPending)
      BY <2>5, <3>1
    <3>3. ToEnd("failed", x) /\ host' \in HostTypes
      BY <1>1, <3>2
    <3>4. RecordRead
      BY <2>2, <2>5, <3>2, <3>3 DEF RecordRead
    <3> QED
      BY <2>1, <2>2, <2>5, <3>3, <3>4 DEF PiTypes, Still, Ids, HostShape
  <2>6. CASE /\ handlers' = handlers /\ r.type = "result"
             /\ host' = [host EXCEPT !.pc = "cleanup", !.step = "abort", !.end = "result", !.turns = r.turn]
    <3>1. r.turn \in 0..MaxTurns
      BY <2>1 DEF OutRecords
    <3>2. ToEnd("result", {}) /\ host'.turns = r.turn /\ host' \in HostTypes
      BY <1>0, <2>6, <3>1 DEF ToEnd, HostTypes
    <3>3. RecordRead
      BY <2>2, <2>6, <3>2 DEF RecordRead
    <3> QED
      BY <2>1, <2>2, <2>6, <3>2, <3>3 DEF PiTypes, Still, Ids, HostShape
  <2> QED
    BY <1>3, <2>4, <2>5, <2>6 DEF ReadRecord, HandlerOf
<1>4. CASE StopReading \/ (Interrupt /\ host.pc = "reading")
  <2>1. ReadingStopped /\ host' \in HostTypes
    BY <1>1, <1>4 DEF StopReading, Interrupt, ReadingStopped, Still, Reasons
  <2> QED
    BY <2>1 DEF ReadingStopped, Still, PiTypes, Ids, HostShape
<1>5. CASE Interrupt /\ host.pc # "reading"
  <2>1. InterruptedAgain /\ host' \in HostTypes
    BY <1>0, <1>5 DEF Interrupt, InterruptedAgain, Still, HostTypes
  <2> QED
    BY <2>1 DEF InterruptedAgain, Still, PiTypes, Ids, HostShape
<1>6. CASE SetSignal
  BY <1>6 DEF SetSignal, Quiet, Still, PiTypes, Ids, HostShape
<1>7. CASE CloseWorker
  <2>1. Abort \in InRecords
    BY DEF Abort, Started, InRecords, CallNames
  <2>2. stdin' \in Seq(InRecords)
    <3>1. stdin \in Seq(InRecords)
      BY DEF PiTypes
    <3>2. stdin' = stdin \/ stdin' = Append(stdin, Abort)
      BY <1>7 DEF CloseWorker
    <3> QED
      BY <2>1, <3>1, <3>2, AppendFacts
  <2>3. node' \in NodeTypes /\ host' \in HostTypes
    <3>1. \A step \in {"wait", "term", "reaped"} : [host EXCEPT !.step = step] \in HostTypes
      BY <1>0 DEF HostTypes
    <3>2. [node EXCEPT !.st = "gone"] \in NodeTypes /\ [node EXCEPT !.pc = "failing"] \in NodeTypes
      BY <1>0 DEF NodeTypes
    <3> QED
      BY <1>0, <1>7, <3>1, <3>2 DEF CloseWorker
  <2>4. WorkerClosed
    BY <1>0, <1>7, SMTT(30) DEF CloseWorker, WorkerClosed, Still, HostTypes, NodeTypes
  <2> QED
    BY <2>2, <2>3, <2>4 DEF WorkerClosed, Still, PiTypes, Ids, HostShape
<1>8. CASE CleanupEnds
  <2>1. CleanedUp /\ host' \in HostTypes
    BY <1>0, <1>8 DEF CleanupEnds, CleanedUp, Still, HostTypes
  <2> QED
    BY <2>1 DEF CleanedUp, Still, PiTypes, Ids, HostShape
<1>9. CASE FinishAttempt
  <2>1. ASSUME host.end = "result", ResultMatches, host' = [host EXCEPT !.pc = "over", !.end = "succeeded"],
               stored' = stored
        PROVE  Finished /\ host' \in HostTypes
    BY <1>0, <1>9, <2>1 DEF FinishAttempt, Finished, HostTypes
  <2>2. ASSUME NEW rest \in SUBSET unfinished, CloseRecords(rest),
               host' = [host EXCEPT !.pc = "over", !.lost = rest # {},
                             !.end = IF host.end = "result" THEN "failed" ELSE @,
                             !.refused = IF host.end = "result" /\ ~ResultMatches
                                         THEN @ \cup {"broken"} ELSE @]
        PROVE  Finished /\ host' \in HostTypes
    <3> DEFINE x == rest # {}
               y == IF host.end = "result" /\ ~ResultMatches THEN host.refused \cup {"broken"} ELSE host.refused
               z == IF host.end = "result" THEN "failed" ELSE host.end
    <3>1. x \in BOOLEAN /\ y \in SUBSET Reasons
      BY <1>0 DEF HostTypes, Reasons
    <3>2. z \in {"none", "result", "failed", "canceled", "interrupted", "succeeded"}
      BY <1>0 DEF HostTypes
    <3>3. host' = [host EXCEPT !.pc = "over", !.lost = x, !.end = z, !.refused = y]
      BY <2>2
    <3>4. "broken" \in y => "broken" \in host.refused \/ (host.end = "result" /\ ~ResultMatches)
      OBVIOUS
    <3> HIDE DEF x, y, z
    <3>5. /\ host' \in HostTypes /\ host'.pc = "over" /\ host'.lost = x /\ host'.refused = y
          /\ host'.seq = host.seq
      BY <1>0, <3>1, <3>2, <3>3 DEF HostTypes
    <3>6. "broken" \in host'.refused => "broken" \in host.refused \/ (host.end = "result" /\ ~ResultMatches)
      BY <3>4, <3>5
    <3> QED
      BY <1>9, <2>2, <3>5, <3>6 DEF FinishAttempt, Finished, CloseRecords, x
  <2>3. Finished /\ host' \in HostTypes
    BY <1>9, <2>1, <2>2 DEF FinishAttempt
  <2>4. stored' \in [Turns -> {"none", "started", "succeeded", "failed"}]
    BY <2>3 DEF Finished, PiTypes
  <2> QED
    BY <2>3, <2>4 DEF Finished, PiTypes, Ids, HostShape
<1>10. ASSUME NEW id \in Ids, Handle(id) PROVE PiTypes' /\ HostShape
  BY <1>10, HandlerShapes, HandlerTypesStep DEF HostShape
<1>11. ASSUME NEW id \in Ids, CancelHandler(id) PROVE PiTypes' /\ HostShape
  <2>1. HandlerCanceled(id)
    BY <1>11, HandlerFacts DEF CancelHandler, HandlerCanceled, KeyOf
  <2> QED
    BY <2>1 DEF HandlerCanceled, Drops, PiTypes, HostShape
<1> QED
  BY <1>2, <1>3, <1>4, <1>5, <1>6, <1>7, <1>8, <1>9, <1>10, <1>11 DEF HostStep

\* The types of the worker and the host.
LEMMA PiTypesHold == Spec => []PiTypes
<1>1. Init => PiTypes
  <2> SUFFICES ASSUME Init PROVE PiTypes
    OBVIOUS
  <2> USE PiAssumption DEF Init, PiInit
  <2>1. node \in NodeTypes
    BY DEF NoNode, NodeTypes, Stops, Marks
  <2>2. host \in HostTypes
    BY DEF HostTypes
  <2>3. Ids = {}
    BY DEF Ids
  <2>4. active \in Seq(CallRecords) /\ stdout \in Seq(OutRecords) /\ stdin \in Seq(InRecords)
    OBVIOUS
  <2> QED
    BY <2>1, <2>2, <2>3, <2>4 DEF PiTypes
<1>2. PiTypes /\ [Next]_vars => PiTypes'
  <2> SUFFICES ASSUME PiTypes, PiSteps PROVE PiTypes'
    BY PiOnly
  <2> QED
    BY NodeTypesStep, HostShapes DEF PiSteps, PiTypes, Ids
<1> QED
  BY <1>1, <1>2, PTL DEF Spec

\* One step, as the invariants see it.
LEMMA PiShapes ==
    ASSUME PiTypes, [Next]_vars
    PROVE  PiTypes' /\ (NodeStep \/ HostShape)
<1>1. PiSteps
  BY PiOnly
<1>2. CASE NodeStep
  BY <1>2, NodeTypesStep
<1>3. CASE HostStep \/ Interrupt \/ SetSignal
  BY <1>3, HostShapes
<1>4. CASE UNCHANGED <<node, stdout, stdin, host, handlers, active, stored, unfinished, identities, running>>
  BY <1>4 DEF PiTypes, Ids, HostShape, Quiet, Still
<1> QED
  BY <1>1, <1>2, <1>3, <1>4 DEF PiSteps

\* what a step of the worker leaves alone
LEMMA NodeLeaves ==
    NodeStep => /\ node.st = "up"
                /\ UNCHANGED <<host, handlers, Ids, Unanswered, active, stored, unfinished, identities, running>>
BY DEF NodeStep, NodeUnchanged, NodePrepares, NodeModelEnds, NodeReads, NodeCallsTool,
       NodeFinishesTurn, NodeCompletes, NodeExits, Ids, Unanswered

\* a request that is read becomes a handler's task of its own
Taken(id, h) ==
    /\ Ids' = Ids \cup {id} /\ id \notin Ids /\ handlers'[id] = h
    /\ \A i \in Ids : handlers'[i] = handlers[i]
    /\ Unanswered' = Unanswered \cup {id}

LEMMA ReadTakes ==
    ASSUME PiTypes, CareInv, RecordRead
    PROVE  /\ host.pc = "reading" /\ Still /\ stdin' = stdin /\ node' = node
           /\ \/ /\ host'.pc = "reading" /\ host'.seq = host.seq + 1
                 /\ Taken(host.seq + 1, HandlerOf(Head(stdout)))
                 /\ host'.refused = host.refused
              \/ /\ host'.pc = "cleanup" /\ host'.step = "abort" /\ host'.seq = host.seq
                 /\ handlers' = handlers
<1>1. host.seq + 1 \notin Ids
  <2>1. host.seq \in Nat
    BY DEF PiTypes, HostTypes
  <2> QED
    BY <2>1 DEF CareInv
<1> QED
  BY <1>1 DEF RecordRead, ToEnd, Sets, Taken, HandlerOf, Replied

\* what the handlers' tasks leave alone
LEMMA HandlerLeaves ==
    ASSUME NEW id \in Ids, HandlerShape(id)
    PROVE  /\ host.pc = "reading" /\ host'.pc = "reading" /\ host'.seq = host.seq /\ host'.lost = host.lost
           /\ node' = node /\ stdout' = stdout
           /\ \/ Ids' = Ids /\ (\A i \in Ids \ {id} : handlers'[i] = handlers[i])
              \/ Drops(id)
BY DEF HandlerShape, PrepareServed, ModelEndServed, ToolCallServed, SlotTaken, ToolEnded,
       ResponseWritten, ResponseOver, HandlerKeeps, Saved, Moves, RaisesIn, Sets

LEMMA CareStep ==
    ASSUME PiTypes, CareInv, [Next]_vars
    PROVE  CareInv'
<1>1. PiTypes' /\ (NodeStep \/ HostShape)
  BY PiShapes
<1>2. CASE NodeStep
  BY <1>2, NodeLeaves DEF CareInv
<1>3. CASE WorkerStarted
  BY <1>3 DEF WorkerStarted, Still, CareInv, Ids
<1>4. CASE RecordRead
  <2>1. CASE host'.pc = "reading" /\ host'.seq = host.seq + 1 /\ Taken(host.seq + 1, HandlerOf(Head(stdout)))
    <3>1. host.seq \in Nat
      BY DEF PiTypes, HostTypes
    <3>2. Ids' \subseteq 1..host'.seq
      <4>1. ASSUME NEW n \in Nat, NEW S, S \subseteq 1..n PROVE S \cup {n + 1} \subseteq 1..(n + 1)
        BY <4>1
      <4>2. Ids \subseteq 1..host.seq /\ Ids' = Ids \cup {host.seq + 1}
        BY <2>1 DEF CareInv, Taken
      <4> QED
        BY <2>1, <3>1, <4>1, <4>2
    <3> QED
      BY <1>4, <2>1, <3>2, ReadTakes DEF CareInv, Taken, Still
  <2>2. CASE host'.pc = "cleanup" /\ host'.step = "abort" /\ host'.seq = host.seq /\ handlers' = handlers
    BY <1>4, <2>2, ReadTakes DEF CareInv, Still, Ids
  <2> QED
    BY <1>4, <2>1, <2>2, ReadTakes
<1>5. CASE ReadingStopped \/ InterruptedAgain \/ CleanedUp \/ Quiet
  BY <1>5 DEF ReadingStopped, InterruptedAgain, CleanedUp, Quiet, ToEnd, Still, CareInv, Ids
<1>6. CASE WorkerClosed
  BY <1>6 DEF WorkerClosed, Still, CareInv, Ids
<1>7. CASE Finished
  <2>1. host'.seq = host.seq
    BY <1>7 DEF Finished
  <2> QED
    BY <1>7, <2>1 DEF Finished, CareInv, Ids
<1>8. ASSUME NEW id \in Ids, HandlerShape(id) PROVE CareInv'
  <2>1. /\ host.pc = "reading" /\ host'.pc = "reading" /\ host'.seq = host.seq
        /\ Ids' \subseteq Ids /\ (Ids' = Ids \/ Ids' = Ids \ {id})
        /\ \A i \in Ids \ {id} : handlers'[i] = handlers[i]
    BY <1>8, HandlerLeaves DEF Drops
  <2>2. ASSUME NEW k \in running'
        PROVE  \E i \in Ids' : handlers'[i].st \in {"slot", "tool"} /\ KeyOf(handlers'[i]) = k
    <3>1. CASE handlers[id].st \in {"new", "write", "written", "done"} /\ running' = running
      <4>1. PICK i \in Ids : handlers[i].st \in {"slot", "tool"} /\ KeyOf(handlers[i]) = k
        BY <2>2, <3>1 DEF CareInv
      <4> QED
        BY <2>1, <3>1, <4>1
    <3>2. CASE ToolCallServed(id) /\ Moves(id, "slot") /\ running' = running \cup {KeyOf(handlers[id])}
      <4>1. Ids' = Ids /\ handlers'[id].st = "slot" /\ KeyOf(handlers'[id]) = KeyOf(handlers[id])
        BY <3>2 DEF Moves, KeyOf
      <4>2. CASE k = KeyOf(handlers[id])
        BY <4>1, <4>2
      <4>3. CASE k \in running
        <5>1. PICK i \in Ids : handlers[i].st \in {"slot", "tool"} /\ KeyOf(handlers[i]) = k
          BY <4>3 DEF CareInv
        <5> QED
          BY <2>1, <3>2, <4>1, <5>1 DEF ToolCallServed
      <4> QED
        BY <2>2, <3>2, <4>2, <4>3
    <3>3. CASE SlotTaken(id)
      <4>1. PICK i \in Ids : handlers[i].st \in {"slot", "tool"} /\ KeyOf(handlers[i]) = k
        BY <2>2, <3>3 DEF CareInv, SlotTaken
      <4>2. Ids' = Ids /\ handlers'[id].st = "tool" /\ KeyOf(handlers'[id]) = KeyOf(handlers[id])
        BY <3>3 DEF SlotTaken, Moves, KeyOf
      <4> QED
        BY <2>1, <4>1, <4>2
    <3>4. CASE running' = running \ {KeyOf(handlers[id])}
      <4>1. PICK i \in Ids : handlers[i].st \in {"slot", "tool"} /\ KeyOf(handlers[i]) = k
        BY <2>2, <3>4 DEF CareInv
      <4>2. i # id
        BY <2>2, <3>4, <4>1
      <4> QED
        BY <2>1, <4>1, <4>2
    <3> QED
      BY <1>8, <3>1, <3>2, <3>3, <3>4 DEF HandlerShape, PrepareServed, ModelEndServed, ToolCallServed,
                                          ToolEnded, ResponseWritten, ResponseOver, Replied
  <2>3. Ids' \subseteq 1..host'.seq
    BY <2>1 DEF CareInv
  <2> QED
    BY <2>1, <2>2, <2>3 DEF CareInv
<1>9. ASSUME NEW id \in Ids, HandlerCanceled(id) PROVE CareInv'
  <2>1. ASSUME NEW k \in running'
        PROVE  \E i \in Ids' : handlers'[i].st \in {"slot", "tool"} /\ KeyOf(handlers'[i]) = k
    <3>1. PICK i \in Ids : handlers[i].st \in {"slot", "tool"} /\ KeyOf(handlers[i]) = k
      BY <1>9, <2>1 DEF CareInv, HandlerCanceled
    <3>2. i # id
      BY <1>9, <2>1, <3>1 DEF HandlerCanceled
    <3> QED
      BY <1>9, <3>1, <3>2 DEF HandlerCanceled, Drops
  <2> QED
    BY <1>9, <2>1 DEF HandlerCanceled, Drops, CareInv
<1> QED
  BY <1>1, <1>2, <1>3, <1>4, <1>5, <1>6, <1>7, <1>8, <1>9 DEF HostShape

LEMMA CareHolds == Spec => []CareInv
<1>1. Init => CareInv
  <2> SUFFICES ASSUME Init PROVE CareInv
    OBVIOUS
  <2>1. Ids = {}
    BY DEF Init, PiInit, Ids
  <2> QED
    BY <2>1 DEF Init, PiInit, NoNode, CareInv
<1>2. PiTypes /\ CareInv /\ [Next]_vars => CareInv'
  BY CareStep
<1> QED
  BY <1>1, <1>2, PiTypesHold, PTL DEF Spec

\* Whatever stops an attempt with a Pi worker and however often it is canceled on the
\* way, neither the worker nor the task of a request outlives it.
THEOREM NoOrphans == Spec => []NothingIsLeftBehind
<1>1. CareInv => NothingIsLeftBehind
  BY DEF CareInv, NothingIsLeftBehind
<1> QED
  BY <1>1, CareHolds, PTL

LEMMA RowsStep ==
    ASSUME PiTypes, CareInv, RowsInv, [Next]_vars
    PROVE  RowsInv'
<1>1. PiTypes' /\ (NodeStep \/ HostShape)
  BY PiShapes
<1>2. CASE NodeStep
  BY <1>2, NodeLeaves DEF RowsInv
<1>3. CASE WorkerStarted
  BY <1>3 DEF WorkerStarted, Still, RowsInv, CareInv
<1>4. CASE RecordRead
  BY <1>4, ReadTakes DEF Still, RowsInv
<1>5. CASE ReadingStopped \/ InterruptedAgain \/ CleanedUp \/ Quiet \/ WorkerClosed
  BY <1>5 DEF ReadingStopped, InterruptedAgain, CleanedUp, Quiet, WorkerClosed, ToEnd, Still, RowsInv
<1>6. CASE Finished
  <2>1. CASE host.end = "result" /\ ResultMatches /\ stored' = stored
    BY <1>6, <2>1 DEF Finished, RowsInv, ResultMatches
  <2>2. ASSUME NEW rest \in SUBSET unfinished, host'.lost = (rest # {}),
               stored' = [t \in Turns |-> IF t \in unfinished \ rest THEN "failed" ELSE stored[t]]
        PROVE  RowsInv'
    BY <1>6, <2>2 DEF Finished, RowsInv
  <2> QED
    BY <1>6, <2>1, <2>2 DEF Finished
<1>7. ASSUME NEW id \in Ids, HandlerShape(id) PROVE RowsInv'
  <2>0. host.pc = "reading" /\ host'.pc = "reading"
    BY <1>7, HandlerLeaves
  <2>1. CASE UNCHANGED <<stored, unfinished>>
    BY <2>0, <2>1 DEF RowsInv
  <2>2. ASSUME NEW turn, NEW status \in {"started", "succeeded", "failed"}, Saved(id, turn, status)
        PROVE  RowsInv'
    <3>1. ASSUME NEW t \in Turns, stored'[t] = "started" PROVE t \in unfinished'
      BY <2>0, <2>2, <3>1 DEF Saved, RowsInv, PiTypes
    <3> QED
      BY <2>0, <3>1 DEF RowsInv
  <2>3. Status(handlers[id].stop) \in {"succeeded", "failed"}
    BY DEF Status
  <2> QED
    BY <1>7, <2>1, <2>2, <2>3 DEF HandlerShape, PrepareServed, ModelEndServed, ToolCallServed, SlotTaken,
                                  ToolEnded, ResponseWritten, ResponseOver
<1>8. ASSUME NEW id \in Ids, HandlerCanceled(id) PROVE RowsInv'
  BY <1>8 DEF HandlerCanceled, RowsInv
<1> QED
  BY <1>1, <1>2, <1>3, <1>4, <1>5, <1>6, <1>7, <1>8 DEF HostShape

LEMMA RowsHold == Spec => []RowsInv
<1>1. Init => RowsInv
  BY DEF Init, PiInit, RowsInv
<1>2. PiTypes /\ CareInv /\ RowsInv /\ [Next]_vars => RowsInv'
  BY RowsStep
<1> QED
  BY <1>1, <1>2, PiTypesHold, CareHolds, PTL DEF Spec

\* An attempt that is over leaves no model call in state started, unless the store
\* refused the save that should have closed it.
THEOREM ClosedRecords == Spec => []RecordsAreClosed
<1>1. RowsInv => RecordsAreClosed
  BY DEF RowsInv, RecordsAreClosed
<1> QED
  BY <1>1, RowsHold, PTL

\* With no record on the way there is nothing to say of the wires.
LEMMA NothingOnWires ==
    ASSUME Nothing', PiTypes', node'.pc \notin {"start", "done"}, node'.seq = host'.seq
    PROVE  WireInv'
<1>1. Len(stdout') = 0 /\ Len(stdin') = 0 /\ Unanswered' = {}
  BY DEF Nothing
<1>2. node'.seq = host'.seq + Len(stdout')
  BY <1>1 DEF PiTypes, HostTypes
<1> QED
  BY <1>1, <1>2 DEF WireInv, OutInv, TaskInv, InInv, OnePlace, Nothing

\* A worker that waits for one answer has one request, in one place.
LEMMA OneRequest ==
    ASSUME PiTypes, WireInv, node.pc \in {"prepared", "ended"}
    PROVE  /\ stdin # << >> => Tail(stdin) = << >> /\ stdout = << >> /\ Unanswered = {}
           /\ stdout # << >> => Tail(stdout) = << >> /\ stdin = << >> /\ Unanswered = {}
           /\ \A id \in Unanswered : Unanswered = {id} /\ stdout = << >> /\ stdin = << >>
<1>1. /\ \A i \in 1..Len(stdout) : stdout[i].call = "none"
      /\ \A i \in 1..Len(stdin) : stdin[i].call = "none"
      /\ \A id \in Unanswered : handlers[id].call = "none"
  BY DEF WireInv, OutInv, TaskInv, InInv, Asks, Answers
<1>2. stdin \in Seq(InRecords) /\ stdout \in Seq(OutRecords)
  BY DEF PiTypes
<1>3. /\ \A i, j \in 1..Len(stdout) : i = j
      /\ \A i, j \in 1..Len(stdin) : i = j
      /\ \A i, j \in Unanswered : i = j
      /\ ~ \E i \in 1..Len(stdout), j \in Unanswered : TRUE
      /\ ~ \E i \in 1..Len(stdout), j \in 1..Len(stdin) : TRUE
      /\ ~ \E i \in Unanswered, j \in 1..Len(stdin) : TRUE
  BY <1>1 DEF WireInv, OnePlace
<1>4. ASSUME NEW S, NEW s \in Seq(S), \A i, j \in 1..Len(s) : i = j, s # << >>
      PROVE  1 \in 1..Len(s) /\ Tail(s) = << >>
  <2>1. Len(s) \in Nat /\ Len(s) # 0
    BY <1>4
  <2>2. 1 \in 1..Len(s) /\ Len(s) \in 1..Len(s)
    BY <2>1
  <2>3. Len(s) = 1
    BY <1>4, <2>2
  <2>4. Tail(s) \in Seq(S) /\ Len(Tail(s)) = 0
    BY <1>4, <2>3, TailFacts
  <2>5. ASSUME NEW u \in Seq(S), Len(u) = 0 PROVE u = << >>
    BY <2>5
  <2> QED
    BY <2>2, <2>4, <2>5
<1>5. stdin # << >> => 1 \in 1..Len(stdin) /\ Tail(stdin) = << >>
  BY <1>2, <1>3, <1>4
<1>6. stdout # << >> => 1 \in 1..Len(stdout) /\ Tail(stdout) = << >>
  BY <1>2, <1>3, <1>4
<1> QED
  BY <1>3, <1>5, <1>6

Talking == BudgetInv /\ TurnInv /\ WireInv

\* the node's record with a request more
LEMMA RequestFacts ==
    ASSUME PiTypes, NEW n \in NodeTypes, NEW kind \in Kinds, NEW turn \in 0..MaxTurns, NEW call \in CallNames,
           NEW stop \in Stops, Requests(n, kind, turn, call, stop)
    PROVE  /\ node'.pc = n.pc /\ node'.turn = n.turn /\ node'.used = n.used /\ node'.stop = n.stop
           /\ node'.batch = n.batch /\ node'.seq = n.seq + 1
           /\ Len(stdout) \in Nat /\ Len(stdout') = Len(stdout) + 1
           /\ \A i \in 1..Len(stdout) : stdout'[i] = stdout[i]
           /\ stdout'[Len(stdout) + 1].type = "request" /\ stdout'[Len(stdout) + 1].id = n.seq + 1
           /\ stdout'[Len(stdout) + 1].kind = kind /\ stdout'[Len(stdout) + 1].turn = turn
           /\ stdout'[Len(stdout) + 1].call = call /\ stdout'[Len(stdout) + 1].stop = stop
<1> DEFINE e == [type |-> "request", id |-> n.seq + 1, kind |-> kind, turn |-> turn, call |-> call, stop |-> stop]
<1>1. n.seq \in Nat /\ node' = [n EXCEPT !.seq = n.seq + 1] /\ stdout' = Append(stdout, e)
  BY DEF Requests, NodeTypes
<1>2. /\ node'.pc = n.pc /\ node'.turn = n.turn /\ node'.used = n.used /\ node'.stop = n.stop
      /\ node'.batch = n.batch /\ node'.seq = n.seq + 1
  BY <1>1 DEF NodeTypes
<1>3. /\ e \in OutRecords
      /\ e.type = "request" /\ e.id = n.seq + 1 /\ e.kind = kind /\ e.turn = turn
      /\ e.call = call /\ e.stop = stop
  BY <1>1 DEF OutRecords
<1>4. stdout \in Seq(OutRecords)
  BY DEF PiTypes
<1> HIDE DEF e
<1> QED
  BY <1>1, <1>2, <1>3, <1>4, AppendFacts

\* The first request of a worker that had nothing on the way.
LEMMA FirstRequest ==
    ASSUME PiTypes, Nothing, PiTypes', NodeStep, NEW n \in NodeTypes, NEW kind \in {"prepare_request", "model_end"},
           NEW stop \in Stops, Requests(n, kind, n.turn, "none", stop), n.seq = host.seq,
           \/ n.pc = "prepared" /\ kind = "prepare_request"
           \/ n.pc = "ended" /\ kind = "model_end" /\ stop = n.stop,
           n.pc = "prepared" => Before(n.turn), n.pc = "ended" => Open(n.turn), stdin' = stdin
    PROVE  WireInv'
<1>0. n.turn \in 0..MaxTurns /\ kind \in Kinds /\ "none" \in CallNames
  BY DEF NodeTypes, Kinds, CallNames
<1>1. /\ node'.pc = n.pc /\ node'.turn = n.turn /\ node'.stop = n.stop /\ node'.seq = n.seq + 1
      /\ Len(stdout') = Len(stdout) + 1
      /\ stdout'[Len(stdout) + 1].type = "request" /\ stdout'[Len(stdout) + 1].id = n.seq + 1
      /\ stdout'[Len(stdout) + 1].kind = kind /\ stdout'[Len(stdout) + 1].turn = n.turn
      /\ stdout'[Len(stdout) + 1].call = "none" /\ stdout'[Len(stdout) + 1].stop = stop
  BY <1>0, RequestFacts
<1>2. Len(stdout) = 0 /\ Len(stdin') = 0 /\ Unanswered' = {} /\ host' = host /\ active' = active /\ unfinished' = unfinished
  BY NodeLeaves DEF Nothing
<1>3. host.seq \in Nat
  BY DEF PiTypes, HostTypes
<1>4. /\ 1..Len(stdout') = {1} /\ stdout'[1].type = "request" /\ stdout'[1].id = host'.seq + 1
      /\ stdout'[1].kind = kind /\ stdout'[1].turn = n.turn /\ stdout'[1].call = "none" /\ stdout'[1].stop = stop
      /\ node'.seq = host'.seq + Len(stdout')
  BY <1>1, <1>2, <1>3
<1>5. OutInv'
  <2>1. ASSUME NEW i \in 1..Len(stdout')
        PROVE  stdout'[i].type = "request" /\ stdout'[i].id = host'.seq + i /\ Asks(stdout[i])' /\ FreshAsk(stdout[i])'
    <3>1. i = 1
      BY <1>4
    <3>2. Before(n.turn)' = Before(n.turn) /\ Open(n.turn)' = Open(n.turn)
      BY <1>2 DEF Before, Open
    <3>3. Asks(stdout[1])' /\ FreshAsk(stdout[1])'
      BY <1>1, <1>4, <3>2 DEF Asks, FreshAsk, Before, Open
    <3> QED
      BY <1>4, <3>1, <3>3
  <2> QED
    BY <2>1 DEF OutInv
<1> QED
  BY <1>1, <1>2, <1>4, <1>5 DEF WireInv, TaskInv, InInv, OnePlace

LEMMA PreparesTalks ==
    ASSUME PiTypes, PiTypes', Talking, host.pc = "reading", NodePrepares
    PROVE  Talking'
<1> USE PiAssumption
<1>0. /\ node \in NodeTypes /\ node.turn \in 0..MaxTurns /\ node.seq \in Nat /\ host.seq \in Nat /\ node.used \in Nat
      /\ node.pc = "prepare" /\ Nothing /\ Len(active) = node.turn /\ unfinished = {} /\ stdin' = stdin
  BY DEF PiTypes, NodeTypes, HostTypes, Talking, TurnInv, WireInv, NodePrepares
<1>1. NodeStep /\ UNCHANGED <<host, handlers, Ids, Unanswered, active, stored, unfinished, identities, running>>
  BY NodeLeaves DEF NodeStep
<1>2. node.seq = host.seq
  BY <1>0 DEF Talking, WireInv, Nothing
<1>3. CASE node.turn < MaxTurns
  <2> DEFINE n == [node EXCEPT !.pc = "prepared", !.turn = node.turn + 1]
  <2>0. node.turn + 1 \in 0..MaxTurns
    BY <1>0, <1>3
  <2>1. \A m \in 0..MaxTurns :
            /\ [node EXCEPT !.pc = "prepared", !.turn = m] \in NodeTypes
            /\ [node EXCEPT !.pc = "prepared", !.turn = m].turn = m
    BY <1>0 DEF NodeTypes
  <2>2. /\ n \in NodeTypes /\ n.pc = "prepared" /\ n.turn = node.turn + 1 /\ n.seq = node.seq /\ n.used = node.used
        /\ n.stop = node.stop /\ n.batch = node.batch
    BY <1>0, <2>0, <2>1 DEF NodeTypes
  <2>3. Requests(n, "prepare_request", n.turn, "none", "none")
    BY <1>3, <2>2 DEF NodePrepares
  <2> HIDE DEF n
  <2>4. Before(n.turn)
    BY <1>0, <2>2 DEF Before
  <2>5. WireInv'
    BY <1>0, <1>1, <1>2, <2>2, <2>3, <2>4, FirstRequest DEF Stops
  <2>6. /\ node'.pc = "prepared" /\ node'.turn = node.turn + 1 /\ node'.used = node.used /\ node'.batch = node.batch
    BY <2>0, <2>2, <2>3, RequestFacts DEF Kinds, CallNames, Stops
  <2>7. TurnInv'
    BY <1>0, <2>6 DEF TurnInv
  <2>8. BudgetInv'
    <3>1. ASSUME NEW k \in identities PROVE k[1] <= node.turn + 1 /\ k[1] # node.turn + 1
      <4>1. k[1] <= node.turn /\ k[1] \in 0..MaxTurns
        BY DEF Talking, BudgetInv, PiTypes
      <4> QED
        BY <1>0, <4>1
    <3> QED
      BY <1>1, <2>6, <3>1 DEF BudgetInv, Talking
  <2> QED
    BY <2>5, <2>7, <2>8 DEF Talking
<1>4. CASE ~(node.turn < MaxTurns)
  <2>1. node' = [node EXCEPT !.pc = "failing"] /\ stdout' = stdout
    BY <1>4 DEF NodePrepares
  <2>2. /\ node'.pc = "failing" /\ node'.turn = node.turn /\ node'.used = node.used /\ node'.batch = node.batch
        /\ node'.seq = node.seq
    BY <1>0, <2>1 DEF NodeTypes
  <2>3. WireInv'
    BY <1>0, <1>1, <1>2, <2>1, <2>2, NothingOnWires DEF Nothing
  <2> QED
    BY <1>1, <2>2, <2>3 DEF Talking, BudgetInv, TurnInv
<1> QED
  BY <1>3, <1>4

LEMMA ModelEndsTalks ==
    ASSUME PiTypes, PiTypes', Talking, host.pc = "reading", NodeModelEnds
    PROVE  Talking'
<1> USE PiAssumption
<1>0. /\ node \in NodeTypes /\ node.turn \in 0..MaxTurns /\ node.seq \in Nat /\ host.seq \in Nat
      /\ node.pc = "model" /\ Nothing /\ Open(node.turn) /\ stdin' = stdin /\ node.turn >= 1
  BY DEF PiTypes, NodeTypes, HostTypes, Talking, TurnInv, WireInv, NodeModelEnds
<1>1. NodeStep /\ UNCHANGED <<host, handlers, Ids, Unanswered, active, stored, unfinished, identities, running>>
  BY NodeLeaves DEF NodeStep
<1>2. node.seq = host.seq
  BY <1>0 DEF Talking, WireInv, Nothing
<1>3. PICK stop \in {"stop", "toolUse", "length", "error"}, wanted \in SUBSET CallIds :
          Requests([node EXCEPT !.pc = "ended", !.stop = stop,
                        !.batch = [c \in CallIds |-> IF c \in wanted THEN "wanted" ELSE "none"]],
                   "model_end", node.turn, "none", stop)
  BY DEF NodeModelEnds
<1> DEFINE batch == [c \in CallIds |-> IF c \in wanted THEN "wanted" ELSE "none"]
           n == [node EXCEPT !.pc = "ended", !.stop = stop, !.batch = batch]
<1>4. batch \in [CallIds -> Marks] /\ \A c \in CallIds : batch[c] \in {"none", "wanted"} /\ batch[c] # "asked"
  BY DEF Marks
<1> HIDE DEF batch
<1>5. /\ n \in NodeTypes /\ n.pc = "ended" /\ n.turn = node.turn /\ n.seq = node.seq /\ n.used = node.used
      /\ n.stop = stop /\ n.batch = batch
  BY <1>0, <1>4 DEF NodeTypes, Stops
<1>6. Requests(n, "model_end", n.turn, "none", stop)
  BY <1>3, <1>5 DEF batch
<1> HIDE DEF n
<1>7. WireInv'
  BY <1>0, <1>1, <1>2, <1>5, <1>6, FirstRequest DEF Stops
<1>8. /\ node'.pc = "ended" /\ node'.turn = node.turn /\ node'.used = node.used /\ node'.batch = batch
      /\ node'.stop = stop
  BY <1>0, <1>5, <1>6, RequestFacts DEF Kinds, CallNames, Stops
<1>9. TurnInv'
  BY <1>0, <1>4, <1>8 DEF TurnInv
<1>10. BudgetInv'
  <2>1. Asked(batch) = 0
    <3>1. {c \in CallIds : batch[c] = "asked"} = {}
      BY <1>4
    <3> QED
      BY <3>1, FS_EmptySet DEF Asked
  <2>2. Asked(node'.batch) <= MaxParallel
    BY <1>8, <2>1
  <2> QED
    BY <1>0, <1>1, <1>8, <2>2 DEF BudgetInv, Talking
<1> QED
  BY <1>7, <1>9, <1>10 DEF Talking

\* The wires when neither records nor tasks change and the worker waits for the same.
LEMMA SameWires ==
    ASSUME WireInv, UNCHANGED <<stdout, stdin, host, handlers, active, unfinished, identities>>,
           node'.pc = node.pc, node'.turn = node.turn, node'.stop = node.stop, node'.seq = node.seq,
           node'.batch = node.batch
    PROVE  WireInv'
BY SMTT(30) DEF WireInv, OutInv, TaskInv, InInv, OnePlace, Nothing, Asks, Answers, FreshAsk, ServedAsk,
       Before, Open, Closed, KeyOf, Ids, Unanswered

\* the calls of a batch, as identities
LEMMA ClaimFacts ==
    ASSUME IsFiniteSet(CallIds), NEW turn, NEW W \in SUBSET CallIds, NEW I, IsFiniteSet(I)
    PROVE  /\ IsFiniteSet(W) /\ IsFiniteSet(I \cup {<<turn, c>> : c \in W})
           /\ Cardinality(W) \in Nat /\ Cardinality(I) \in Nat
           /\ Cardinality(I \cup {<<turn, c>> : c \in W}) \in Nat
           /\ Cardinality(I \cup {<<turn, c>> : c \in W}) <= Cardinality(I) + Cardinality(W)
<1> DEFINE f == [c \in W |-> <<turn, c>>]
           T == {<<turn, c>> : c \in W}
<1>1. f \in Surjection(W, T)
  BY DEF Surjection
<1>2. IsFiniteSet(W)
  BY FS_Subset
<1>3. IsFiniteSet(T) /\ Cardinality(T) <= Cardinality(W)
  BY <1>1, <1>2, FS_Surjection
<1> HIDE DEF T
<1>4. IsFiniteSet(I \cup T) /\ Cardinality(I \cup T) = Cardinality(I) + Cardinality(T) - Cardinality(I \cap T)
  BY <1>3, FS_Union
<1>5. /\ Cardinality(I) \in Nat /\ Cardinality(T) \in Nat /\ Cardinality(W) \in Nat
      /\ Cardinality(I \cup T) \in Nat /\ Cardinality(I \cap T) \in Nat
  BY <1>2, <1>3, <1>4, FS_CardinalityType, FS_Intersection
<1>6. Cardinality(I \cup T) <= Cardinality(I) + Cardinality(W)
  BY <1>3, <1>4, <1>5
<1> QED
  BY <1>2, <1>4, <1>5, <1>6 DEF T

LEMMA ReadsTalks ==
    ASSUME PiTypes, PiTypes', Talking, host.pc = "reading", NodeReads
    PROVE  Talking'
<1> USE PiAssumption
<1>0. /\ node \in NodeTypes /\ node.turn \in 0..MaxTurns /\ node.seq \in Nat /\ host.seq \in Nat /\ node.used \in Nat
      /\ stdin # << >> /\ stdin' = Tail(stdin) /\ stdout' = stdout /\ stdin \in Seq(InRecords)
      /\ stdout \in Seq(OutRecords) /\ node.batch \in [CallIds -> Marks]
  BY DEF PiTypes, NodeTypes, HostTypes, NodeReads
<1>1. NodeStep /\ UNCHANGED <<host, handlers, Ids, Unanswered, active, stored, unfinished, identities, running>>
  BY NodeLeaves DEF NodeStep
<1>2. /\ Head(stdin) = stdin[1] /\ 1 \in 1..Len(stdin) /\ Len(stdin) \in Nat /\ Len(stdin') = Len(stdin) - 1
      /\ \A i \in 1..Len(stdin') : stdin'[i] = stdin[i + 1] /\ i + 1 \in 1..Len(stdin) /\ i + 1 # 1
  <2>1. Len(stdin) \in Nat \ {0}
    BY <1>0, TailFacts
  <2> QED
    BY <1>0, <2>1, TailFacts
<1>3. node.pc \in {"start", "prepared", "ended", "tools"}
  BY <1>0 DEF Talking, WireInv, Nothing, NodeTypes
<1>4. CASE node.pc = "start"
  <2>1. stdin = <<Started>> /\ stdout = << >> /\ Unanswered = {} /\ node.turn = 0 /\ active = << >> /\ unfinished = {}
    BY <1>4 DEF Talking, WireInv, TurnInv
  <2>2. Head(stdin).type = "start" /\ Head(stdin).kind = "none" /\ stdin' = << >>
    <3>1. Head(stdin) = Started /\ Tail(stdin) = << >>
      BY <2>1
    <3> QED
      BY <1>0, <3>1 DEF Started
  <2>3. node' = [node EXCEPT !.pc = "prepare"]
    BY <2>2 DEF NodeReads
  <2>4. /\ node'.pc = "prepare" /\ node'.turn = node.turn /\ node'.used = node.used /\ node'.batch = node.batch
        /\ node'.seq = node.seq
    BY <1>0, <2>3 DEF NodeTypes
  <2>5. node.seq = host.seq
    BY <1>0, <1>4, <2>1 DEF Talking, WireInv
  <2>6. WireInv'
    BY <1>0, <1>1, <2>1, <2>2, <2>4, <2>5, NothingOnWires DEF Nothing
  <2>7. TurnInv'
    BY <1>1, <2>1, <2>4 DEF TurnInv
  <2>8. BudgetInv'
    BY <1>1, <2>4 DEF BudgetInv, Talking
  <2> QED
    BY <2>6, <2>7, <2>8 DEF Talking
<1>5. CASE node.pc \in {"prepared", "ended"}
  <2>1. Nothing'
    BY <1>0, <1>1, <1>5, OneRequest DEF Nothing, Talking
  <2>2. Answers(Head(stdin)) /\ ServedAsk
    BY <1>2, <1>5 DEF Talking, WireInv, InInv
  <2>3. node.seq = host.seq
    <3>1. Len(stdout) = 0
      BY <1>0, <1>5, OneRequest DEF Talking
    <3> QED
      BY <1>0, <1>5, <3>1 DEF Talking, WireInv
  <2>4. CASE node.pc = "prepared"
    <3>1. node' = [node EXCEPT !.pc = "model"]
      BY <2>2, <2>4 DEF NodeReads, Answers
    <3>2. /\ node'.pc = "model" /\ node'.turn = node.turn /\ node'.used = node.used /\ node'.batch = node.batch
          /\ node'.seq = node.seq
      BY <1>0, <3>1 DEF NodeTypes
    <3>3. WireInv'
      BY <1>1, <2>1, <2>3, <3>2, NothingOnWires
    <3>4. TurnInv'
      BY <1>1, <2>2, <2>4, <3>2 DEF TurnInv, Talking, ServedAsk, Open
    <3>5. BudgetInv'
      BY <1>1, <2>4, <3>2 DEF BudgetInv, Talking
    <3> QED
      BY <3>3, <3>4, <3>5 DEF Talking
  <2>5. CASE node.pc = "ended"
    <3>0. node' = AfterModelEnd(node)
      BY <2>2, <2>5 DEF NodeReads, Answers
    <3>1. Closed(node.turn, node.stop)
      BY <2>2, <2>5 DEF ServedAsk
    <3>2. CASE ~Failed(node.stop) /\ node.used + Wanted(node) <= MaxToolCalls /\ Wanted(node) > 0
      <4> DEFINE W == {c \in CallIds : node.batch[c] = "wanted"}
      <4>1. node' = [node EXCEPT !.pc = "tools", !.used = node.used + Wanted(node)]
        <5>1. node.used \in Nat /\ Wanted(node) \in Nat
          BY <1>0, FS_Subset, FS_CardinalityType DEF Wanted
        <5>2. ~(node.used + Wanted(node) > MaxToolCalls)
          BY <3>2, <5>1
        <5> QED
          BY <3>0, <3>2, <5>2 DEF AfterModelEnd
      <4>2. /\ Wanted(node) = Cardinality(W)
            /\ \A c \in CallIds : node.batch[c] \in {"none", "wanted"}
        BY <2>5 DEF Wanted, Talking, TurnInv
      <4>3. /\ IsFiniteSet(identities) /\ Cardinality(W) \in Nat /\ Cardinality(identities) \in Nat
            /\ Cardinality(identities \cup {<<node.turn, c>> : c \in W}) \in Nat
            /\ Cardinality(identities \cup {<<node.turn, c>> : c \in W}) <= Cardinality(identities) + Cardinality(W)
        <5>1. IsFiniteSet(identities)
          BY DEF Talking, BudgetInv
        <5> QED
          BY <5>1, ClaimFacts
      <4>4. /\ node'.pc = "tools" /\ node'.used = node.used + Cardinality(W) /\ node'.turn = node.turn
            /\ node'.batch = node.batch /\ node'.seq = node.seq /\ node'.stop = node.stop
        BY <1>0, <4>1, <4>2 DEF NodeTypes
      <4>5. WireInv'
        BY <1>1, <2>1, <2>3, <4>4, NothingOnWires
      <4>6. TurnInv'
        BY <1>1, <2>5, <3>1, <3>2, <4>4 DEF TurnInv, Talking, Closed
      <4>7. BudgetInv'
        <5>1. {d \in CallIds : node'.batch[d] # "none"} = W
          BY <4>2, <4>4
        <5>2. Claims' = identities \cup {<<node.turn, c>> : c \in W}
          BY <1>1, <4>4, <5>1 DEF Claims
        <5>3. Cardinality(identities) <= node.used
          BY DEF Talking, BudgetInv
        <5> HIDE DEF W
        <5>4. /\ Cardinality(Claims)' <= node'.used /\ Cardinality(identities) <= node'.used
              /\ node'.used <= MaxToolCalls
          BY <1>0, <3>2, <4>2, <4>3, <4>4, <5>2, <5>3, SMTT(30)
        <5>5. \A k \in identities : k[1] # node.turn
          BY <2>5 DEF Talking, BudgetInv
        <5> QED
          BY <1>1, <4>4, <5>4, <5>5 DEF BudgetInv, Talking
      <4> QED
        BY <4>5, <4>6, <4>7 DEF Talking
    <3>3. ASSUME NEW pc \in {"answering", "failing"}, pc = "answering" => node.stop = "stop",
                 node' = [node EXCEPT !.pc = pc]
          PROVE  Talking'
      <4>1. /\ node'.pc = pc /\ node'.turn = node.turn /\ node'.used = node.used /\ node'.batch = node.batch
            /\ node'.seq = node.seq /\ node'.stop = node.stop
        BY <1>0, <3>3 DEF NodeTypes
      <4>2. WireInv'
        BY <1>1, <2>1, <2>3, <3>3, <4>1, NothingOnWires
      <4>3. TurnInv'
        BY <1>1, <3>1, <3>3, <4>1 DEF TurnInv, Closed
      <4>4. BudgetInv'
        BY <1>1, <3>3, <4>1 DEF BudgetInv, Talking
      <4> QED
        BY <4>2, <4>3, <4>4 DEF Talking
    <3>4. node.used \in Nat /\ Wanted(node) \in Nat
      BY <1>0, FS_Subset, FS_CardinalityType DEF Wanted
    <3>5. CASE Failed(node.stop) \/ node.used + Wanted(node) > MaxToolCalls
      <4>1. node' = [node EXCEPT !.pc = "failing"]
        BY <3>0, <3>5 DEF AfterModelEnd
      <4> QED
        BY <3>3, <4>1
    <3>6. CASE ~(Failed(node.stop) \/ node.used + Wanted(node) > MaxToolCalls) /\ ~(Wanted(node) > 0)
      <4>1. node' = [node EXCEPT !.pc = IF node.stop = "stop" THEN "answering" ELSE "failing"]
        BY <3>0, <3>6 DEF AfterModelEnd
      <4> QED
        BY <3>3, <4>1
    <3> QED
      BY <3>2, <3>4, <3>5, <3>6
  <2> QED
    BY <1>5, <2>4, <2>5
<1>6. CASE node.pc = "tools"
  <2> DEFINE c == Head(stdin).call
  <2>1. Answers(stdin[1]) /\ c \in CallIds /\ node.batch[c] = "asked"
    BY <1>2, <1>6 DEF Talking, WireInv, InInv, Answers
  <2>2. node' = [node EXCEPT !.batch[c] = "served"]
    BY <1>2, <1>6, <2>1 DEF NodeReads, Answers
  <2> HIDE DEF c
  <2>3. /\ node'.pc = "tools" /\ node'.turn = node.turn /\ node'.used = node.used
        /\ node'.seq = node.seq /\ node'.stop = node.stop /\ node'.batch = [node.batch EXCEPT ![c] = "served"]
    BY <1>0, <1>6, <2>2 DEF NodeTypes
  <2>4. node'.batch[c] = "served" /\ \A d \in CallIds : d # c => node'.batch[d] = node.batch[d]
    BY <1>0, <2>1, <2>3
  <2>5. TurnInv'
    BY <1>1, <1>6, <2>3 DEF TurnInv, Talking, Closed
  <2>6. BudgetInv'
    <3>1. {d \in CallIds : node'.batch[d] # "none"} = {d \in CallIds : node.batch[d] # "none"}
      BY <2>1, <2>4
    <3>2. Claims' = Claims
      BY <1>1, <2>3, <3>1 DEF Claims
    <3>3. Asked(node'.batch) <= MaxParallel
      <4> DEFINE A == {d \in CallIds : node.batch[d] = "asked"}
                 B == {d \in CallIds : node'.batch[d] = "asked"}
      <4>1. B \subseteq A
        BY <2>4
      <4>2. IsFiniteSet(A)
        BY FS_Subset
      <4>3. Cardinality(B) <= Cardinality(A) /\ IsFiniteSet(B)
        BY <4>1, <4>2, FS_Subset
      <4>4. Cardinality(A) \in Nat /\ Cardinality(B) \in Nat
        BY <4>2, <4>3, FS_CardinalityType
      <4>5. Cardinality(A) <= MaxParallel
        BY DEF Talking, BudgetInv, Asked
      <4> HIDE DEF A
      <4> QED
        BY <4>3, <4>4, <4>5 DEF Asked
    <3>4. \A d \in CallIds : node'.batch[d] = "wanted" => node.batch[d] = "wanted"
      BY <2>4
    <3> QED
      BY <1>1, <1>6, <2>3, <3>2, <3>3, <3>4 DEF BudgetInv, Talking
  <2>7. WireInv'
    <3>0. OutInv /\ TaskInv /\ InInv /\ OnePlace /\ c = stdin[1].call
      BY <1>2, <1>6 DEF Talking, WireInv, c
    <3>1. OutInv'
      <4> SUFFICES ASSUME NEW i \in 1..Len(stdout)
                   PROVE  /\ stdout[i].type = "request" /\ stdout[i].id = host.seq + i
                          /\ Asks(stdout[i])' /\ FreshAsk(stdout[i])'
        BY <1>0, <1>1 DEF OutInv
      <4>1. stdout[i].call # c /\ Asks(stdout[i]) /\ FreshAsk(stdout[i])
        BY <1>2, <3>0 DEF OnePlace, OutInv
      <4> QED
        BY <1>0, <1>1, <1>6, <2>3, <2>4, <3>0, <4>1 DEF OutInv, Asks, FreshAsk, KeyOf
    <3>2. TaskInv'
      <4> SUFFICES ASSUME NEW id \in Unanswered
                   PROVE  /\ Asks(handlers[id])'
                          /\ handlers[id].st = "new" => FreshAsk(handlers[id])'
        BY <1>1, <2>3 DEF TaskInv, ServedAsk
      <4>1. handlers[id].call # c /\ Asks(handlers[id]) /\ (handlers[id].st = "new" => FreshAsk(handlers[id]))
        BY <1>2, <3>0 DEF OnePlace, TaskInv
      <4> QED
        BY <1>0, <1>1, <1>6, <2>3, <2>4, <4>1 DEF Asks, FreshAsk, KeyOf
    <3>3. InInv'
      <4> SUFFICES ASSUME NEW i \in 1..Len(stdin') PROVE Answers(stdin[i])'
        BY <2>3 DEF InInv, ServedAsk
      <4>1. stdin'[i] = stdin[i + 1] /\ i + 1 \in 1..Len(stdin) /\ i + 1 # 1
        BY <1>2
      <4>2. stdin[i + 1].call # c /\ Answers(stdin[i + 1])
        BY <1>2, <3>0, <4>1 DEF OnePlace, InInv
      <4> QED
        BY <1>6, <2>3, <2>4, <4>1, <4>2 DEF Answers
    <3>4. OnePlace'
      <4>1. ASSUME NEW i \in 1..Len(stdin') PROVE stdin'[i] = stdin[i + 1] /\ i + 1 \in 1..Len(stdin)
        BY <1>2
      <4>2. ASSUME NEW i \in 1..Len(stdin'), NEW j \in 1..Len(stdin'), stdin'[i].call = stdin'[j].call PROVE i = j
        <5>1. i + 1 = j + 1
          BY <3>0, <4>1, <4>2 DEF OnePlace
        <5> QED
          BY <5>1
      <4>3. stdout' = stdout /\ handlers' = handlers /\ Unanswered' = Unanswered
        BY <1>0, <1>1
      <4>4. /\ \A i \in 1..Len(stdout), j \in 1..Len(stdin') : stdout[i].call # stdin'[j].call
            /\ \A i \in Unanswered, j \in 1..Len(stdin') : handlers[i].call # stdin'[j].call
        BY <3>0, <4>1, SMTT(30) DEF OnePlace
      <4> QED
        BY <3>0, <4>2, <4>3, <4>4 DEF OnePlace
    <3>5. node'.seq = host'.seq + Len(stdout')
      BY <1>0, <1>1, <1>6, <2>3 DEF Talking, WireInv
    <3> QED
      BY <2>3, <3>1, <3>2, <3>3, <3>4, <3>5 DEF WireInv
  <2> QED
    BY <2>5, <2>6, <2>7 DEF Talking
<1> QED
  BY <1>3, <1>4, <1>5, <1>6

LEMMA CallsTalks ==
    ASSUME PiTypes, PiTypes', Talking, host.pc = "reading", NEW c \in CallIds, NodeCallsTool(c)
    PROVE  Talking'
<1> USE PiAssumption
<1>0. /\ node \in NodeTypes /\ node.turn \in 0..MaxTurns /\ node.seq \in Nat /\ host.seq \in Nat
      /\ stdin' = stdin /\ stdin \in Seq(InRecords) /\ node.pc = "tools" /\ node.batch[c] = "wanted"
      /\ stdout \in Seq(OutRecords) /\ node.batch \in [CallIds -> Marks] /\ Asked(node.batch) < MaxParallel
  BY DEF PiTypes, NodeTypes, HostTypes, NodeCallsTool
<1>1. NodeStep /\ UNCHANGED <<host, handlers, Ids, Unanswered, active, stored, unfinished, identities, running>>
  BY NodeLeaves DEF NodeStep
<1> DEFINE n == [node EXCEPT !.batch[c] = "asked"]
<1>m. PICK m \in Nat : m = Len(stdout) + 1 /\ Len(stdout) \in Nat
  BY <1>0
<1>2. /\ n \in NodeTypes /\ n.pc = "tools" /\ n.turn = node.turn /\ n.used = node.used /\ n.seq = node.seq
      /\ n.stop = node.stop /\ n.batch = [node.batch EXCEPT ![c] = "asked"]
  BY <1>0 DEF NodeTypes, Marks
<1>3. Requests(n, "tool_call", node.turn, c, "none")
  BY DEF NodeCallsTool
<1> HIDE DEF n
<1>4. /\ node'.pc = "tools" /\ node'.turn = node.turn /\ node'.used = node.used /\ node'.stop = node.stop
      /\ node'.batch = [node.batch EXCEPT ![c] = "asked"] /\ node'.seq = node.seq + 1
      /\ Len(stdout) \in Nat /\ Len(stdout') = m /\ \A i \in 1..Len(stdout) : stdout'[i] = stdout[i]
      /\ stdout'[m].type = "request" /\ stdout'[m].id = node.seq + 1
      /\ stdout'[m].kind = "tool_call" /\ stdout'[m].turn = node.turn
      /\ stdout'[m].call = c /\ stdout'[m].stop = "none"
  BY <1>0, <1>2, <1>3, <1>m, RequestFacts DEF Kinds, CallNames, Stops
<1>5. node'.batch[c] = "asked" /\ \A d \in CallIds : d # c => node'.batch[d] = node.batch[d]
  BY <1>0, <1>4
<1>6. TurnInv'
  BY <1>0, <1>1, <1>4 DEF TurnInv, Talking, Closed
<1>7. BudgetInv'
  <2>1. {d \in CallIds : node'.batch[d] # "none"} = {d \in CallIds : node.batch[d] # "none"}
    BY <1>0, <1>5
  <2>2. Claims' = Claims
    BY <1>1, <1>4, <2>1 DEF Claims
  <2>3. Asked(node'.batch) <= MaxParallel
    <3> DEFINE A == {d \in CallIds : node.batch[d] = "asked"}
               B == {d \in CallIds : node'.batch[d] = "asked"}
    <3>1. B = A \cup {c} /\ c \notin A
      BY <1>0, <1>5
    <3>2. IsFiniteSet(A)
      BY FS_Subset
    <3>3. Cardinality(B) = Cardinality(A) + 1
      BY <3>1, <3>2, FS_AddElement
    <3>4. Cardinality(A) \in Nat
      BY <3>2, FS_CardinalityType
    <3>5. Cardinality(A) < MaxParallel
      BY <1>0 DEF Asked
    <3> HIDE DEF A
    <3> QED
      BY <3>3, <3>4, <3>5 DEF Asked
  <2>4. \A d \in CallIds : node'.batch[d] = "wanted" => node.batch[d] = "wanted"
    BY <1>5
  <2> QED
    BY <1>0, <1>1, <1>4, <2>2, <2>3, <2>4 DEF BudgetInv, Talking
<1>8. WireInv'
  <2>0. OutInv /\ TaskInv /\ InInv /\ OnePlace /\ node.seq = host.seq + Len(stdout)
    BY <1>0 DEF Talking, WireInv
  <2>m. node.seq + 1 = host.seq + m
    <3>1. node.seq = host.seq + Len(stdout) /\ host.seq \in Nat
      BY <1>0, <2>0
    <3> QED
      BY <1>m, <3>1
  <2>1. /\ \A i \in 1..Len(stdout) : stdout[i].call \in CallIds /\ stdout[i].call # c
        /\ \A i \in Unanswered : handlers[i].call \in CallIds /\ handlers[i].call # c
        /\ \A i \in 1..Len(stdin) : stdin[i].call \in CallIds /\ stdin[i].call # c
    BY <1>0, <2>0 DEF OutInv, TaskInv, InInv, Asks, Answers
  <2>2. ASSUME NEW i \in 1..Len(stdout') PROVE i = m \/ (i \in 1..Len(stdout) /\ stdout'[i] = stdout[i])
    BY <1>4, <1>m
  <2>3. /\ Asks(stdout[m])' /\ FreshAsk(stdout[m])' /\ stdout'[m].id = host'.seq + m
    <3>1. <<node.turn, c>> \notin identities
      BY <1>0 DEF Talking, BudgetInv
    <3>2. stdout'[m].id = host'.seq + m
      BY <1>1, <1>4, <2>m
    <3> QED
      BY <1>1, <1>4, <1>5, <3>1, <3>2 DEF Asks, FreshAsk, KeyOf
  <2>4. OutInv'
    <3>1. ASSUME NEW i \in 1..Len(stdout)
          PROVE  /\ stdout'[i].type = "request" /\ stdout'[i].id = host'.seq + i
                 /\ Asks(stdout[i])' /\ FreshAsk(stdout[i])'
      <4>1. /\ stdout[i].type = "request" /\ stdout[i].id = host.seq + i
            /\ Asks(stdout[i]) /\ FreshAsk(stdout[i])
        BY <2>0 DEF OutInv
      <4> QED
        <5>1. stdout'[i] = stdout[i] /\ host' = host /\ identities' = identities /\ node.pc = "tools"
          BY <1>0, <1>1, <1>4
        <5>2. Asks(stdout[i])'
          BY <1>4, <1>5, <2>1, <4>1, <5>1 DEF Asks
        <5>3. FreshAsk(stdout[i])'
          BY <1>4, <4>1, <5>1 DEF FreshAsk, KeyOf
        <5> QED
          BY <4>1, <5>1, <5>2, <5>3
    <3> QED
      BY <1>4, <2>2, <2>3, <3>1 DEF OutInv
  <2>5. TaskInv'
    BY <1>0, <1>1, <1>4, <1>5, <2>0, <2>1 DEF TaskInv, Asks, FreshAsk, ServedAsk, KeyOf
  <2>6. InInv'
    BY <1>0, <1>1, <1>4, <1>5, <2>0, <2>1 DEF InInv, Answers, ServedAsk
  <2>7. OnePlace'
    <3>1. /\ stdin' = stdin /\ Unanswered' = Unanswered /\ handlers' = handlers
          /\ \A i \in 1..Len(stdout') : \/ stdout'[i].call = c /\ i = m
                                        \/ i \in 1..Len(stdout) /\ stdout'[i].call = stdout[i].call
      BY <1>0, <1>1, <1>4, <2>2
    <3>2. \A i, j \in 1..Len(stdout') : stdout'[i].call = stdout'[j].call => i = j
      BY <2>0, <2>1, <3>1 DEF OnePlace
    <3>3. \A i \in 1..Len(stdout'), j \in Unanswered : stdout'[i].call # handlers[j].call
      BY <2>0, <2>1, <3>1 DEF OnePlace
    <3>4. \A i \in 1..Len(stdout'), j \in 1..Len(stdin) : stdout'[i].call # stdin[j].call
      BY <2>0, <2>1, <3>1 DEF OnePlace
    <3> QED
      BY <2>0, <3>1, <3>2, <3>3, <3>4 DEF OnePlace
  <2>8. node'.seq = host'.seq + Len(stdout')
    BY <1>1, <1>4, <2>m
  <2> QED
    BY <1>4, <2>4, <2>5, <2>6, <2>7, <2>8 DEF WireInv
<1> QED
  BY <1>6, <1>7, <1>8 DEF Talking

LEMMA FinishesTalks ==
    ASSUME PiTypes, PiTypes', Talking, host.pc = "reading", NodeFinishesTurn \/ NodeCompletes \/ NodeExits
    PROVE  Talking'
<1> USE PiAssumption
<1>0. /\ node \in NodeTypes /\ node.turn \in 0..MaxTurns /\ node.seq \in Nat /\ host.seq \in Nat
      /\ stdin \in Seq(InRecords) /\ stdout \in Seq(OutRecords)
  BY DEF PiTypes, NodeTypes, HostTypes
<1>1. NodeStep /\ UNCHANGED <<host, handlers, Ids, Unanswered, active, stored, unfinished, identities, running>>
  BY NodeLeaves DEF NodeStep
<1>2. CASE NodeFinishesTurn
  <2>1. /\ node.pc = "tools" /\ UNCHANGED <<stdout, stdin>>
        /\ \A c \in CallIds : node.batch[c] # "asked"
    BY <1>2 DEF NodeFinishesTurn
  <2>2. Nothing
    <3>1. OutInv /\ TaskInv /\ InInv
      BY <2>1 DEF Talking, WireInv
    <3>2. Unanswered = {} /\ ~(1 \in 1..Len(stdout)) /\ ~(1 \in 1..Len(stdin))
      BY <2>1, <3>1 DEF OutInv, TaskInv, InInv, Asks, Answers
    <3>3. ASSUME NEW S, NEW s \in Seq(S), ~(1 \in 1..Len(s)) PROVE s = << >>
      BY <3>3
    <3> QED
      BY <1>0, <3>2, <3>3 DEF Nothing
  <2>3. PICK pc \in {"prepare", "failing"} : node' = [node EXCEPT !.pc = pc]
    BY <1>2 DEF NodeFinishesTurn
  <2>4. /\ node'.pc = pc /\ node'.turn = node.turn /\ node'.used = node.used /\ node'.batch = node.batch
        /\ node'.seq = node.seq
    BY <1>0, <2>3 DEF NodeTypes
  <2>5. node.seq = host.seq
    BY <1>0, <2>1, <2>2 DEF Talking, WireInv, Nothing
  <2>6. WireInv'
    BY <1>1, <2>1, <2>2, <2>4, <2>5, NothingOnWires DEF Nothing
  <2>7. TurnInv'
    BY <1>1, <2>1, <2>4 DEF TurnInv, Talking, Closed
  <2>8. BudgetInv'
    BY <1>1, <2>4 DEF BudgetInv, Talking
  <2> QED
    BY <2>6, <2>7, <2>8 DEF Talking
<1>3. CASE NodeCompletes
  <2>1. node' = [node EXCEPT !.pc = "done"] /\ stdin' = stdin /\ node.pc \in {"answering", "failing"}
    BY <1>3 DEF NodeCompletes
  <2>2. Nothing /\ (node.pc = "answering" => Closed(node.turn, "stop"))
    BY <2>1 DEF Talking, WireInv, TurnInv
  <2>3. /\ node'.pc = "done" /\ node'.turn = node.turn /\ node'.used = node.used /\ node'.batch = node.batch
    BY <1>0, <2>1 DEF NodeTypes
  <2>4. PICK type \in {"result", "error"} :
          /\ type = "result" => node.pc = "answering"
          /\ stdout' = Append(stdout, [type |-> type, id |-> 0, kind |-> "none",
                                       turn |-> node.turn, call |-> "none", stop |-> "none"])
    BY <1>3 DEF NodeCompletes
  <2>5. Len(stdout') = 1 /\ stdout'[1].type = type /\ stdout'[1].turn = node.turn
    BY <2>2, <2>4 DEF Nothing
  <2>6. Closed(node.turn, "stop") => Closed(stdout[1].turn, "stop")'
    BY <1>1, <2>5 DEF Closed
  <2>7. WireInv'
    <3>1. \A i \in 1..Len(stdout') : i = 1
      BY <2>5
    <3>2. OnePlace'
      BY <1>1, <2>1, <2>2, <3>1 DEF OnePlace, Nothing
    <3>3. \A i \in 1..Len(stdout') :
             stdout'[i].type # "request" /\ (stdout'[i].type = "result" => Closed(stdout[i].turn, "stop")')
      BY <2>2, <2>4, <2>5, <2>6, <3>1
    <3> QED
      BY <1>1, <2>1, <2>2, <2>3, <2>5, <3>2, <3>3 DEF WireInv, Nothing
  <2>8. TurnInv'
    BY <2>3 DEF TurnInv
  <2>9. BudgetInv'
    BY <1>1, <2>3 DEF BudgetInv, Talking
  <2> QED
    BY <2>7, <2>8, <2>9 DEF Talking
<1>4. CASE NodeExits
  <2>1. node' = [node EXCEPT !.st = "gone"] /\ UNCHANGED <<stdout, stdin>>
    BY <1>4 DEF NodeExits
  <2>2. /\ node'.pc = node.pc /\ node'.turn = node.turn /\ node'.used = node.used /\ node'.batch = node.batch
        /\ node'.seq = node.seq /\ node'.stop = node.stop
    BY <1>0, <2>1 DEF NodeTypes
  <2>3. WireInv'
    BY <1>1, <2>1, <2>2, SameWires DEF Talking
  <2>4. TurnInv'
    BY <1>1, <2>2 DEF TurnInv, Talking, Open, Closed
  <2>5. BudgetInv'
    BY <1>1, <2>2 DEF BudgetInv, Talking, Claims
  <2> QED
    BY <2>3, <2>4, <2>5 DEF Talking
<1> QED
  BY <1>2, <1>3, <1>4

\* A task that has not written its answer is one of an unanswered request.
LEMMA StillOpen ==
    ASSUME NEW id \in Ids
    PROVE  handlers[id].st \in {"new", "slot", "tool", "write"} => id \in Unanswered
BY DEF Unanswered

\* What a step of one task is to the unanswered requests.
LEMMA OpenFacts ==
    ASSUME NEW id \in Ids
    PROVE  /\ Unanswered \subseteq Ids
           /\ \A st \in {"slot", "tool", "write"} : Moves(id, st) =>
                  Unanswered' = Unanswered \cup {id} /\ \A i \in Unanswered \ {id} : handlers'[i] = handlers[i]
           /\ \A st \in Replied : Moves(id, st) =>
                  Unanswered' = Unanswered \ {id} /\ \A i \in Unanswered \ {id} : handlers'[i] = handlers[i]
           /\ Drops(id) =>
                  Unanswered' = Unanswered \ {id} /\ \A i \in Unanswered \ {id} : handlers'[i] = handlers[i]
BY DEF Unanswered, Moves, Sets, Drops, Replied

\* The wires when a worker's one request is served: the task goes on, or raises.
LEMMA OneServed ==
    ASSUME PiTypes, PiTypes', WireInv, node.pc \in {"prepared", "ended"}, NEW id \in Unanswered,
           UNCHANGED <<node, stdout, stdin>>, Moves(id, "write") \/ RaisesIn(id, {}),
           Moves(id, "write") => ServedAsk'
    PROVE  WireInv'
<1>1. /\ Unanswered = {id} /\ stdout = << >> /\ stdin = << >> /\ OnePlace /\ Asks(handlers[id])
      /\ id \in Ids
  BY OneRequest DEF WireInv, TaskInv, Unanswered
<1>2. host'.seq = host.seq /\ Len(stdout') = 0 /\ Len(stdin') = 0 /\ node.seq = host.seq + 0 /\ host.seq \in Nat
  BY <1>1 DEF Moves, RaisesIn, WireInv, PiTypes, HostTypes
<1>3. CASE Moves(id, "write")
  <2>1. /\ Unanswered' = {id} /\ handlers'[id].st = "write"
        /\ handlers'[id].kind = handlers[id].kind /\ handlers'[id].turn = handlers[id].turn
        /\ handlers'[id].call = handlers[id].call /\ handlers'[id].stop = handlers[id].stop
    BY <1>1, <1>3, OpenFacts DEF Moves
  <2>2. Asks(handlers[id])'
    BY <1>1, <2>1 DEF Asks
  <2>3. TaskInv'
    BY <1>3, <2>1, <2>2 DEF TaskInv
  <2>4. OutInv' /\ InInv' /\ OnePlace'
    BY <1>2, <2>1 DEF OutInv, InInv, OnePlace
  <2> QED
    BY <1>2, <2>3, <2>4 DEF WireInv
<1>4. CASE RaisesIn(id, {})
  <2>1. Nothing'
    BY <1>1, <1>4 DEF RaisesIn, Drops, Nothing
  <2> QED
    BY <1>2, <2>1, NothingOnWires
<1> QED
  BY <1>3, <1>4

LEMMA PrepareTalks ==
    ASSUME PiTypes, PiTypes', CareInv, Talking, "broken" \notin host.refused, NEW id \in Ids, PrepareServed(id)
    PROVE  Talking' /\ "broken" \notin host'.refused
<1>0. node' = node /\ UNCHANGED <<stdout, stdin, identities, running>> /\ host.pc = "reading"
      /\ handlers[id].kind = "prepare_request" /\ handlers[id].st = "new" /\ id \in Unanswered
  BY StillOpen DEF PrepareServed, HandlerKeeps
<1>1. node.pc \in {"prepared", "ended", "tools"} /\ TaskInv /\ handlers[id].kind = "prepare_request"
  BY <1>0 DEF Talking, WireInv, Nothing, PiTypes, NodeTypes
<1>2. node.pc = "prepared" /\ handlers[id].turn = node.turn /\ Before(node.turn) /\ node.turn \in Nat
      /\ node.turn >= 1
  BY <1>0, <1>1 DEF TaskInv, Asks, FreshAsk, PiTypes, NodeTypes, Talking, TurnInv
<1>3. Unanswered = {id}
  BY <1>0, <1>2, OneRequest DEF Talking
<1>4. running = {}
  <2>1. \A i \in Ids : handlers[i].st \notin {"slot", "tool"}
    BY <1>0, <1>3, StillOpen
  <2> QED
    BY <2>1 DEF CareInv
<1>5. handlers[id].turn = Len(active) + 1 /\ unfinished = {}
  BY <1>2 DEF Before
<1>6. /\ active' = Append(active, [status |-> "started", stop |-> "none"])
      /\ Saved(id, node.turn, "started")
  BY <1>2, <1>4, <1>5 DEF PrepareServed
<1>7. /\ Len(active') = node.turn /\ active'[node.turn].status = "started"
      /\ unfinished' = {node.turn}
  <2>1. [status |-> "started", stop |-> "none"] \in CallRecords /\ active \in Seq(CallRecords)
    BY DEF CallRecords, Stops, PiTypes
  <2>2. /\ Len(active') = Len(active) + 1
        /\ active'[Len(active) + 1] = [status |-> "started", stop |-> "none"]
    BY <1>6, <2>1, AppendFacts
  <2>3. Len(active) + 1 = node.turn
    BY <1>2, <1>5
  <2>4. unfinished' = {node.turn}
    BY <1>5, <1>6 DEF Saved
  <2> QED
    BY <2>2, <2>3, <2>4
<1>8. (Moves(id, "write") \/ RaisesIn(id, {})) /\ "broken" \notin host'.refused
  BY <1>6 DEF Saved, Moves, RaisesIn
<1>9. ServedAsk'
  BY <1>0, <1>2, <1>7 DEF ServedAsk, Open
<1>10. WireInv'
  BY <1>0, <1>2, <1>8, <1>9, OneServed DEF Talking
<1>11. TurnInv' /\ BudgetInv'
  BY <1>0, <1>2 DEF TurnInv, BudgetInv, Talking
<1> QED
  BY <1>8, <1>10, <1>11 DEF Talking

LEMMA ModelEndTalks ==
    ASSUME PiTypes, PiTypes', CareInv, Talking, "broken" \notin host.refused, NEW id \in Ids, ModelEndServed(id)
    PROVE  Talking' /\ "broken" \notin host'.refused
<1>0. node' = node /\ UNCHANGED <<stdout, stdin, identities, running>> /\ host.pc = "reading"
      /\ handlers[id].kind = "model_end" /\ handlers[id].st = "new" /\ id \in Unanswered
  BY StillOpen DEF ModelEndServed, HandlerKeeps
<1>1. node.pc \in {"prepared", "ended", "tools"} /\ TaskInv
  BY <1>0 DEF Talking, WireInv, Nothing, PiTypes, NodeTypes
<1>2. node.pc = "ended" /\ handlers[id].turn = node.turn /\ handlers[id].stop = node.stop /\ Open(node.turn)
      /\ node.turn \in Nat /\ node.turn >= 1 /\ node.stop \in Stops
  BY <1>0, <1>1 DEF TaskInv, Asks, FreshAsk, PiTypes, NodeTypes, Talking, TurnInv
<1> DEFINE turn == node.turn
           stop == node.stop
           e == [status |-> Status(stop), stop |-> stop]
<1>3. /\ turn \in unfinished /\ active[turn].status = "started" /\ unfinished = {turn}
  BY <1>2 DEF Open
<1>4. active' = [active EXCEPT ![turn] = e] /\ Saved(id, turn, Status(stop))
  BY <1>2, <1>3 DEF ModelEndServed
<1>5. Status(stop) \in {"succeeded", "failed"} /\ e \in CallRecords
  BY <1>2 DEF Status, CallRecords
<1> HIDE DEF e
<1>6. Len(active') = turn /\ active'[turn] = e
  <2>1. active \in Seq(CallRecords) /\ turn \in 1..Len(active) /\ Len(active) = turn
    BY <1>2, <1>3 DEF PiTypes, Open
  <2> QED
    BY <1>4, <1>5, <2>1, ExceptFacts
<1>7. (Moves(id, "write") /\ unfinished' = {}) \/ RaisesIn(id, {})
  BY <1>3, <1>4, <1>5 DEF Saved
<1>8. (Moves(id, "write") \/ RaisesIn(id, {})) /\ "broken" \notin host'.refused
  BY <1>7 DEF Moves, RaisesIn
<1>9. Moves(id, "write") => ServedAsk'
  <2>1. ASSUME Moves(id, "write") PROVE unfinished' = {}
    <3>1. Ids' = Ids
      BY <2>1 DEF Moves
    <3>2. ~ RaisesIn(id, {})
      BY <3>1 DEF RaisesIn, Drops
    <3> QED
      BY <1>7, <3>2
  <2> QED
    BY <1>0, <1>2, <1>6, <2>1 DEF ServedAsk, Closed, e
<1>10. WireInv'
  BY <1>0, <1>2, <1>8, <1>9, OneServed DEF Talking
<1>11. TurnInv' /\ BudgetInv'
  BY <1>0, <1>2 DEF TurnInv, BudgetInv, Talking
<1> QED
  BY <1>8, <1>10, <1>11 DEF Talking

\* The wires when a tool request is served on.
LEMMA ToolWires ==
    ASSUME PiTypes, PiTypes', WireInv, node.pc = "tools", NEW id \in Unanswered,
           UNCHANGED <<node, stdout>>, stdin' = stdin,
           (\E st \in {"slot", "tool", "write"} : Moves(id, st)) \/ (\E x : RaisesIn(id, x)),
           \A i \in 1..Len(stdout) : KeyOf(stdout[i]) \notin identities',
           \A i \in Unanswered : i # id /\ handlers[i].st = "new" => KeyOf(handlers[i]) \notin identities'
    PROVE  WireInv'
<1>0. OutInv /\ TaskInv /\ InInv /\ OnePlace
  BY DEF WireInv
<1>1. /\ host'.seq = host.seq /\ Unanswered' \subseteq Unanswered
      /\ \A i \in Unanswered \ {id} : handlers'[i] = handlers[i]
      /\ id \in Unanswered' => /\ handlers'[id].st \in {"slot", "tool", "write"}
                        /\ handlers'[id].kind = handlers[id].kind /\ handlers'[id].turn = handlers[id].turn
                        /\ handlers'[id].call = handlers[id].call /\ handlers'[id].stop = handlers[id].stop
  <2>1. id \in Ids
    BY DEF Unanswered
  <2>2. CASE \E st \in {"slot", "tool", "write"} : Moves(id, st)
    BY <2>1, <2>2, OpenFacts DEF Moves
  <2>3. CASE \E x : RaisesIn(id, x)
    BY <2>1, <2>3, OpenFacts DEF RaisesIn
  <2> QED
    BY <2>2, <2>3
<1>2. \A i \in Unanswered' : /\ handlers'[i].kind = handlers[i].kind /\ handlers'[i].turn = handlers[i].turn
                      /\ handlers'[i].call = handlers[i].call
  BY <1>1
<1>3. OutInv'
  BY <1>0, <1>1 DEF OutInv, Asks, FreshAsk, KeyOf
<1>4. TaskInv'
  <2> SUFFICES ASSUME NEW i \in Unanswered'
               PROVE  /\ Asks(handlers[i])' /\ (handlers'[i].st = "new" => FreshAsk(handlers[i])')
    BY DEF TaskInv, ServedAsk
  <2>1. Asks(handlers[i]) /\ i \in Unanswered
    BY <1>0, <1>1 DEF TaskInv
  <2>2. Asks(handlers[i])'
    BY <1>2, <2>1 DEF Asks
  <2>3. handlers'[i].st = "new" => i # id /\ handlers'[i] = handlers[i]
    BY <1>1
  <2>4. handlers'[i].st = "new" => FreshAsk(handlers[i])'
    BY <2>1, <2>3 DEF FreshAsk, KeyOf
  <2> QED
    BY <2>2, <2>4
<1>5. InInv'
  BY <1>0 DEF InInv, Answers, ServedAsk
<1>6. OnePlace'
  BY <1>0, <1>1, <1>2 DEF OnePlace
<1>7. node'.seq = host'.seq + Len(stdout')
  BY <1>1 DEF WireInv
<1> QED
  BY <1>3, <1>4, <1>5, <1>6, <1>7 DEF WireInv

LEMMA ToolCallTalks ==
    ASSUME PiTypes, PiTypes', CareInv, Talking, "broken" \notin host.refused, NEW id \in Ids, ToolCallServed(id)
    PROVE  Talking' /\ "broken" \notin host'.refused
<1> USE PiAssumption
<1> DEFINE key == KeyOf(handlers[id])
<1>0. node' = node /\ UNCHANGED <<stdout, stdin, active, unfinished>> /\ host.pc = "reading"
      /\ handlers[id].kind = "tool_call" /\ handlers[id].st = "new" /\ id \in Unanswered
  BY StillOpen DEF ToolCallServed, HandlerKeeps
<1>1. node.pc \in {"prepared", "ended", "tools"} /\ TaskInv
  BY <1>0 DEF Talking, WireInv, Nothing, PiTypes, NodeTypes
<1>2. /\ node.pc = "tools" /\ handlers[id].turn = node.turn /\ handlers[id].call \in CallIds
      /\ node.batch[handlers[id].call] = "asked" /\ key \notin identities
      /\ node.turn \in 0..MaxTurns /\ node.used \in Nat
  BY <1>0, <1>1 DEF TaskInv, Asks, FreshAsk, PiTypes, NodeTypes
<1>3. Closed(node.turn, node.stop) /\ ~Failed(node.stop) /\ OutInv /\ OnePlace
  BY <1>2 DEF Talking, TurnInv, WireInv
<1>4. /\ Cardinality(Claims) <= node.used /\ node.used <= MaxToolCalls /\ IsFiniteSet(identities)
      /\ IsFiniteSet(Claims) /\ Cardinality(Claims) \in Nat
  <2>1. IsFiniteSet(identities)
    BY DEF Talking, BudgetInv
  <2>2. IsFiniteSet(Claims) /\ Cardinality(Claims) \in Nat
    BY <2>1, ClaimFacts DEF Claims
  <2> QED
    BY <1>2, <2>1, <2>2 DEF Talking, BudgetInv
<1>5. key \in Claims /\ identities \cup {key} \subseteq Claims
  BY <1>2 DEF Claims, KeyOf
<1>6. /\ Cardinality(identities) \in Nat /\ Cardinality(identities \cup {key}) = Cardinality(identities) + 1
      /\ IsFiniteSet(identities \cup {key}) /\ Cardinality(identities \cup {key}) <= Cardinality(Claims)
  <2> HIDE DEF key
  <2> QED
    BY <1>2, <1>4, <1>5, FS_AddElement, FS_Subset, FS_CardinalityType
<1>7. Cardinality(identities) < MaxToolCalls /\ Cardinality(identities \cup {key}) <= node.used
  <2> HIDE DEF key
  <2> QED
    BY <1>2, <1>4, <1>6
<1>8. ToolRequestInOrder(handlers[id])
  BY <1>2, <1>3, <1>7 DEF ToolRequestInOrder, Closed, Status, KeyOf
<1>9. \/ Moves(id, "slot") /\ identities' = identities \cup {key}
      \/ RaisesIn(id, {"stopReason"}) /\ identities' = identities
  BY <1>8 DEF ToolCallServed
<1>10. WireInv'
  <2>1. \A i \in 1..Len(stdout) : KeyOf(stdout[i]) \notin identities'
    <3> TAKE i \in 1..Len(stdout)
    <3>1. stdout[i].call # handlers[id].call /\ KeyOf(stdout[i]) \notin identities
      BY <1>0, <1>2, <1>3 DEF OnePlace, OutInv, FreshAsk
    <3> QED
      BY <1>9, <3>1 DEF KeyOf
  <2>2. \A i \in Unanswered : i # id /\ handlers[i].st = "new" => KeyOf(handlers[i]) \notin identities'
    <3> SUFFICES ASSUME NEW i \in Unanswered, i # id, handlers[i].st = "new" PROVE KeyOf(handlers[i]) \notin identities'
      OBVIOUS
    <3>1. handlers[i].call # handlers[id].call /\ KeyOf(handlers[i]) \notin identities
      BY <1>0, <1>1, <1>2, <1>3 DEF OnePlace, TaskInv, FreshAsk
    <3> QED
      BY <1>9, <3>1 DEF KeyOf
  <2> QED
    BY <1>0, <1>2, <1>9, <2>1, <2>2, ToolWires DEF Talking
<1>11. TurnInv'
  BY <1>0, <1>2 DEF TurnInv, Talking, Closed
<1>12. BudgetInv'
  <2>1. Claims' = Claims
    BY <1>0, <1>5, <1>9 DEF Claims
  <2>2. \A k \in identities' : k[1] <= node.turn
    <3>1. key[1] = node.turn
      BY <1>2 DEF KeyOf
    <3> QED
      BY <1>2, <1>9, <3>1 DEF Talking, BudgetInv
  <2>3. \A c \in CallIds : node.batch[c] = "wanted" => <<node.turn, c>> \notin identities'
    <3> SUFFICES ASSUME NEW c \in CallIds, node.batch[c] = "wanted" PROVE <<node.turn, c>> \notin identities'
      OBVIOUS
    <3>1. <<node.turn, c>> \notin identities /\ c # handlers[id].call
      BY <1>2 DEF Talking, BudgetInv
    <3> QED
      BY <1>9, <3>1 DEF KeyOf
  <2>4. IsFiniteSet(identities') /\ Cardinality(identities') <= node.used
    BY <1>6, <1>7, <1>9 DEF Talking, BudgetInv
  <2> QED
    BY <1>0, <1>2, <1>4, <2>1, <2>2, <2>3, <2>4 DEF BudgetInv, Talking
<1> QED
  BY <1>9, <1>10, <1>11, <1>12 DEF Talking, Moves, RaisesIn

LEMMA ServingTalks ==
    ASSUME PiTypes, PiTypes', Talking, "broken" \notin host.refused, NEW id \in Ids, SlotTaken(id) \/ ToolEnded(id)
    PROVE  Talking' /\ "broken" \notin host'.refused
<1>0. /\ node' = node /\ UNCHANGED <<stdout, stdin, active, unfinished, identities>> /\ host.pc = "reading"
      /\ handlers[id].st \in {"slot", "tool"} /\ id \in Unanswered
      /\ (\E st \in {"slot", "tool", "write"} : Moves(id, st)) \/ RaisesIn(id, {})
  BY StillOpen DEF SlotTaken, ToolEnded, HandlerKeeps
<1>1. node.pc \in {"prepared", "ended", "tools"} /\ TaskInv
  BY <1>0 DEF Talking, WireInv, Nothing, PiTypes, NodeTypes
<1>2. node.pc = "tools" /\ OutInv
  BY <1>0, <1>1 DEF TaskInv, Talking, WireInv
<1>3. WireInv'
  BY <1>0, <1>1, <1>2, ToolWires DEF Talking, OutInv, TaskInv, FreshAsk
<1>4. TurnInv'
  BY <1>0, <1>2 DEF TurnInv, Talking, Closed
<1>5. BudgetInv'
  BY <1>0 DEF BudgetInv, Talking, Claims
<1>6. "broken" \notin host'.refused
  BY <1>0 DEF Moves, RaisesIn
<1> QED
  BY <1>3, <1>4, <1>5, <1>6 DEF Talking

LEMMA ResponseTalks ==
    ASSUME PiTypes, PiTypes', Talking, "broken" \notin host.refused, NEW id \in Ids, ResponseWritten(id)
    PROVE  Talking' /\ "broken" \notin host'.refused
<1>0. /\ node' = node /\ UNCHANGED <<stdout, active, unfinished, identities>> /\ host.pc = "reading"
      /\ handlers[id].st = "write" /\ id \in Unanswered
      /\ host'.seq = host.seq /\ "broken" \notin host'.refused
      /\ stdin' = stdin \/ stdin' = Append(stdin, Response(handlers[id]))
  BY StillOpen DEF ResponseWritten, HandlerKeeps, RaisesIn, Moves
<1>1. node.pc \in {"prepared", "ended", "tools"} /\ TaskInv /\ OutInv /\ InInv /\ OnePlace
      /\ node.seq = host.seq + Len(stdout)
  BY <1>0 DEF Talking, WireInv, Nothing, PiTypes, NodeTypes
<1>2. TurnInv'
  BY <1>0 DEF TurnInv, Talking, Closed, Open
<1>3. BudgetInv'
  BY <1>0 DEF BudgetInv, Talking, Claims
<1>4. Unanswered' = Unanswered \ {id} /\ \A i \in Unanswered' : handlers'[i] = handlers[i]
  BY OpenFacts DEF ResponseWritten, RaisesIn, Replied
<1>5. OutInv'
  BY <1>0, <1>1 DEF OutInv, Asks, FreshAsk, Before, Open
<1>6. TaskInv'
  <2> SUFFICES ASSUME NEW i \in Unanswered'
               PROVE  /\ Asks(handlers[i])'
                      /\ handlers[i].st = "new" => FreshAsk(handlers[i])'
                      /\ handlers[i].st # "new" => ServedAsk'
                      /\ handlers[i].st \in {"slot", "tool"} => node'.pc = "tools"
    BY <1>4 DEF TaskInv
  <2>1. i \in Unanswered /\ handlers'[i] = handlers[i]
    BY <1>4
  <2> QED
    BY <1>0, <1>1, <2>1 DEF TaskInv, Asks, FreshAsk, ServedAsk, Before, Open, Closed
<1>7. ServedAsk /\ (ServedAsk => ServedAsk') /\ Asks(handlers[id])
  BY <1>0, <1>1 DEF TaskInv, ServedAsk, Open, Closed
<1>8. CASE stdin' = stdin
  <2>1. InInv'
    BY <1>0, <1>1, <1>7, <1>8 DEF InInv, Answers
  <2>2. OnePlace'
    BY <1>0, <1>1, <1>4, <1>8 DEF OnePlace
  <2>3. WireInv'
    BY <1>0, <1>1, <1>5, <1>6, <2>1, <2>2 DEF WireInv
  <2> QED
    BY <1>0, <1>2, <1>3, <2>3 DEF Talking
<1>9. CASE stdin' = Append(stdin, Response(handlers[id]))
  <2> DEFINE e == Response(handlers[id])
  <2>1. /\ e \in InRecords /\ e.type = "response" /\ e.kind = handlers[id].kind /\ e.call = handlers[id].call
        /\ stdin \in Seq(InRecords)
    <3>1. handlers[id] \in HandlerTypes
      BY DEF PiTypes
    <3> QED
      BY <3>1 DEF Response, InRecords, HandlerTypes, PiTypes
  <2> HIDE DEF e
  <2>2. PICK m \in Nat : m = Len(stdin) + 1 /\ Len(stdin) \in Nat
    BY <2>1
  <2>3. /\ Len(stdin') = m /\ stdin'[m] = e
        /\ \A i \in 1..Len(stdin) : stdin'[i] = stdin[i]
    BY <1>9, <2>1, <2>2, AppendFacts DEF e
  <2>4. ASSUME NEW i \in 1..Len(stdin') PROVE (i = m /\ stdin'[i] = e) \/ (i \in 1..Len(stdin) /\ stdin'[i] = stdin[i])
    BY <2>2, <2>3
  <2>5. Answers(e)
    BY <1>1, <1>7, <2>1 DEF Asks, Answers
  <2>6. InInv'
    <3> SUFFICES ASSUME NEW i \in 1..Len(stdin') PROVE Answers(stdin[i])'
      BY <1>7 DEF InInv
    <3>1. Answers(stdin'[i])
      BY <1>1, <2>4, <2>5 DEF InInv
    <3> QED
      BY <1>0, <3>1 DEF Answers
  <2>7. OnePlace'
    <3>1. \A i \in 1..Len(stdin') : \/ i = m /\ stdin'[i].call = handlers[id].call
                                    \/ i \in 1..Len(stdin) /\ stdin'[i].call = stdin[i].call
      BY <2>1, <2>4
    <3>2. \A i, j \in 1..Len(stdin') : stdin'[i].call = stdin'[j].call => i = j
      BY <1>0, <1>1, <3>1 DEF OnePlace
    <3>3. \A i \in 1..Len(stdout), j \in 1..Len(stdin') : stdout[i].call # stdin'[j].call
      BY <1>0, <1>1, <3>1 DEF OnePlace
    <3>4. \A i \in Unanswered', j \in 1..Len(stdin') : handlers'[i].call # stdin'[j].call
      BY <1>0, <1>1, <1>4, <3>1 DEF OnePlace
    <3>5. /\ \A i, j \in Unanswered' : handlers'[i].call = handlers'[j].call => i = j
          /\ \A i \in 1..Len(stdout), j \in Unanswered' : stdout[i].call # handlers'[j].call
      BY <1>1, <1>4 DEF OnePlace
    <3> QED
      BY <1>0, <1>1, <3>2, <3>3, <3>4, <3>5 DEF OnePlace
  <2>8. WireInv'
    BY <1>0, <1>1, <1>5, <1>6, <2>6, <2>7 DEF WireInv
  <2> QED
    BY <1>0, <1>2, <1>3, <2>8 DEF Talking
<1> QED
  BY <1>0, <1>8, <1>9

\* The tasks of answered requests are none of the conversation.
LEMMA OverTalks ==
    ASSUME Talking, "broken" \notin host.refused, NEW id \in Ids, ResponseOver(id)
    PROVE  Talking' /\ "broken" \notin host'.refused
<1>1. /\ UNCHANGED <<node, stdout, stdin, active, unfinished, identities>> /\ host'.seq = host.seq
      /\ host'.refused = host.refused \cup {}
  BY DEF ResponseOver, HandlerKeeps, Moves, RaisesIn
<1>2. id \notin Unanswered
  BY DEF ResponseOver, Unanswered, Replied
<1>3. Unanswered' = Unanswered /\ \A i \in Unanswered : handlers'[i] = handlers[i]
  BY <1>2, OpenFacts DEF ResponseOver, RaisesIn, Replied
<1>4. OutInv = OutInv' /\ InInv = InInv'
  BY <1>1 DEF OutInv, InInv, Asks, Answers, FreshAsk, ServedAsk, Before, Open, Closed, KeyOf
<1>5. TaskInv => TaskInv'
  BY <1>1, <1>3 DEF TaskInv, Asks, FreshAsk, ServedAsk, Before, Open, Closed, KeyOf
<1>6. OnePlace => OnePlace'
  BY <1>1, <1>3 DEF OnePlace
<1>7. WireInv'
  BY <1>1, <1>3, <1>4, <1>5, <1>6 DEF Talking, WireInv, Nothing, Closed
<1>8. TurnInv' /\ BudgetInv'
  BY <1>1 DEF Talking, TurnInv, BudgetInv, Open, Closed, Claims
<1> QED
  BY <1>1, <1>7, <1>8 DEF Talking

\* The tasks of open requests are fewer than the worker's slots when one more is read.
LEMMA RoomForRequest ==
    ASSUME PiTypes, Talking, host.pc = "reading", stdout # << >>, node.pc \in {"prepared", "ended", "tools"}
    PROVE  Cardinality(Unanswered) < MaxPending
<1> USE PiAssumption
<1>1. CASE node.pc \in {"prepared", "ended"}
  <2>1. Unanswered = {}
    BY <1>1, OneRequest DEF Talking
  <2> QED
    BY <2>1, FS_EmptySet
<1>2. CASE node.pc = "tools"
  <2> DEFINE S == {c \in CallIds : node.batch[c] = "asked"}
             T == S \ {stdout[1].call}
             f == [id \in Unanswered |-> handlers[id].call]
  <2>0. OutInv /\ TaskInv /\ OnePlace /\ 1 \in 1..Len(stdout)
    <3>1. Len(stdout) \in Nat \ {0}
      BY TailFacts DEF PiTypes
    <3> QED
      BY <1>2, <3>1 DEF Talking, WireInv
  <2>1. stdout[1].call \in S /\ IsFiniteSet(S) /\ Cardinality(S) \in Nat /\ Cardinality(S) <= MaxParallel
    <3>1. stdout[1].call \in S
      BY <1>2, <2>0 DEF OutInv, Asks
    <3>2. IsFiniteSet(S) /\ Cardinality(S) \in Nat
      BY FS_Subset, FS_CardinalityType
    <3>3. Cardinality(S) <= MaxParallel
      BY DEF Talking, BudgetInv, Asked
    <3> QED
      BY <3>1, <3>2, <3>3
  <2>2. \A id \in Unanswered : handlers[id].call \in T
    BY <1>2, <2>0 DEF TaskInv, Asks, OnePlace
  <2>3. \A i, j \in Unanswered : handlers[i].call = handlers[j].call => i = j
    BY <2>0 DEF OnePlace
  <2> HIDE DEF S
  <2>4. IsFiniteSet(T) /\ Cardinality(T) = Cardinality(S) - 1
    BY <2>1, FS_RemoveElement
  <2> HIDE DEF T
  <2>5. f \in Injection(Unanswered, T)
    <3>1. f \in [Unanswered -> T] /\ \A i, j \in Unanswered : f[i] = f[j] => i = j
      BY <2>2, <2>3
    <3> QED
      BY <3>1 DEF Injection, IsInjective
  <2> HIDE DEF f
  <2>6. IsFiniteSet(Unanswered) /\ Cardinality(Unanswered) <= Cardinality(T)
    BY <2>4, <2>5, FS_Injection
  <2>7. Cardinality(Unanswered) \in Nat
    BY <2>6, FS_CardinalityType
  <2> QED
    BY <2>1, <2>4, <2>6, <2>7
<1> QED
  BY <1>1, <1>2

\* A record that is read: the next request, or the worker's last word.
LEMMA ReadTalks ==
    ASSUME PiTypes, PiTypes', CareInv, Talking, "broken" \notin host.refused, RecordRead
    PROVE  /\ "broken" \notin host'.refused
           /\ host'.pc = "reading" => Talking'
           /\ host'.end = "result" /\ host'.pc \in {"cleanup", "closing"} => ResultMatches'
<1> DEFINE r == Head(stdout)
<1>0. /\ host.pc = "reading" /\ stdout # << >> /\ stdout' = Tail(stdout) /\ node' = node /\ stdin' = stdin
      /\ UNCHANGED <<active, unfinished, identities>>
  BY DEF RecordRead, Still
<1>1. /\ Len(stdout) \in Nat \ {0} /\ Len(stdout') = Len(stdout) - 1 /\ r = stdout[1] /\ 1 \in 1..Len(stdout)
      /\ \A i \in 1..Len(stdout') : stdout'[i] = stdout[i + 1] /\ i + 1 \in 1..Len(stdout)
  BY <1>0, TailFacts DEF PiTypes
<1>2. node.pc \in {"prepared", "ended", "tools", "done"}
  BY <1>0 DEF Talking, WireInv, Nothing, PiTypes, NodeTypes
<1>3. CASE node.pc = "done"
  <2>1. Unanswered = {} /\ r.type # "request" /\ (r.type = "result" => Closed(r.turn, "stop"))
    BY <1>1, <1>3 DEF Talking, WireInv
  <2>2. \/ r.type = "result" /\ ToEnd("result", {}) /\ host'.turns = r.turn
        \/ \E x : "broken" \notin x /\ ToEnd("failed", x)
    BY <2>1 DEF RecordRead
  <2>3. Closed(r.turn, "stop") /\ host'.turns = r.turn => ResultMatches'
    <3>1. active # << >> \/ Len(active) = 0
      OBVIOUS
    <3>2. ASSUME Closed(r.turn, "stop"), host'.turns = r.turn
          PROVE  /\ r.turn >= 1 /\ Len(active) = r.turn /\ unfinished = {}
                 /\ active[Len(active)] = [status |-> "succeeded", stop |-> "stop"]
      BY <3>2 DEF Closed, Status, Failed
    <3> QED
      BY <1>0, <3>1, <3>2 DEF ResultMatches
  <2> QED
    BY <2>1, <2>2, <2>3 DEF ToEnd
<1>4. CASE node.pc \in {"prepared", "ended", "tools"}
  <2>1. OutInv /\ TaskInv /\ InInv /\ OnePlace /\ node.seq = host.seq + Len(stdout)
    BY <1>4 DEF Talking, WireInv
  <2>2. r.type = "request" /\ r.id = host.seq + 1 /\ Asks(r) /\ FreshAsk(r)
    BY <1>1, <2>1 DEF OutInv
  <2>3. Cardinality(Unanswered) < MaxPending
    BY <1>0, <1>4, RoomForRequest
  <2>4. \/ host'.pc = "reading" /\ host'.refused = host.refused
        \/ \E x : "broken" \notin x /\ ToEnd("failed", x)
    BY <1>0, <2>2, <2>3 DEF RecordRead
  <2>a. CASE \E x : "broken" \notin x /\ ToEnd("failed", x)
    BY <2>a DEF ToEnd
  <2>b. SUFFICES ASSUME host'.pc = "reading", host'.refused = host.refused PROVE Talking'
    BY <2>4, <2>a
  <2> DEFINE n == host.seq + 1
  <2>5. host'.seq = n /\ Taken(n, HandlerOf(r)) /\ host.seq \in Nat
    BY <2>b, ReadTakes DEF PiTypes, HostTypes
  <2>c. Unanswered \subseteq Ids
    BY DEF Unanswered
  <2>6. /\ Unanswered' = Unanswered \cup {n} /\ n \notin Unanswered /\ \A i \in Unanswered : handlers'[i] = handlers[i]
        /\ handlers'[n].kind = r.kind /\ handlers'[n].turn = r.turn /\ handlers'[n].call = r.call
        /\ handlers'[n].stop = r.stop /\ handlers'[n].st = "new"
    BY <2>5, <2>c DEF Taken, HandlerOf
  <2> HIDE DEF r
  <2>7. PICK m \in Nat : m = n
    BY <2>5
  <2> HIDE DEF n
  <2>8. TurnInv' /\ BudgetInv'
    BY <1>0 DEF Talking, TurnInv, BudgetInv, Claims, Open, Closed
  <2>9. OutInv'
    <3> SUFFICES ASSUME NEW i \in 1..Len(stdout')
                 PROVE  /\ stdout'[i].type = "request" /\ stdout'[i].id = host'.seq + i
                        /\ Asks(stdout[i])' /\ FreshAsk(stdout[i])'
      BY DEF OutInv
    <3>1. PICK j \in 1..Len(stdout) : j = i + 1 /\ stdout'[i] = stdout[j]
      BY <1>1
    <3>2. stdout[j].type = "request" /\ stdout[j].id = host.seq + j /\ Asks(stdout[j]) /\ FreshAsk(stdout[j])
      BY <2>1 DEF OutInv
    <3>3. host.seq + j = host'.seq + i
      <4>1. i \in Int /\ host.seq \in Nat /\ host'.seq = host.seq + 1
        BY <2>5 DEF n
      <4>2. j = i + 1
        BY <3>1
      <4> QED
        BY <4>1, <4>2
    <3>4. Asks(stdout[i])' /\ FreshAsk(stdout[i])'
      BY <1>0, <3>1, <3>2 DEF Asks, FreshAsk, Before, Open, KeyOf
    <3> QED
      BY <3>1, <3>2, <3>3, <3>4
  <2>10. TaskInv'
    <3> SUFFICES ASSUME NEW i \in Unanswered'
                 PROVE  /\ Asks(handlers[i])'
                        /\ handlers'[i].st = "new" => FreshAsk(handlers[i])'
                        /\ handlers'[i].st # "new" => ServedAsk'
                        /\ handlers'[i].st \in {"slot", "tool"} => node'.pc = "tools"
      BY DEF TaskInv
    <3>1. CASE i \in Unanswered
      BY <1>0, <2>1, <2>6, <3>1 DEF TaskInv, Asks, FreshAsk, ServedAsk, Before, Open, Closed, KeyOf
    <3>2. CASE i = n
      BY <1>0, <2>2, <2>6, <3>2 DEF Asks, FreshAsk, Before, Open, KeyOf
    <3> QED
      BY <2>6, <3>1, <3>2
  <2>11. InInv'
    BY <1>0, <2>1 DEF InInv, Answers, ServedAsk, Open, Closed
  <2>12. OnePlace'
    <3>1. \A i \in 1..Len(stdout') : \E j \in 1..Len(stdout) : j = i + 1 /\ j # 1 /\ stdout'[i].call = stdout[j].call
      <4> TAKE i \in 1..Len(stdout')
      <4>1. i + 1 \in 1..Len(stdout) /\ stdout'[i] = stdout[i + 1] /\ i + 1 # 1
        BY <1>1
      <4> QED
        BY <4>1
    <3>2. \A i, j \in 1..Len(stdout') : stdout'[i].call = stdout'[j].call => i = j
      <4> SUFFICES ASSUME NEW i \in 1..Len(stdout'), NEW j \in 1..Len(stdout'), stdout'[i].call = stdout'[j].call
                   PROVE  i = j
        OBVIOUS
      <4>1. PICK a \in 1..Len(stdout) : a = i + 1 /\ stdout'[i].call = stdout[a].call
        BY <3>1
      <4>2. PICK b \in 1..Len(stdout) : b = j + 1 /\ stdout'[j].call = stdout[b].call
        BY <3>1
      <4>3. a = b
        BY <2>1, <4>1, <4>2 DEF OnePlace
      <4> QED
        BY <4>1, <4>2, <4>3
    <3>3. \A i \in 1..Len(stdout'), j \in Unanswered' : stdout'[i].call # handlers'[j].call
      <4> SUFFICES ASSUME NEW i \in 1..Len(stdout'), NEW j \in Unanswered' PROVE stdout'[i].call # handlers'[j].call
        OBVIOUS
      <4>1. PICK a \in 1..Len(stdout) : a # 1 /\ stdout'[i].call = stdout[a].call
        BY <3>1
      <4>2. stdout[a].call # r.call
        BY <1>1, <2>1, <4>1 DEF OnePlace
      <4>3. \A id \in Unanswered : stdout[a].call # handlers[id].call
        BY <2>1 DEF OnePlace
      <4> QED
        BY <2>6, <4>1, <4>2, <4>3
    <3>4. \A i \in 1..Len(stdout'), j \in 1..Len(stdin) : stdout'[i].call # stdin[j].call
      BY <2>1, <3>1 DEF OnePlace
    <3>5. /\ \A id \in Unanswered : handlers[id].call # r.call
          /\ \A i \in 1..Len(stdin) : stdin[i].call # r.call
      BY <1>1, <2>1 DEF OnePlace
    <3>6. \A i, j \in Unanswered' : handlers'[i].call = handlers'[j].call => i = j
      BY <2>1, <2>6, <3>5 DEF OnePlace
    <3>7. \A i \in Unanswered', j \in 1..Len(stdin) : handlers'[i].call # stdin[j].call
      BY <2>1, <2>6, <3>5 DEF OnePlace
    <3> QED
      BY <1>0, <2>1, <3>2, <3>3, <3>4, <3>6, <3>7 DEF OnePlace
  <2>13. node'.seq = host'.seq + Len(stdout')
    BY <1>0, <1>1, <2>1, <2>5 DEF n
  <2>14. WireInv'
    BY <1>0, <1>4, <2>9, <2>10, <2>11, <2>12, <2>13 DEF WireInv
  <2> QED
    BY <2>8, <2>14 DEF Talking
<1> QED
  BY <1>2, <1>3, <1>4

\* The conversation begins.
LEMMA StartTalks ==
    ASSUME PiTypes, PiTypes', CareInv, TalkInv, WorkerStarted, host'.pc = "reading"
    PROVE  Talking'
<1> USE PiAssumption
<1>0. /\ host.pc = "idle" /\ node = NoNode /\ stdout = << >> /\ active = << >> /\ identities = {} /\ host.seq = 0
      /\ unfinished = {} /\ Unanswered = {} /\ UNCHANGED <<stdout, handlers, active, unfinished, identities>>
      /\ host'.seq = 0 /\ node' = [node EXCEPT !.st = "up"] /\ stdin' = <<Started>> /\ Unanswered' = {}
  BY DEF WorkerStarted, TalkInv, CareInv, Still, Unanswered, Ids
<1>1. /\ node'.pc = "start" /\ node'.turn = 0 /\ node'.used = 0 /\ node'.seq = 0
      /\ \A c \in CallIds : node'.batch[c] = "none"
  BY <1>0 DEF NoNode
<1>2. Len(stdout') = 0 /\ Len(stdin') = 1
  BY <1>0
<1>3. WireInv'
  BY <1>0, <1>1, <1>2 DEF WireInv, OnePlace
<1>4. TurnInv'
  BY <1>0, <1>1 DEF TurnInv
<1>5. BudgetInv'
  <2>1. Asked(node'.batch) = 0
    <3>1. {c \in CallIds : node'.batch[c] = "asked"} = {}
      BY <1>1
    <3> QED
      BY <3>1, FS_EmptySet DEF Asked
  <2>2. IsFiniteSet(identities') /\ Cardinality(identities') = 0
    BY <1>0, FS_EmptySet
  <2> QED
    BY <1>0, <1>1, <2>1, <2>2 DEF BudgetInv
<1> QED
  BY <1>3, <1>4, <1>5 DEF Talking

LEMMA TalkStep ==
    ASSUME PiTypes, CareInv, TalkInv, [Next]_vars
    PROVE  TalkInv'
<1>1. PiTypes' /\ (NodeStep \/ HostShape)
  BY PiShapes
<1>0. "broken" \notin host.refused /\ (host.pc = "reading" => Talking)
  BY DEF TalkInv, Talking
<1>2. CASE NodeStep
  <2>1. host.pc # "idle" /\ UNCHANGED <<host, active, unfinished>>
    BY <1>2, NodeLeaves DEF CareInv
  <2>2. host.pc = "reading" => Talking'
    BY <1>0, <1>1, <1>2, PreparesTalks, ModelEndsTalks, ReadsTalks, CallsTalks, FinishesTalks DEF NodeStep
  <2> QED
    BY <2>1, <2>2 DEF TalkInv, Talking, ResultMatches
<1>3. CASE WorkerStarted
  <2>1. host'.pc \in {"reading", "over"} /\ host'.refused = host.refused
    BY <1>3 DEF WorkerStarted
  <2>2. host'.pc = "reading" => Talking'
    BY <1>1, <1>3, StartTalks
  <2> QED
    BY <1>0, <2>1, <2>2 DEF TalkInv, Talking
<1>4. CASE RecordRead
  <2>1. host.pc = "reading" /\ host'.pc \in {"reading", "cleanup"}
    BY <1>4, ReadTakes
  <2>2. /\ "broken" \notin host'.refused
        /\ host'.pc = "reading" => Talking'
        /\ host'.end = "result" /\ host'.pc \in {"cleanup", "closing"} => ResultMatches'
    BY <1>0, <1>1, <1>4, <2>1, ReadTalks
  <2> QED
    BY <2>1, <2>2 DEF TalkInv, Talking
<1>5. CASE ReadingStopped \/ InterruptedAgain \/ CleanedUp \/ WorkerClosed
  BY <1>0, <1>5 DEF ReadingStopped, InterruptedAgain, CleanedUp, WorkerClosed, ToEnd, Still, TalkInv, ResultMatches
<1>6. CASE Finished
  BY <1>0, <1>6 DEF Finished, TalkInv
<1>7. CASE Quiet
  <2>1. UNCHANGED <<node, stdout, stdin, host, handlers, active, unfinished, identities>>
    BY <1>7 DEF Quiet, Still
  <2>2. host.pc = "reading" => WireInv'
    BY <1>0, <2>1, SameWires DEF Talking
  <2>3. host.pc = "reading" => TurnInv' /\ BudgetInv'
    BY <1>0, <2>1 DEF Talking, TurnInv, BudgetInv, Open, Closed, Claims
  <2> QED
    BY <2>1, <2>2, <2>3 DEF TalkInv, ResultMatches
<1>8. ASSUME NEW id \in Ids, HandlerShape(id) PROVE TalkInv'
  <2>1. host.pc = "reading" /\ host'.pc = "reading"
    BY <1>8, HandlerLeaves
  <2>2. Talking' /\ "broken" \notin host'.refused
    BY <1>0, <1>1, <1>8, <2>1, PrepareTalks, ModelEndTalks, ToolCallTalks, ServingTalks, ResponseTalks,
       OverTalks DEF HandlerShape
  <2> QED
    BY <2>1, <2>2 DEF TalkInv, Talking
<1>9. ASSUME NEW id \in Ids, HandlerCanceled(id) PROVE TalkInv'
  BY <1>0, <1>9 DEF HandlerCanceled, TalkInv, ResultMatches
<1> QED
  BY <1>1, <1>2, <1>3, <1>4, <1>5, <1>6, <1>7, <1>8, <1>9 DEF HostShape

LEMMA TalkHolds == Spec => []TalkInv
<1>1. Init => TalkInv
  BY DEF Init, PiInit, TalkInv
<1>2. PiTypes /\ CareInv /\ TalkInv /\ [Next]_vars => TalkInv'
  BY TalkStep
<1> QED
  BY <1>1, <1>2, PiTypesHold, CareHolds, PTL DEF Spec

\* Two things apart, no order of the worker's requests, of the responses and of the tools'
\* ends makes the host refuse its own worker: identities, turn order, budgets, the bound on
\* unanswered requests and the match of the result are kept by the worker itself.  What is
\* left to the host is a record that overtakes the end of a task whose answer the worker has,
\* and a model that names tools under another stop reason than toolUse.
THEOREM ProtocolKept == Spec => []WorkerKeepsProtocol
<1>1. TalkInv => WorkerKeepsProtocol
  BY DEF TalkInv, WorkerKeepsProtocol
<1> QED
  BY <1>1, TalkHolds, PTL

Served(id) == handlers[id].st \in {"slot", "tool"}

LEMMA ServedStep ==
    ASSUME PiTypes, CareInv, TalkInv, ServedInv, [Next]_vars
    PROVE  ServedInv'
<1> USE PiAssumption DEF Served
<1>1. PiTypes' /\ (NodeStep \/ HostShape)
  BY PiShapes
<1>2. CASE NodeStep
  BY <1>2, NodeLeaves DEF ServedInv
<1>3. CASE WorkerStarted
  <2>1. Len(active') = 0 /\ Ids' = {} /\ unfinished' = {}
    BY <1>3 DEF WorkerStarted, Still, TalkInv, CareInv, Ids
  <2> QED
    BY <2>1 DEF ServedInv
<1>4. CASE RecordRead
  <2>1. host.pc = "reading" /\ UNCHANGED <<active, stored, unfinished, identities, running>>
    BY <1>4, ReadTakes DEF Still
  <2>2. \A i \in Ids' : Served(i)' => i \in Ids /\ handlers'[i] = handlers[i]
    BY <1>4, ReadTakes DEF Taken, HandlerOf, Ids
  <2> QED
    BY <2>1, <2>2 DEF ServedInv
<1>5. CASE ReadingStopped \/ InterruptedAgain \/ CleanedUp \/ WorkerClosed \/ Quiet
  <2>1. UNCHANGED <<active, stored, unfinished, identities, running, handlers>> /\ (host'.pc = "reading" => host.pc = "reading")
    BY <1>5 DEF ReadingStopped, InterruptedAgain, CleanedUp, WorkerClosed, Quiet, ToEnd, Still
  <2> QED
    BY <2>1 DEF ServedInv, Ids
<1>6. CASE Finished
  BY <1>6 DEF Finished, ServedInv, CareInv, Ids
<1>7. ASSUME NEW id \in Ids, HandlerCanceled(id) PROVE ServedInv'
  BY <1>7 DEF HandlerCanceled, Drops, ServedInv
<1>8. ASSUME NEW id \in Ids, HandlerShape(id) PROVE ServedInv'
  <2>0. host.pc = "reading" /\ host'.pc = "reading" /\ Talking /\ Len(active) \in Nat
    BY <1>8, HandlerLeaves DEF TalkInv, Talking, PiTypes
  <2>00. Ids' \subseteq Ids /\ \A i \in Ids' \ {id} : handlers'[i] = handlers[i]
    BY <1>8, HandlerLeaves DEF Drops
  <2>1. CASE UNCHANGED <<active, stored, unfinished, identities, running>> /\ (id \in Ids' => ~Served(id)')
    BY <2>0, <2>00, <2>1 DEF ServedInv
  <2>2. CASE /\ handlers[id].turn = Len(active) + 1 /\ unfinished = {} /\ running = {} /\ PrepareServed(id)
             /\ active' = Append(active, [status |-> "started", stop |-> "none"])
             /\ Saved(id, handlers[id].turn, "started")
    <3>0. handlers[id].turn \in 0..MaxTurns
      <4>1. handlers[id] \in HandlerTypes
        BY DEF PiTypes, Ids
      <4> QED
        BY <4>1 DEF HandlerTypes
    <3>1. PICK turn \in Turns : turn = handlers[id].turn
      BY <2>0, <2>2, <3>0, PiAssumption DEF Turns
    <3>2. /\ turn = Len(active) + 1 /\ unfinished' = {turn}
          /\ \A t \in 1..Len(active) : stored'[t] = stored[t]
      <4>1. turn = Len(active) + 1 /\ unfinished' = {turn}
        BY <2>2, <3>1 DEF Saved
      <4>2. \A t \in 1..Len(active) : t \in Turns /\ t # turn
        BY <2>0, <3>1, <4>1 DEF Turns
      <4>3. \A t \in Turns : t # turn => stored'[t] = stored[t]
        BY <2>2, <3>1 DEF Saved, PiTypes
      <4> QED
        BY <4>1, <4>2, <4>3
    <3>3. Len(active') = turn /\ \A t \in 1..Len(active) : active'[t] = active[t]
      <4>1. [status |-> "started", stop |-> "none"] \in CallRecords /\ active \in Seq(CallRecords)
        BY DEF CallRecords, Stops, PiTypes
      <4> QED
        BY <2>2, <3>2, <4>1, AppendFacts
    <3>4. \A i \in Ids : ~Served(i)
      BY <2>0, <2>2 DEF ServedInv
    <3>5. \A i \in Ids' : ~Served(i)'
      BY <2>00, <2>2, <3>4 DEF Saved, Moves, RaisesIn, Drops
    <3>6. \A t \in 1..Len(active') : t \notin unfinished' => stored'[t] = active'[t].status
      <4>1. \A t \in 1..turn : t # turn => t \in 1..Len(active)
        BY <2>0, <3>2
      <4> QED
        BY <2>0, <2>2, <3>2, <3>3, <4>1 DEF ServedInv
    <3>7. Len(active') <= MaxTurns
      BY <3>1, <3>3 DEF Turns
    <3> QED
      BY <3>2, <3>3, <3>5, <3>6, <3>7 DEF ServedInv
  <2>3. CASE LET turn == handlers[id].turn
                 stop == handlers[id].stop
             IN  /\ turn \in unfinished /\ ModelEndServed(id)
                 /\ active' = [active EXCEPT ![turn] = [status |-> Status(stop), stop |-> stop]]
                 /\ Saved(id, turn, Status(stop))
    <3> DEFINE stop == handlers[id].stop
               e == [status |-> Status(stop), stop |-> stop]
    <3>1. PICK turn \in 1..Len(active) : turn = handlers[id].turn /\ turn = Len(active) /\ unfinished = {turn}
                                         /\ turn \in Turns
      <4>1. handlers[id].turn \in unfinished /\ unfinished \subseteq 1..Len(active)
        BY <2>3 DEF PiTypes
      <4>2. unfinished \subseteq {Len(active)} /\ Len(active) <= MaxTurns
        BY DEF ServedInv
      <4>3. handlers[id].turn = Len(active) /\ unfinished = {Len(active)} /\ Len(active) \in 1..Len(active)
        BY <4>1, <4>2
      <4>4. Len(active) \in Turns
        BY <2>0, <4>2, <4>3 DEF Turns
      <4> QED
        BY <4>3, <4>4
    <3>2. Status(stop) \in {"succeeded", "failed"} /\ e \in CallRecords
      BY DEF Status, CallRecords, PiTypes, HandlerTypes
    <3>3. e.status = Status(stop)
      OBVIOUS
    <3>4. active' = [active EXCEPT ![turn] = e] /\ Saved(id, turn, Status(stop))
      BY <2>3, <3>1
    <3> HIDE DEF e, stop
    <3>5. Len(active') = Len(active) /\ active'[turn] = e /\ \A t \in 1..Len(active) : t # turn => active'[t] = active[t]
      BY <3>2, <3>4, ExceptFacts DEF PiTypes
    <3>6. /\ \A t \in Turns : t # turn => stored'[t] = stored[t]
          /\ (unfinished' = {} /\ stored'[turn] = e.status) \/ unfinished' = {turn}
      BY <3>1, <3>2, <3>3, <3>4 DEF Saved, PiTypes
    <3>7. \A t \in 1..Len(active') : t \notin unfinished' => stored'[t] = active'[t].status
      <4>1. \A t \in 1..Len(active) : t \in Turns
        BY <2>0 DEF ServedInv, Turns
      <4> QED
        BY <2>0, <3>1, <3>5, <3>6, <4>1 DEF ServedInv
    <3>8. \A i \in Ids : ~Served(i)
      BY <3>1 DEF ServedInv
    <3>9. \A i \in Ids' : ~Served(i)'
      BY <2>00, <3>4, <3>8 DEF Saved, Moves, RaisesIn, Drops
    <3> QED
      BY <3>1, <3>5, <3>6, <3>7, <3>9 DEF ServedInv
  <2>4. CASE /\ ToolCallServed(id) /\ ToolRequestValid(handlers[id]) /\ Moves(id, "slot")
             /\ identities' = identities \cup {KeyOf(handlers[id])}
             /\ running' = running \cup {KeyOf(handlers[id])}
    <3>1. handlers[id].turn >= 1 /\ handlers[id].turn = Len(active)
      <4>1. node.pc \in {"prepared", "ended", "tools"} /\ TaskInv
        BY <2>0, <2>4, StillOpen DEF Talking, WireInv, Nothing, PiTypes, NodeTypes, ToolCallServed
      <4> QED
        BY <2>0, <2>4, <4>1, StillOpen DEF TaskInv, Asks, Talking, TurnInv, ToolRequestValid, ToolRequestInOrder,
                                            ToolCallServed
    <3>2. /\ handlers[id].turn \in 1..Len(active) /\ handlers[id].turn \in Turns /\ unfinished = {}
          /\ active[handlers[id].turn].status = "succeeded" /\ KeyOf(handlers[id]) \notin identities
      BY <2>0, <2>4, <3>1 DEF ServedInv, ToolRequestValid, ToolRequestInOrder, KeyOf, Turns
    <3>3. stored[handlers[id].turn] = "succeeded"
      BY <2>0, <3>2 DEF ServedInv
    <3>4. UNCHANGED <<active, stored, unfinished>> /\ Ids' = Ids
      BY <2>4 DEF ToolCallServed, Moves
    <3>5. handlers'[id].turn = handlers[id].turn /\ KeyOf(handlers'[id]) = KeyOf(handlers[id])
      BY <2>4 DEF Moves, KeyOf
    <3>6. ASSUME NEW i \in Ids, i # id, Served(i)'
          PROVE  Served(i) /\ handlers'[i] = handlers[i] /\ KeyOf(handlers'[i]) # KeyOf(handlers'[id])
      BY <2>00, <3>2, <3>4, <3>5, <3>6 DEF ServedInv
    <3>7. ASSUME NEW i \in Ids', Served(i)'
          PROVE  /\ unfinished' = {} /\ handlers'[i].turn \in Turns /\ stored'[handlers'[i].turn] = "succeeded"
                 /\ KeyOf(handlers'[i]) \in identities' /\ KeyOf(handlers'[i]) \in running'
      <4>1. CASE i = id
        BY <2>4, <3>2, <3>3, <3>4, <3>5, <4>1
      <4>2. CASE i # id
        BY <2>0, <2>4, <3>2, <3>4, <3>6, <3>7, <4>2 DEF ServedInv
      <4> QED
        BY <4>1, <4>2
    <3>8. ASSUME NEW i \in Ids', NEW j \in Ids', Served(i)', Served(j)', KeyOf(handlers'[i]) = KeyOf(handlers'[j])
          PROVE  i = j
      BY <3>4, <3>6, <3>8 DEF ServedInv
    <3> QED
      BY <2>0, <3>4, <3>7, <3>8 DEF ServedInv
  <2>5. CASE SlotTaken(id)
    <3>1. /\ UNCHANGED <<active, stored, unfinished, identities, running>> /\ Ids' = Ids /\ Served(id)
          /\ handlers'[id].turn = handlers[id].turn /\ KeyOf(handlers'[id]) = KeyOf(handlers[id])
      BY <2>5 DEF SlotTaken, Moves, KeyOf
    <3>2. \A i \in Ids : /\ Served(i)' => Served(i)
                         /\ handlers'[i].turn = handlers[i].turn /\ KeyOf(handlers'[i]) = KeyOf(handlers[i])
      BY <2>00, <3>1
    <3> QED
      BY <2>0, <3>1, <3>2 DEF ServedInv
  <2>6. CASE ToolEnded(id)
    <3>1. /\ UNCHANGED <<active, stored, unfinished, identities>> /\ Served(id)
          /\ running' = running \ {KeyOf(handlers[id])} /\ (id \in Ids' => ~Served(id)')
      BY <2>6 DEF ToolEnded, Moves, RaisesIn, Drops
    <3>2. \A i \in Ids' : Served(i)' => /\ i \in Ids /\ Served(i) /\ handlers'[i] = handlers[i]
                                        /\ KeyOf(handlers[i]) # KeyOf(handlers[id])
      BY <2>00, <3>1 DEF ServedInv
    <3> QED
      BY <2>0, <3>1, <3>2 DEF ServedInv
  <2>7. ResponseWritten(id) \/ ResponseOver(id) =>
          UNCHANGED <<active, stored, unfinished, identities, running>> /\ (id \in Ids' => ~Served(id)')
    BY DEF ResponseWritten, ResponseOver, Drops, RaisesIn, Moves
  <2>8. \A x : RaisesIn(id, x) => id \notin Ids'
    BY DEF RaisesIn, Drops
  <2> QED
    BY <1>8, <2>1, <2>2, <2>3, <2>4, <2>5, <2>6, <2>7, <2>8
       DEF HandlerShape, PrepareServed, ModelEndServed, ToolCallServed
<1> QED
  BY <1>1, <1>2, <1>3, <1>4, <1>5, <1>6, <1>7, <1>8 DEF HostShape

LEMMA ServedHolds == Spec => []ServedInv
<1>1. Init => ServedInv
  <2> SUFFICES ASSUME Init PROVE ServedInv
    OBVIOUS
  <2>1. Ids = {} /\ unfinished = {} /\ Len(active) = 0
    BY DEF Init, PiInit, Ids
  <2> QED
    BY <2>1, PiAssumption DEF ServedInv
<1>2. PiTypes /\ CareInv /\ TalkInv /\ ServedInv /\ [Next]_vars => ServedInv'
  BY ServedStep
<1> QED
  BY <1>1, <1>2, PiTypesHold, CareHolds, TalkHolds, PTL DEF Spec

\* While a tool runs for a Pi worker, the store holds the end of the model turn that asked
\* for it and no other turn has begun: a tool's effect never precedes its cause on record.
THEOREM ToolsFollow == Spec => []ToolsFollowStoredTurns
<1>1. PiTypes /\ CareInv /\ RowsInv /\ ServedInv => ToolsFollowStoredTurns
  <2> SUFFICES ASSUME PiTypes, CareInv, RowsInv, ServedInv, NEW id \in Ids, handlers[id].st = "tool"
               PROVE  stored[handlers[id].turn] = "succeeded" /\ \A t \in Turns : stored[t] # "started"
    BY DEF ToolsFollowStoredTurns
  <2>1. host.pc # "over" /\ unfinished = {}
    BY DEF CareInv, ServedInv
  <2> QED
    BY <2>1 DEF RowsInv, ServedInv
<1> QED
  BY <1>1, PiTypesHold, CareHolds, RowsHold, ServedHolds, PTL

(***************************************************************************)
(* A completion of the model gateway.                                      *)
(***************************************************************************)
ModelNames == UNION {{Configs[i].models[j] : j \in 1..Len(Configs[i].models)} : i \in 1..Len(Configs)}

ModelTypes ==
    /\ conf \in 1..Len(Configs)
    /\ mc \in [st : {"idle", "model", "request", "sent", "returned", "raised", "canceled"},
               cfg : Nat, model : Nat, try : Nat]
    /\ record \in [status : {"none", "started", "succeeded", "failed"},
                   model : ModelNames \cup {NoModel}, error : BOOLEAN]
    /\ tried \in Seq(ModelNames)

ModelNumber(j) == Configs[mc.cfg].models[j]

\* what was tried follows the configuration
FollowsConfig ==
    \A i \in 1..Len(tried) - 1 :
        \E j \in 1..mc.model :
            tried[i] = ModelNumber(j) /\ tried[i + 1] \in {tried[i], ModelNumber(IF j < mc.model THEN j + 1 ELSE j)}

ModelInv ==
    /\ mc.st = "idle" => tried = << >>
    /\ mc.st # "idle" =>
         /\ mc.cfg \in 1..Len(Configs) /\ mc.model \in 1..Len(Configs[mc.cfg].models)
         /\ FollowsConfig
    /\ mc.st \in {"request", "sent"} => record.model = ModelNumber(mc.model) /\ ~record.error
    /\ mc.st \in {"model", "request"} /\ tried # << >> =>
         \E j \in 1..mc.model :
             /\ tried[Len(tried)] = ModelNumber(j)
             /\ j = mc.model - 1 \/ (j = mc.model /\ mc.st = "request")
    /\ mc.st \in {"sent", "returned"} => tried # << >> /\ tried[Len(tried)] = ModelNumber(mc.model)
    /\ mc.st = "returned" => row = [status |-> "succeeded", model |-> ModelNumber(mc.model), error |-> FALSE]

\* the steps of the completion, as far as they concern it
LEMMA ModelOnly ==
    [Next]_vars => \/ BeginCompletion \/ CancelCompletion \/ ModelStep \/ Reconfigure
                   \/ UNCHANGED modelVars
<1> SUFFICES ASSUME [Next]_vars
             PROVE  BeginCompletion \/ CancelCompletion \/ ModelStep \/ Reconfigure \/ UNCHANGED modelVars
  OBVIOUS
<1>1. CASE PiWorker \/ PiHost \/ PiStopped \/ InterruptCalls \/ LoadAgent \/ PythonEnds \/ PromptEnds \/ PiEnds
  BY <1>1 DEF PiWorker, PiHost, PiStopped, InterruptCalls, LoadAgent, PythonEnds, PromptEnds, PiEnds
<1>2. CASE PromptCompletes \/ CancelPrompt \/ ToolTime \/ ToolRunLost \/ Completing \/ ModelReconfigured
  BY <1>2 DEF PromptCompletes, CancelPrompt, ToolTime, ToolRunLost, Completing, ModelReconfigured
<1>3. CASE \E c \in Calls : PythonCalls(c) \/ CancelCalls(c) \/ Tooling(c)
  BY <1>3 DEF PythonCalls, CancelCalls, Tooling
<1>4. CASE \E s \in Skills : SkillChanged(s) \/ SkillActivated(s)
  BY <1>4 DEF SkillChanged, SkillActivated
<1>5. CASE UNCHANGED vars
  BY <1>5 DEF vars
<1> QED
  BY <1>1, <1>2, <1>3, <1>4, <1>5 DEF Next

LEMMA ModelStepKeeps ==
    ASSUME ModelTypes, ModelInv, [Next]_vars
    PROVE  ModelTypes' /\ ModelInv'
<1> USE ConfigAssumption
<1> DEFINE States == {"idle", "model", "request", "sent", "returned", "raised", "canceled"}
           Mc == [st : States, cfg : Nat, model : Nat, try : Nat]
           Rec == [status : {"none", "started", "succeeded", "failed"},
                   model : ModelNames \cup {NoModel}, error : BOOLEAN]
<1>0. /\ conf \in 1..Len(Configs) /\ mc \in Mc /\ record \in Rec /\ tried \in Seq(ModelNames)
      /\ \A i \in 1..Len(Configs) : \A j \in 1..Len(Configs[i].models) : Configs[i].models[j] \in ModelNames
  <2>1. ASSUME NEW i \in 1..Len(Configs), NEW j \in 1..Len(Configs[i].models)
        PROVE  Configs[i].models[j] \in ModelNames
    <3> DEFINE names(k) == {Configs[k].models[l] : l \in 1..Len(Configs[k].models)}
    <3>1. Configs[i].models[j] \in names(i)
      OBVIOUS
    <3>2. ModelNames = UNION {names(k) : k \in 1..Len(Configs)}
      BY DEF ModelNames
    <3> HIDE DEF names
    <3> QED
      BY <3>1, <3>2
  <2> QED
    BY <2>1 DEF ModelTypes
<1>1. CASE BeginCompletion
  <2>1. /\ mc.st = "idle" /\ mc' = [st |-> "model", cfg |-> conf, model |-> 1, try |-> 0]
        /\ record' = [status |-> "started", model |-> Configs[conf].models[1], error |-> FALSE]
        /\ conf' = conf /\ tried' = tried
    BY <1>1 DEF BeginCompletion, Snapshot
  <2>2. mc' \in Mc /\ mc'.st = "model" /\ mc'.cfg = conf /\ mc'.model = 1
    BY <1>0, <2>1
  <2>3. 1 \in 1..Len(Configs[conf].models) /\ record' \in Rec
    BY <1>0, <2>1
  <2>4. tried = << >> /\ Len(tried) = 0
    BY <2>1 DEF ModelInv
  <2> QED
    BY <1>0, <2>1, <2>2, <2>3, <2>4 DEF ModelTypes, ModelInv, FollowsConfig
<1>2. CASE Reconfigure \/ UNCHANGED modelVars
  <2>1. UNCHANGED <<mc, record, row, tried>> /\ conf' \in 1..Len(Configs)
    BY <1>0, <1>2 DEF Reconfigure, modelVars
  <2> QED
    BY <2>1 DEF ModelTypes, ModelInv, FollowsConfig, ModelNumber
<1>3. ASSUME mc.st \in {"model", "request", "sent"}
      PROVE  /\ mc.cfg \in 1..Len(Configs) /\ mc.model \in 1..Len(Configs[mc.cfg].models) /\ FollowsConfig
             /\ ModelNumber(mc.model) \in ModelNames /\ ModelOf(mc) = ModelNumber(mc.model)
  BY <1>0, <1>3 DEF ModelInv, ModelNumber, ModelOf, ConfigOf
\* a step to state st of the same model and with the same requests
<1>4. ASSUME NEW st \in States \ {"idle"}, mc'.st = st, mc' \in Mc, mc'.cfg = mc.cfg, mc'.model = mc.model,
             tried' = tried, conf' = conf, record' \in Rec, mc.st \in {"model", "request", "sent"},
             st \in {"model", "request", "sent", "returned"} =>
                /\ st \in {"request", "sent"} => record'.model = ModelNumber(mc.model) /\ ~record'.error
                /\ st \in {"model", "request"} /\ tried # << >> =>
                      \E j \in 1..mc.model :
                         /\ tried[Len(tried)] = ModelNumber(j)
                         /\ j = mc.model - 1 \/ (j = mc.model /\ st = "request")
                /\ st \in {"sent", "returned"} => tried # << >> /\ tried[Len(tried)] = ModelNumber(mc.model)
                /\ st = "returned" =>
                      row' = [status |-> "succeeded", model |-> ModelNumber(mc.model), error |-> FALSE]
      PROVE  ModelTypes' /\ ModelInv'
  <2>1. ModelTypes'
    BY <1>0, <1>4 DEF ModelTypes
  <2>2. \A j : ModelNumber(j)' = ModelNumber(j)
    BY <1>4 DEF ModelNumber
  <2>3. FollowsConfig'
    BY <1>3, <1>4, <2>2 DEF FollowsConfig
  <2> QED
    BY <1>3, <1>4, <2>1, <2>2, <2>3 DEF ModelInv
<1>5. CASE NextModel
  <2>1. /\ mc.st = "model" /\ mc' \in Mc /\ mc'.st = "request" /\ mc'.cfg = mc.cfg /\ mc'.model = mc.model
        /\ tried' = tried /\ conf' = conf
    BY <1>0, <1>5 DEF NextModel
  <2>2. record' \in Rec /\ record'.model = ModelNumber(mc.model) /\ ~record'.error
    BY <1>0, <1>3, <1>5, <2>1 DEF NextModel
  <2>3. tried # << >> => \E j \in 1..mc.model : tried[Len(tried)] = ModelNumber(j) /\ j = mc.model - 1
    BY <2>1 DEF ModelInv
  <2> QED
    BY <1>4, <2>1, <2>2, <2>3
<1>6. CASE RetryRequest
  <2>1. /\ mc.st = "sent" /\ mc' \in Mc /\ mc'.st = "request" /\ mc'.cfg = mc.cfg /\ mc'.model = mc.model
        /\ tried' = tried /\ conf' = conf /\ record' = record
    <3>1. mc.try + 1 \in Nat
      BY <1>0
    <3> QED
      BY <1>0, <1>6, <3>1 DEF RetryRequest
  <2>2. record'.model = ModelNumber(mc.model) /\ ~record'.error
    BY <2>1 DEF ModelInv
  <2>3. mc.model \in 1..mc.model /\ tried[Len(tried)] = ModelNumber(mc.model)
    BY <1>3, <2>1 DEF ModelInv
  <2> QED
    BY <1>0, <1>4, <2>1, <2>2, <2>3
<1>7. CASE Answered
  <2>1. /\ mc.st = "sent" /\ mc' \in Mc /\ mc'.st = "returned" /\ mc'.cfg = mc.cfg /\ mc'.model = mc.model
        /\ tried' = tried /\ conf' = conf
    BY <1>0, <1>7 DEF Answered
  <2>2. record.model = ModelNumber(mc.model) /\ record.error = FALSE
    BY <1>0, <2>1 DEF ModelInv
  <2>3. row' = record' /\ record' = [record EXCEPT !.status = "succeeded"]
    BY <1>7 DEF Answered
  <2>4. record' \in Rec /\ record' = [status |-> "succeeded", model |-> ModelNumber(mc.model), error |-> FALSE]
    BY <1>0, <2>2, <2>3
  <2>5. tried # << >> /\ tried[Len(tried)] = ModelNumber(mc.model)
    BY <2>1 DEF ModelInv
  <2> QED
    BY <1>4, <2>1, <2>3, <2>4, <2>5
<1>8. ASSUME SaveFailure PROVE record' \in Rec
  BY <1>0, <1>8 DEF SaveFailure
<1>9. CASE RequestRefused \/ CancelCompletion \/ (ModelFails /\ ~(mc.model < Len(ConfigOf(mc).models)))
  <2>1. /\ mc.st \in {"request", "sent"} /\ mc' \in Mc /\ mc'.st \in {"raised", "canceled"} /\ mc'.cfg = mc.cfg
        /\ mc'.model = mc.model /\ tried' = tried /\ conf' = conf
    BY <1>0, <1>9 DEF RequestRefused, CancelCompletion, ModelFails
  <2>2. record' \in Rec
    BY <1>0, <1>8, <1>9 DEF RequestRefused, CancelCompletion, ModelFails
  <2> QED
    BY <1>4, <2>1, <2>2
<1>10. CASE ModelFails /\ mc.model < Len(ConfigOf(mc).models)
  <2>1. mc.st = "sent" /\ mc.model \in Nat /\ mc.model + 1 \in Nat
    BY <1>0, <1>10 DEF ModelFails
  <2>2. /\ mc' = [mc EXCEPT !.st = "model", !.model = mc.model + 1]
        /\ tried' = tried /\ conf' = conf /\ record' \in Rec
    BY <1>8, <1>10 DEF ModelFails
  <2>3. PICK m \in Nat : m = mc.model + 1
    BY <2>1
  <2>4. mc' \in Mc /\ mc'.st = "model" /\ mc'.cfg = mc.cfg /\ mc'.model = m
    BY <1>0, <2>2, <2>3
  <2>5. ModelTypes'
    BY <1>0, <2>2, <2>4 DEF ModelTypes
  <2>6. \A j : ModelNumber(j)' = ModelNumber(j)
    BY <2>4 DEF ModelNumber
  <2>7. m \in 1..Len(Configs[mc.cfg].models)
    BY <1>3, <1>10, <2>1, <2>3 DEF ConfigOf
  <2>8. FollowsConfig'
    <3> SUFFICES ASSUME NEW i \in 1..Len(tried) - 1
                 PROVE  \E j \in 1..m : tried[i] = ModelNumber(j)
                            /\ tried[i + 1] \in {tried[i], ModelNumber(IF j < m THEN j + 1 ELSE j)}
      BY <2>2, <2>4, <2>6 DEF FollowsConfig
    <3>1. PICK j \in 1..mc.model : tried[i] = ModelNumber(j)
               /\ tried[i + 1] \in {tried[i], ModelNumber(IF j < mc.model THEN j + 1 ELSE j)}
      BY <1>3, <2>1 DEF FollowsConfig
    <3>2. j \in 1..m /\ j < m
      BY <2>1, <2>3
    <3>3. tried[i + 1] \in {tried[i], ModelNumber(j + 1)}
      BY <3>1
    <3> QED
      BY <3>1, <3>2, <3>3
  <2>9. mc.model \in 1..m /\ mc.model = m - 1 /\ tried[Len(tried)] = ModelNumber(mc.model)
    BY <1>3, <2>1, <2>3 DEF ModelInv
  <2> QED
    BY <1>3, <2>1, <2>2, <2>4, <2>5, <2>6, <2>7, <2>8, <2>9 DEF ModelInv
<1>11. CASE SendRequest
  <2>1. /\ mc.st = "request" /\ mc' \in Mc /\ mc'.st = "sent" /\ mc'.cfg = mc.cfg /\ mc'.model = mc.model
        /\ conf' = conf /\ record' = record
    BY <1>0, <1>11 DEF SendRequest
  <2> DEFINE e == ModelNumber(mc.model)
  <2>2. e \in ModelNames /\ tried' = Append(tried, e) /\ mc.model \in Nat
    BY <1>0, <1>3, <1>11, <2>1 DEF SendRequest
  <2>3. \A j : ModelNumber(j)' = ModelNumber(j)
    BY <2>1 DEF ModelNumber
  <2> HIDE DEF e
  <2>4. PICK n \in Nat : n = Len(tried)
    BY <1>0
  <2>5. tried' \in Seq(ModelNames) /\ Len(tried') = n + 1 /\ tried'[n + 1] = e /\ \A i \in 1..n : tried'[i] = tried[i]
    BY <1>0, <2>2, <2>4, AppendFacts
  <2>6. ModelTypes'
    BY <1>0, <2>1, <2>5 DEF ModelTypes
  <2>7. FollowsConfig'
    <3> SUFFICES ASSUME NEW i \in 1..n
                 PROVE  \E j \in 1..mc.model : tried'[i] = ModelNumber(j)
                            /\ tried'[i + 1] \in {tried'[i], ModelNumber(IF j < mc.model THEN j + 1 ELSE j)}
      BY <2>1, <2>3, <2>4, <2>5 DEF FollowsConfig
    <3>1. CASE i = n
      <4>1. tried # << >>
        BY <2>4, <3>1
      <4>2. PICK j \in 1..mc.model : tried[n] = ModelNumber(j) /\ (j = mc.model - 1 \/ j = mc.model)
        BY <2>1, <2>4, <4>1 DEF ModelInv
      <4>3. e = ModelNumber(IF j < mc.model THEN j + 1 ELSE j)
        BY <2>2, <4>2 DEF e
      <4> QED
        BY <2>5, <3>1, <4>2, <4>3
    <3>2. CASE i # n
      <4>1. i \in 1..Len(tried) - 1 /\ i + 1 \in 1..n
        BY <2>4, <3>2
      <4>2. tried'[i] = tried[i] /\ tried'[i + 1] = tried[i + 1]
        BY <2>5, <4>1
      <4> QED
        BY <1>3, <2>1, <4>1, <4>2 DEF FollowsConfig
    <3> QED
      BY <3>1, <3>2
  <2>8. tried' # << >> /\ tried'[Len(tried')] = ModelNumber(mc.model)
    BY <2>4, <2>5 DEF e
  <2>9. record'.model = ModelNumber(mc.model) /\ ~record'.error
    BY <2>1 DEF ModelInv
  <2> QED
    BY <1>3, <2>1, <2>3, <2>6, <2>7, <2>8, <2>9 DEF ModelInv
<1> QED
  BY <1>1, <1>2, <1>5, <1>6, <1>7, <1>9, <1>10, <1>11, ModelOnly DEF ModelStep

\* A completion that answered is recorded as succeeded with the model that answered and
\* without an earlier model's error, and followed one configuration from its first
\* request to its last, whatever was reconfigured meanwhile.
THEOREM RecordedAnswer == Spec => []AnswerIsRecorded
<1>1. Init => ModelTypes /\ ModelInv
  <2> SUFFICES ASSUME Init PROVE ModelTypes /\ ModelInv
    OBVIOUS
  <2> USE ConfigAssumption DEF Init, ModelInit
  <2>1. ModelTypes
    BY DEF ModelTypes, NoCompletion, NoRecord
  <2>2. mc.st = "idle" /\ tried = << >>
    BY DEF NoCompletion
  <2> QED
    BY <2>1, <2>2 DEF ModelInv
<1>2. ModelTypes /\ ModelInv /\ [Next]_vars => ModelTypes' /\ ModelInv'
  BY ModelStepKeeps
<1>3. ModelTypes /\ ModelInv => AnswerIsRecorded
  <2> SUFFICES ASSUME ModelInv, mc.st = "returned"
               PROVE  /\ row = [status |-> "succeeded", model |-> tried[Len(tried)], error |-> FALSE]
                      /\ FollowsConfig
    BY DEF AnswerIsRecorded, FollowsConfig, ModelNumber
  <2> QED
    BY DEF ModelInv
<1> QED
  BY <1>1, <1>2, <1>3, PTL DEF Spec

(***************************************************************************)
(* The Skills of the session.                                              *)
(***************************************************************************)
SkillInv ==
    /\ loaded \subseteq Skills
    /\ at = "load" => loaded = {}
    /\ at = "running" => \A s \in Skills : session[s] = pinned[s]
    /\ \A s \in loaded : session[s] = pinned[s]

\* An agent works with the Skill contents that were pinned when its run was submitted,
\* whatever the registry becomes before the attempt or during it.
THEOREM PinnedSkills == Spec => []SkillsArePinned
<1>1. Init => SkillInv
  BY DEF Init, SkillInit, SkillInv
<1>2. SkillInv /\ [Next]_vars => SkillInv'
  <2> SUFFICES ASSUME SkillInv, [Next]_vars PROVE SkillInv'
    OBVIOUS
  <2>1. CASE LoadAgent
    <3>1. CASE CreateSession
      <4>1. /\ \A s \in Skills : registry[s] = pinned[s]
            /\ session' = registry /\ loaded' = Always /\ pinned' = pinned
        BY <3>1 DEF CreateSession, SessionResolves, Resolved
      <4> QED
        BY <2>1, <4>1 DEF LoadAgent, Ends, SkillInv, Always
    <3>2. CASE Ends /\ UNCHANGED skillVars
      BY <3>2 DEF Ends, SkillInv, skillVars
    <3> QED
      BY <2>1, <3>1, <3>2 DEF LoadAgent
  <2>2. CASE UNCHANGED <<session, pinned, loaded>> /\ (at' = at \/ at' = "ended")
    BY <2>2 DEF SkillInv
  <2>3. ASSUME NEW s \in Skills, SkillActivated(s) PROVE SkillInv'
    BY <2>3 DEF SkillActivated, ActivateSkill, Running, turnVars, SkillInv
  <2>4. ASSUME NEW s \in Skills, SkillChanged(s) PROVE SkillInv'
    BY <2>2, <2>4 DEF SkillChanged, ChangeSkill, turnVars
  <2>5. CASE PiWorker \/ PiHost \/ PiStopped \/ InterruptCalls \/ PythonEnds \/ PromptEnds \/ PiEnds
    BY <2>2, <2>5 DEF PiWorker, PiHost, PiStopped, InterruptCalls, PythonEnds, PromptEnds, PiEnds, Ends,
                      skillVars, turnVars
  <2>6. CASE PromptCompletes \/ CancelPrompt \/ ToolTime \/ ToolRunLost \/ Completing \/ ModelReconfigured
    BY <2>2, <2>6 DEF PromptCompletes, CancelPrompt, ToolTime, ToolRunLost, Completing, ModelReconfigured,
                      skillVars, turnVars
  <2>7. CASE \E c \in Calls : PythonCalls(c) \/ CancelCalls(c) \/ Tooling(c)
    BY <2>2, <2>7 DEF PythonCalls, CancelCalls, Tooling, skillVars, turnVars
  <2>8. CASE UNCHANGED vars
    BY <2>2, <2>8 DEF vars, skillVars, turnVars
  <2> QED
    BY <2>1, <2>3, <2>4, <2>5, <2>6, <2>7, <2>8 DEF Next
<1>3. SkillInv => SkillsArePinned
  BY DEF SkillInv, SkillsArePinned
<1> QED
  BY <1>1, <1>2, <1>3, PTL DEF Spec
=============================================================================
