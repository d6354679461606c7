------------------------ MODULE CallbackDeliveryProofs ------------------------
(***************************************************************************)
(* Theorems about CallbackDelivery, for any number of tasks, attempts,     *)
(* executions and lost processes, and for any ticks a lease lasts.         *)
(***************************************************************************)
EXTENDS CallbackDelivery, TLAPS

(***************************************************************************)
(* Type correctness.  The attempts of a copy stay within the budget because*)
(* a task sleeps only when it has an attempt left.                         *)
(***************************************************************************)

SleepInv == \A t \in Tasks : task[t].pc = "sleep" => task[t].row.attempts < MaxAttempts

TypeInv == TypeOK /\ SleepInv

\* The values that tasks and rows start from are well typed.
LEMMA BlankTypes ==
    /\ NewRun \in Runs /\ Absent \in Deliveries /\ IdleTask \in TaskStates
    /\ IdleTask.pc = "idle"
<1>1. 0 \in 0..MaxOutcomes /\ 0 \in 0..MaxEvents /\ 0 \in 0..MaxAttempts
  BY BoundAssumption
<1>2. NewRun \in Runs
  BY <1>1 DEF NewRun, Runs, Statuses, NoEvent
<1>3. Absent \in Deliveries
  BY <1>1 DEF Absent, Deliveries
<1>4. IdleTask \in TaskStates
  BY <1>1, <1>2, <1>3 DEF IdleTask, TaskStates, PCs, NoEvent
<1> QED
  BY <1>2, <1>3, <1>4 DEF IdleTask

\* Replacing the state of one task by a well-typed one.
LEMMA TaskMoves ==
    ASSUME TypeInv, NEW t \in Tasks, NEW k \in TaskStates,
           k.pc = "sleep" => k.row.attempts < MaxAttempts,
           task' = [task EXCEPT ![t] = k]
    PROVE  task' \in [Tasks -> TaskStates] /\ SleepInv'
<1>1. task' \in [Tasks -> TaskStates]
  BY DEF TypeInv, TypeOK
<1>2. \A u \in Tasks : task'[u] = IF u = t THEN k ELSE task[u]
  BY DEF TypeInv, TypeOK
<1> QED
  BY <1>1, <1>2 DEF TypeInv, SleepInv

\* A task that ends, releases the queue or starts to dispatch.
LEMMA TaskTurns ==
    ASSUME TypeInv, NEW t \in Tasks
    PROVE  /\ Idle(t) => task' \in [Tasks -> TaskStates] /\ SleepInv'
           /\ GotoRelease(t) => task' \in [Tasks -> TaskStates] /\ SleepInv'
           /\ \A e \in 1..MaxEvents, row \in Deliveries :
                GotoDispatch(t, e, row) => task' \in [Tasks -> TaskStates] /\ SleepInv'
<1>1. Idle(t) => task' \in [Tasks -> TaskStates] /\ SleepInv'
  BY BlankTypes, TaskMoves DEF Idle
<1>2. GotoRelease(t) => task' \in [Tasks -> TaskStates] /\ SleepInv'
  <2> DEFINE k == [IdleTask EXCEPT !.pc = "release", !.run = task[t].run]
  <2>1. k \in TaskStates /\ k.pc = "release"
    BY BlankTypes DEF TypeInv, TypeOK, TaskStates, PCs
  <2> HIDE DEF k
  <2>2. GotoRelease(t) => task' = [task EXCEPT ![t] = k]
    BY DEF GotoRelease, k
  <2> QED
    BY <2>1, <2>2, TaskMoves
<1>3. ASSUME NEW e \in 1..MaxEvents, NEW row \in Deliveries, GotoDispatch(t, e, row)
      PROVE  task' \in [Tasks -> TaskStates] /\ SleepInv'
  <2> DEFINE k == [IdleTask EXCEPT !.pc = "dispatch", !.event = e, !.row = row]
  <2>1. e \in 0..MaxEvents
    BY BoundAssumption
  <2>2. k \in TaskStates /\ k.pc = "dispatch"
    BY <2>1, BlankTypes DEF TaskStates, PCs
  <2> HIDE DEF k
  <2>3. task' = [task EXCEPT ![t] = k]
    BY <1>3 DEF GotoDispatch, k
  <2> QED
    BY <2>2, <2>3, TaskMoves
<1> QED
  BY <1>1, <1>2, <1>3

\* The status that a delivered or skipped callback settles a run in.
LEMMA SettledType == \A r \in Runs : SettledStatus(r) \in Statuses
BY DEF Runs, Statuses, SettledStatus

\* What a transaction may store in a delivery's row.
LEMMA RowWrites ==
    ASSUME NEW d \in Deliveries, NEW s \in {"PENDING", "DELIVERED", "FAILED"},
           NEW l \in {NoLease} \cup 0..LeaseTicks, NEW a \in 0..MaxAttempts
    PROVE  /\ [d EXCEPT !.lease = l] \in Deliveries
           /\ [d EXCEPT !.status = s] \in Deliveries
           /\ [d EXCEPT !.attempts = a] \in Deliveries
           /\ [d EXCEPT !.status = s, !.lease = l] \in Deliveries
           /\ [d EXCEPT !.status = s, !.attempts = a, !.lease = l] \in Deliveries
BY DEF Deliveries

\* The copies of a dispatcher whose post was acknowledged.
LEMMA ToldCopies ==
    ASSUME TypeInv, NEW t \in Tasks
    PROVE  /\ DeliveredRow(t) \in Deliveries /\ DeliveredRow(t).status = "DELIVERED"
           /\ DeliveredRow(t).payload = task[t].row.payload
           /\ DeliveredRun(t) \in Runs /\ DeliveredRun(t).event = task[t].run.event
           /\ DeliveredRun(t).status = SettledStatus(task[t].run)
<1>1. task[t].run \in Runs /\ task[t].row \in Deliveries
  BY DEF TypeInv, TypeOK, TaskStates
<1>2. NoLease \in {NoLease} \cup 0..LeaseTicks
  OBVIOUS
<1>3. SettledStatus(task[t].run) \in Statuses
  BY <1>1, SettledType
<1>4. /\ DeliveredRow(t) \in Deliveries /\ DeliveredRow(t).status = "DELIVERED"
      /\ DeliveredRow(t).payload = task[t].row.payload
  BY <1>1, <1>2 DEF DeliveredRow, Deliveries
<1>5. /\ DeliveredRun(t) \in Runs /\ DeliveredRun(t).event = task[t].run.event
      /\ DeliveredRun(t).status = SettledStatus(task[t].run)
  BY <1>1, <1>3 DEF DeliveredRun, Runs
<1> QED
  BY <1>4, <1>5

\* The numbers that actions write.
LEMMA Numbers ==
    /\ NoLease \in {NoLease} \cup 0..LeaseTicks /\ LeaseTicks \in {NoLease} \cup 0..LeaseTicks
    /\ 0 \in 0..MaxAttempts /\ 0 \in 0..MaxEvents /\ 0 \in 0..MaxOutcomes
    /\ \A e \in 1..MaxEvents : e \in 0..MaxEvents /\ e # NoEvent
    /\ \A e \in 0..MaxEvents : e # NoEvent => e \in 1..MaxEvents
    /\ \A l \in {NoLease} \cup 0..LeaseTicks : Elapse(l) \in {NoLease} \cup 0..LeaseTicks
    /\ \A a \in 0..MaxAttempts : a < MaxAttempts => a + 1 \in 0..MaxAttempts
    /\ \A a \in 0..MaxOutcomes : a < MaxOutcomes => a + 1 \in 0..MaxOutcomes
    /\ \A a \in 0..MaxLosses : a < MaxLosses => a + 1 \in 0..MaxLosses
BY BoundAssumption DEF NoLease, NoEvent, Elapse

\* Every step preserves the types.
LEMMA TypeStep == TypeInv /\ [Next]_vars => TypeInv'
<1> SUFFICES ASSUME TypeInv, [Next]_vars PROVE TypeInv'
  OBVIOUS
<1>0. /\ run \in Runs /\ losses \in 0..MaxLosses /\ acked \subseteq 0..MaxOutcomes
      /\ \A e \in 1..MaxEvents : rows[e] \in Deliveries
      /\ \A t \in Tasks : /\ task[t] \in TaskStates /\ task[t].run \in Runs
                          /\ task[t].row \in Deliveries /\ task[t].event \in 0..MaxEvents
  BY DEF TypeInv, TypeOK, TaskStates
<1>1. ASSUME NEW t \in Tasks, ExecutorStep(t) PROVE TypeInv'
  <2>1. ASSUME NEW s \in {"AGENT_SUCCEEDED", "SUCCEEDED", "FAILED"}, NEW w \in {t, NoWorker},
               RecordOutcome(t, s, w)
        PROVE  TypeInv'
    <3> DEFINE n == run.outcome + 1
    <3>1. n \in 0..MaxOutcomes
      BY <1>0, <2>1, Numbers DEF RecordOutcome, Runs
    <3>2. run' = [run EXCEPT !.status = s, !.outcome = n, !.dead = FALSE, !.worker = w]
      BY <2>1 DEF RecordOutcome
    <3> HIDE DEF n
    <3>3. run' \in Runs
      BY <1>0, <3>1, <3>2 DEF Runs, Statuses
    <3> DEFINE k == [IdleTask EXCEPT !.pc = "prepare", !.run = run']
    <3>4. k \in TaskStates /\ k.pc = "prepare"
      BY <3>3, BlankTypes DEF TaskStates, PCs
    <3>5. task' = [task EXCEPT ![t] = k]
      BY <2>1 DEF RecordOutcome
    <3> HIDE DEF k
    <3>6. task' \in [Tasks -> TaskStates] /\ SleepInv'
      BY <3>4, <3>5, TaskMoves
    <3> QED
      BY <2>1, <3>3, <3>6 DEF RecordOutcome, TypeInv, TypeOK
  <2>2. CASE SkipCallback(t)
    <3>1. run' \in Runs
      BY <1>0, <2>2, SettledType DEF SkipCallback, Runs
    <3> QED
      BY <2>2, <3>1, TaskTurns DEF SkipCallback, TypeInv, TypeOK
  <2>3. CASE PrepareForRun(t)
    <3>1. PICK e \in 1..MaxEvents :
            task' = [task EXCEPT ![t] =
              [@ EXCEPT !.pc = "save", !.event = e,
                 !.row = IF rows[e].status # "ABSENT" THEN [rows[e] EXCEPT !.lease = NoLease]
                         ELSE [status |-> "PENDING", attempts |-> 0, lease |-> NoLease,
                               payload |-> task[t].run.outcome]]]
      BY <2>3 DEF PrepareForRun
    <3> DEFINE row == IF rows[e].status # "ABSENT" THEN [rows[e] EXCEPT !.lease = NoLease]
                      ELSE [status |-> "PENDING", attempts |-> 0, lease |-> NoLease,
                            payload |-> task[t].run.outcome]
    <3>2. row \in Deliveries
      <4>1. [status |-> "PENDING", attempts |-> 0, lease |-> NoLease,
             payload |-> task[t].run.outcome] \in Deliveries
        BY <1>0, Numbers DEF Deliveries, Runs
      <4>2. [rows[e] EXCEPT !.lease = NoLease] \in Deliveries
        BY <1>0, Numbers, RowWrites
      <4> QED
        BY <4>1, <4>2
    <3>3. task' = [task EXCEPT ![t] = [task[t] EXCEPT !.pc = "save", !.event = e, !.row = row]]
      BY <1>0, <3>1
    <3> HIDE DEF row
    <3> DEFINE k == [task[t] EXCEPT !.pc = "save", !.event = e, !.row = row]
    <3>4. k \in TaskStates /\ k.pc = "save"
      BY <1>0, <3>2, Numbers DEF TaskStates, PCs
    <3> HIDE DEF k
    <3>5. task' \in [Tasks -> TaskStates] /\ SleepInv'
      BY <3>3, <3>4, TaskMoves DEF k
    <3> QED
      BY <2>3, <3>5 DEF PrepareForRun, TypeInv, TypeOK
  <2>4. CASE SavePrepared(t)
    <3>1. run' \in Runs
      <4> DEFINE s == IF task[t].run.status \in {"AGENT_SUCCEEDED", "SUCCEEDED"}
                      THEN "WAITING_CALLBACK" ELSE task[t].run.status
      <4>1. s \in Statuses
        BY <1>0 DEF Runs, Statuses
      <4>2. run' = run \/ run' = [task[t].run EXCEPT !.callback = "PENDING",
                                    !.event = task[t].event, !.status = s]
        BY <1>0, <2>4 DEF SavePrepared, Runs
      <4> HIDE DEF s
      <4> QED
        BY <1>0, <4>1, <4>2 DEF Runs
    <3>2. rows' \in [1..MaxEvents -> Deliveries]
      BY <1>0, <2>4 DEF SavePrepared, TypeInv, TypeOK
    <3>3. task' \in [Tasks -> TaskStates] /\ SleepInv'
      <4>1. CASE GotoDispatch(t, task[t].event, task[t].row)
        <5> DEFINE k == [IdleTask EXCEPT !.pc = "dispatch", !.event = task[t].event,
                                         !.row = task[t].row]
        <5>1. k \in TaskStates /\ k.pc = "dispatch"
          BY <1>0, BlankTypes DEF TaskStates, PCs
        <5> HIDE DEF k
        <5>2. task' = [task EXCEPT ![t] = k]
          BY <4>1 DEF GotoDispatch, k
        <5> QED
          BY <5>1, <5>2, TaskMoves
      <4> QED
        BY <2>4, <4>1, TaskTurns DEF SavePrepared
    <3> QED
      BY <2>4, <3>1, <3>2, <3>3 DEF SavePrepared, TypeInv, TypeOK
  <2>5. CASE ReleaseQueue(t)
    <3>1. run' \in Runs
      <4> DEFINE d == run.dead \/ task[t].run.status = "FAILED"
      <4>1. d \in BOOLEAN
        OBVIOUS
      <4>2. run' = run \/ run' = [run EXCEPT !.worker = NoWorker, !.dead = d]
        BY <2>5 DEF ReleaseQueue
      <4> HIDE DEF d
      <4> QED
        BY <1>0, <4>1, <4>2 DEF Runs
    <3> QED
      BY <2>5, <3>1, TaskTurns DEF ReleaseQueue, TypeInv, TypeOK
  <2> QED
    BY <1>1, <2>1, <2>2, <2>3, <2>4, <2>5 DEF ExecutorStep
<1>2. ASSUME NEW t \in Tasks, DispatcherStep(t) PROVE TypeInv'
  <2>0. \A s \in {"PENDING", "DELIVERED", "FAILED"} :
          /\ [task[t].row EXCEPT !.status = s] \in Deliveries
          /\ [task[t].row EXCEPT !.status = s, !.lease = NoLease] \in Deliveries
          /\ [task[t].row EXCEPT !.lease = NoLease] \in Deliveries
    BY <1>0, Numbers, RowWrites
  <2>1. CASE DispatchDelivery(t)
    <3>1. CASE task[t].row.attempts < MaxAttempts
      <4> DEFINE n == task[t].row.attempts + 1
                 row == [task[t].row EXCEPT !.attempts = n]
                 k == [task[t] EXCEPT !.pc = "sent", !.run = run, !.row = row]
      <4>1. n \in 0..MaxAttempts
        BY <1>0, <3>1, Numbers DEF Deliveries
      <4>2. task' = [task EXCEPT ![t] = k]
        BY <1>0, <2>1, <3>1 DEF DispatchDelivery, Counted
      <4> HIDE DEF n
      <4>3. row \in Deliveries
        BY <1>0, <4>1, RowWrites
      <4> HIDE DEF row
      <4>4. k \in TaskStates /\ k.pc = "sent"
        BY <1>0, <4>3 DEF TaskStates, PCs
      <4> HIDE DEF k
      <4>5. task' \in [Tasks -> TaskStates] /\ SleepInv'
        BY <4>2, <4>4, TaskMoves
      <4> QED
        BY <2>1, <4>5 DEF DispatchDelivery, TypeInv, TypeOK
    <3>2. CASE ~(task[t].row.attempts < MaxAttempts)
      <4> DEFINE k == [task[t] EXCEPT !.pc = "exhausted", !.run = run]
      <4>1. k \in TaskStates /\ k.pc = "exhausted"
        BY <1>0 DEF TaskStates, PCs
      <4>2. task' = [task EXCEPT ![t] = k]
        BY <2>1, <3>2 DEF DispatchDelivery
      <4> HIDE DEF k
      <4>3. task' \in [Tasks -> TaskStates] /\ SleepInv'
        BY <4>1, <4>2, TaskMoves
      <4> QED
        BY <2>1, <4>3 DEF DispatchDelivery, TypeInv, TypeOK
    <3> QED
      BY <3>1, <3>2
  <2>2. CASE Acknowledged(t)
    <3>1. run' \in Runs
      BY <1>0, <2>2, ToldCopies DEF Acknowledged
    <3>2. rows' \in [1..MaxEvents -> Deliveries]
      BY <2>2, ToldCopies DEF Acknowledged, TypeInv, TypeOK
    <3>3. acked' \subseteq 0..MaxOutcomes
      BY <1>0, <2>2 DEF Acknowledged, Deliveries
    <3> DEFINE k == [task[t] EXCEPT !.pc = "told", !.row = DeliveredRow(t), !.run = DeliveredRun(t)]
    <3>4. k \in TaskStates /\ k.pc = "told"
      BY <1>0, ToldCopies DEF TaskStates, PCs
    <3>5. task' = [task EXCEPT ![t] = k]
      BY <2>2 DEF Acknowledged
    <3> HIDE DEF k
    <3>6. task' \in [Tasks -> TaskStates] /\ SleepInv'
      BY <3>4, <3>5, TaskMoves
    <3> QED
      BY <2>2, <3>1, <3>2, <3>3, <3>6 DEF Acknowledged, TypeInv, TypeOK
  <2>3. CASE AttemptFails(t)
    <3> DEFINE pc == IF task[t].row.attempts < MaxAttempts THEN "sleep" ELSE "exhausted"
               row == [task[t].row EXCEPT !.status = "FAILED"]
               k == [task[t] EXCEPT !.pc = pc, !.row = row]
    <3>1. row \in Deliveries /\ row.attempts = task[t].row.attempts
      BY <1>0, <2>0 DEF Deliveries
    <3>2. task' = [task EXCEPT ![t] = k]
      BY <1>0, <2>3 DEF AttemptFails
    <3>3. pc \in PCs
      BY DEF PCs
    <3>4. pc = "sleep" => task[t].row.attempts < MaxAttempts
      OBVIOUS
    <3> HIDE DEF pc, row
    <3>5. k \in TaskStates /\ k.pc = pc /\ k.row = row
      BY <1>0, <3>1, <3>3 DEF TaskStates
    <3> HIDE DEF k
    <3>6. task' \in [Tasks -> TaskStates] /\ SleepInv'
      <4>1. k.pc = "sleep" => k.row.attempts < MaxAttempts
        BY <3>1, <3>4, <3>5
      <4> QED
        BY <3>2, <3>5, <4>1, TaskMoves
    <3>7. rows' \in [1..MaxEvents -> Deliveries]
      BY <2>0, <2>3 DEF AttemptFails, TypeInv, TypeOK
    <3> QED
      BY <2>3, <3>6, <3>7 DEF AttemptFails, TypeInv, TypeOK
  <2>4. CASE PostAgain(t)
    <3> DEFINE n == task[t].row.attempts + 1
               row == [task[t].row EXCEPT !.attempts = n]
               k == [task[t] EXCEPT !.pc = "sent", !.row = row]
    <3>1. n \in 0..MaxAttempts
      BY <1>0, <2>4, Numbers DEF PostAgain, TypeInv, SleepInv, Deliveries
    <3>2. task' = [task EXCEPT ![t] = k]
      BY <1>0, <2>4 DEF PostAgain, Counted
    <3> HIDE DEF n
    <3>3. row \in Deliveries
      BY <1>0, <3>1, RowWrites
    <3> HIDE DEF row
    <3>4. k \in TaskStates /\ k.pc = "sent"
      BY <1>0, <3>3 DEF TaskStates, PCs
    <3> HIDE DEF k
    <3>5. task' \in [Tasks -> TaskStates] /\ SleepInv'
      BY <3>2, <3>4, TaskMoves
    <3> QED
      BY <2>4, <3>5 DEF PostAgain, TypeInv, TypeOK
  <2>5. CASE ExhaustRun(t)
    <3> DEFINE k == [task[t] EXCEPT !.pc = "settle", !.run = NewRun]
    <3>1. k \in TaskStates /\ k.pc = "settle"
      BY <1>0, BlankTypes DEF TaskStates, PCs
    <3>2. task' = [task EXCEPT ![t] = k]
      BY <2>5 DEF ExhaustRun
    <3> HIDE DEF k
    <3>3. task' \in [Tasks -> TaskStates] /\ SleepInv'
      BY <3>1, <3>2, TaskMoves
    <3>4. run' \in Runs
      BY <1>0, <2>5 DEF ExhaustRun, Runs
    <3> QED
      BY <2>5, <3>3, <3>4 DEF ExhaustRun, TypeInv, TypeOK
  <2>6. CASE ReleaseDelivery(t)
    <3>1. rows' \in [1..MaxEvents -> Deliveries]
      BY <2>0, <2>6 DEF ReleaseDelivery, TypeInv, TypeOK
    <3> QED
      BY <2>6, <3>1, TaskTurns DEF ReleaseDelivery, TypeInv, TypeOK
  <2>7. CASE Delivered(t)
    BY <2>7, TaskTurns DEF Delivered, TypeInv, TypeOK
  <2> QED
    BY <1>2, <2>1, <2>2, <2>3, <2>4, <2>5, <2>6, <2>7 DEF DispatcherStep
<1>3. ASSUME NEW t \in Tasks, Resend(t) PROVE TypeInv'
  <2>1. rows' \in [1..MaxEvents -> Deliveries]
    <3>1. CASE run.event = NoEvent
      BY <1>3, <3>1 DEF Resend, TypeInv, TypeOK
    <3>2. CASE run.event # NoEvent
      <4>1. run.event \in 1..MaxEvents
        BY <1>0, <3>2, Numbers DEF Runs
      <4>2. [rows[run.event] EXCEPT !.status = "PENDING", !.attempts = 0, !.lease = NoLease]
              \in Deliveries
        BY <1>0, <4>1, Numbers, RowWrites
      <4> QED
        BY <1>3, <3>2, <4>1, <4>2 DEF Resend, TypeInv, TypeOK
    <3> QED
      BY <3>1, <3>2
  <2> DEFINE k == [IdleTask EXCEPT !.pc = "prepare", !.resend = TRUE, !.run = run]
  <2>2. k \in TaskStates /\ k.pc = "prepare"
    BY <1>0, BlankTypes DEF TaskStates, PCs
  <2>3. task' = [task EXCEPT ![t] = k]
    BY <1>3 DEF Resend
  <2> HIDE DEF k
  <2>4. task' \in [Tasks -> TaskStates] /\ SleepInv'
    BY <2>2, <2>3, TaskMoves
  <2> QED
    BY <1>3, <2>1, <2>4 DEF Resend, TypeInv, TypeOK
<1>4. ASSUME NEW t \in Tasks, Lose(t) PROVE TypeInv'
  <2>1. losses' \in 0..MaxLosses
    BY <1>0, <1>4, Numbers DEF Lose
  <2> QED
    BY <1>4, <2>1, TaskTurns DEF Lose, TypeInv, TypeOK
<1>5. ASSUME NEW t \in Tasks, NEW e \in 1..MaxEvents, ClaimPending(t, e) PROVE TypeInv'
  <2>1. [rows[e] EXCEPT !.lease = LeaseTicks] \in Deliveries
    BY <1>0, Numbers, RowWrites
  <2> QED
    BY <1>5, <2>1, TaskTurns DEF ClaimPending, TypeInv, TypeOK
<1>6. CASE Retry
  <2>1. run' \in Runs
    BY <1>0, <1>6 DEF Retry, Runs, Statuses
  <2> QED
    BY <1>6, <2>1 DEF Retry, TypeInv, TypeOK, SleepInv
<1>7. CASE Cancel
  <2>1. run' \in Runs
    BY <1>0, <1>7 DEF Cancel, Runs, Statuses
  <2> QED
    BY <1>7, <2>1 DEF Cancel, TypeInv, TypeOK, SleepInv
<1>8. CASE Tick
  <2>1. \A d \in Deliveries : Aged(d) \in Deliveries /\ Aged(d).attempts = d.attempts
    <3> SUFFICES ASSUME NEW d \in Deliveries
                 PROVE  Aged(d) \in Deliveries /\ Aged(d).attempts = d.attempts
      OBVIOUS
    <3> DEFINE l == Elapse(d.lease)
    <3>1. l \in {NoLease} \cup 0..LeaseTicks
      BY Numbers DEF Deliveries
    <3> HIDE DEF l
    <3>2. Aged(d) = [d EXCEPT !.lease = l]
      BY DEF Aged, l
    <3> QED
      BY <3>1, <3>2 DEF Deliveries
  <2>2. rows' \in [1..MaxEvents -> Deliveries]
    BY <1>0, <1>8, <2>1 DEF Tick
  <2>3. \A t \in Tasks : /\ task'[t] \in TaskStates
                         /\ task'[t].pc = task[t].pc
                         /\ task'[t].row.attempts = task[t].row.attempts
    <3> SUFFICES ASSUME NEW t \in Tasks
                 PROVE  /\ task'[t] \in TaskStates /\ task'[t].pc = task[t].pc
                        /\ task'[t].row.attempts = task[t].row.attempts
      OBVIOUS
    <3> DEFINE row == Aged(task[t].row)
    <3>1. row \in Deliveries /\ row.attempts = task[t].row.attempts
      BY <1>0, <2>1
    <3>2. task'[t] = [task[t] EXCEPT !.row = row]
      BY <1>0, <1>8 DEF Tick
    <3> HIDE DEF row
    <3> QED
      BY <1>0, <3>1, <3>2 DEF TaskStates
  <2>4. task' \in [Tasks -> TaskStates]
    <3>1. task' = [t \in Tasks |-> task'[t]]
      BY <1>8 DEF Tick
    <3> QED
      BY <2>3, <3>1
  <2> QED
    BY <1>8, <2>2, <2>3, <2>4 DEF Tick, TypeInv, TypeOK, SleepInv
<1>9. CASE UNCHANGED vars
  BY <1>9 DEF vars, TypeInv, TypeOK, SleepInv
<1> QED
  BY <1>1, <1>2, <1>3, <1>4, <1>5, <1>6, <1>7, <1>8, <1>9 DEF Next

\* The initial state is well typed.
LEMMA TypeInit == Init => TypeInv
<1> SUFFICES ASSUME Init PROVE TypeInv
  OBVIOUS
<1>1. losses \in 0..MaxLosses
  BY BoundAssumption DEF Init
<1>2. SleepInv
  BY BlankTypes DEF Init, SleepInv
<1> QED
  BY <1>1, <1>2, BlankTypes DEF Init, TypeInv, TypeOK

\* TypeInv is an invariant.
LEMMA TypeInvHolds == Spec => []TypeInv
BY TypeInit, TypeStep, PTL DEF Spec

\* Every reachable state is well typed; in particular no delivery is posted more
\* often than callback.max_attempts by one claim or over several, until resent.
THEOREM TypeCorrect == Spec => []TypeOK
<1>1. TypeInv => TypeOK
  BY DEF TypeInv
<1> QED
  BY <1>1, TypeInvHolds, PTL

(***************************************************************************)
(* A failure is kept.  No invariant is needed: every transaction that      *)
(* writes a whole copy requires the status of the copy, and _settled_status*)
(* leaves FAILED alone.                                                    *)
(***************************************************************************)

\* One step from a failed run leads to a failed or a requeued one.
LEMMA FailureStep ==
    TypeInv /\ [Next]_vars /\ run.status = "FAILED" => run'.status \in {"FAILED", "QUEUED"}
<1> SUFFICES ASSUME TypeInv, [Next]_vars, run.status = "FAILED"
             PROVE  run'.status \in {"FAILED", "QUEUED"}
  OBVIOUS
<1>0. run \in Runs /\ \A t \in Tasks : task[t].run \in Runs
  BY DEF TypeInv, TypeOK, TaskStates
<1>1. ASSUME NEW t \in Tasks, SkipCallback(t) \/ Acknowledged(t)
      PROVE  run'.status \in {"FAILED", "QUEUED"}
  <2>1. task[t].run.status = "FAILED" => SettledStatus(task[t].run) = "FAILED"
    BY DEF SettledStatus
  <2> QED
    BY <1>0, <1>1, <2>1, ToldCopies DEF SkipCallback, Acknowledged, Current, Runs
<1>2. ASSUME NEW t \in Tasks, SavePrepared(t) PROVE run'.status \in {"FAILED", "QUEUED"}
  BY <1>0, <1>2 DEF SavePrepared, Current, Runs
<1>3. ASSUME NEW t \in Tasks, ReleaseQueue(t) \/ ExhaustRun(t)
      PROVE  run'.status \in {"FAILED", "QUEUED"}
  BY <1>0, <1>3 DEF ReleaseQueue, ExhaustRun, Runs
<1>4. CASE Retry
  BY <1>0, <1>4 DEF Retry, Runs
<1>5. ASSUME NEW t \in Tasks,
             \/ PrepareForRun(t) \/ DispatchDelivery(t) \/ AttemptFails(t) \/ PostAgain(t)
             \/ Delivered(t) \/ ReleaseDelivery(t) \/ Resend(t) \/ Lose(t)
             \/ \E e \in 1..MaxEvents : ClaimPending(t, e)
      PROVE  run' = run
  BY <1>5 DEF PrepareForRun, DispatchDelivery, AttemptFails, PostAgain, Delivered,
              ReleaseDelivery, Resend, Lose, ClaimPending
<1>6. CASE Tick \/ UNCHANGED vars
  BY <1>6 DEF Tick, vars
<1>7. ~Cancel /\ \A t \in Tasks, s \in Statuses, w \in Tasks \cup {NoWorker} : ~RecordOutcome(t, s, w)
  BY DEF Cancel, RecordOutcome
<1> QED
  BY <1>1, <1>2, <1>3, <1>4, <1>5, <1>6, <1>7
     DEF Next, ExecutorStep, DispatcherStep, Statuses

\* No delivery, however late or repeated, turns a failed run into another one;
\* only the operator's retry takes it out of FAILED.
THEOREM FailureKept == Spec => FailureIsKept
<1>1. TypeInv /\ [Next]_vars => [run.status = "FAILED" => run'.status \in {"FAILED", "QUEUED"}]_vars
  BY FailureStep
<1> QED
  BY <1>1, TypeInvHolds, PTL DEF Spec, FailureIsKept

(***************************************************************************)
(* The payload is frozen.  A task's copy of a saved delivery has the       *)
(* payload of the row (Fit); the event id of a delivery that is not saved  *)
(* yet is held by one task (Reserved), so that saving it cannot disagree   *)
(* with another copy; every id a run or a copy of it names was saved.      *)
(***************************************************************************)

SavedIn(e, rs) == e \in 1..MaxEvents /\ rs[e].status # "ABSENT"

Fit(k, rs) ==
    /\ k.event # NoEvent <=> k.pc \in Dispatching \cup {"save"}
    /\ k.pc \in Dispatching => SavedIn(k.event, rs)
    /\ k.event # NoEvent => k.row.status # "ABSENT"
    /\ SavedIn(k.event, rs) => k.row.payload = rs[k.event].payload
    /\ k.run.event # NoEvent => SavedIn(k.run.event, rs)

Reserved ==
    \A t, u \in Tasks :
        task[t].event # NoEvent /\ task[u].event = task[t].event
        => t = u \/ SavedIn(task[t].event, rows)

FrozenInv ==
    /\ \A t \in Tasks : Fit(task[t], rows)
    /\ Reserved
    /\ run.event # NoEvent => SavedIn(run.event, rows)

\* Rows only get saved, and a saved row keeps its payload.
Extends(rs, rt) ==
    \A e \in 1..MaxEvents : rs[e].status # "ABSENT"
                            => rt[e].status # "ABSENT" /\ rt[e].payload = rs[e].payload

\* ... and no row is newly saved
SameRows(rs, rt) ==
    Extends(rs, rt) /\ \A e \in 1..MaxEvents : rt[e].status # "ABSENT" => rs[e].status # "ABSENT"

\* A copy that fits goes on fitting when no other row is saved.
LEMMA FitKept ==
    ASSUME NEW k, NEW rs, NEW rt, Fit(k, rs), Extends(rs, rt),
           SavedIn(k.event, rt) => SavedIn(k.event, rs)
    PROVE  Fit(k, rt)
BY DEF Fit, Extends, SavedIn

\* A step that saves no new row and moves one task to a state that fits and
\* names no event of another task that is still unsaved.
LEMMA FrozenMove ==
    ASSUME TypeInv, FrozenInv, NEW t \in Tasks, NEW k, task' = [task EXCEPT ![t] = k],
           SameRows(rows, rows'), Fit(k, rows),
           \/ k.event = NoEvent \/ k.event = task[t].event \/ SavedIn(k.event, rows)
           \/ \A u \in Tasks : task[u].event # k.event,
           run'.event # NoEvent => SavedIn(run'.event, rows)
    PROVE  FrozenInv' /\ Extends(rows, rows')
<1>1. \A u \in Tasks : task'[u] = IF u = t THEN k ELSE task[u]
  BY DEF TypeInv, TypeOK
<1>2. \A e : SavedIn(e, rows') <=> SavedIn(e, rows)
  BY DEF SameRows, Extends, SavedIn
<1>3. \A u \in Tasks : Fit(task'[u], rows')
  <2> SUFFICES ASSUME NEW u \in Tasks PROVE Fit(task'[u], rows')
    OBVIOUS
  <2>1. Fit(task'[u], rows)
    BY <1>1 DEF FrozenInv
  <2> QED
    BY <1>2, <2>1, FitKept DEF SameRows
<1>4. Reserved'
  BY <1>1, <1>2 DEF FrozenInv, Reserved
<1>5. run'.event # NoEvent => SavedIn(run'.event, rows')
  BY <1>2
<1> QED
  BY <1>3, <1>4, <1>5 DEF FrozenInv, SameRows

\* Unchanged rows are the same rows.
LEMMA SameUnchanged == rows' = rows => SameRows(rows, rows')
BY DEF SameRows, Extends

\* Writing a delivery with the payload it has.
LEMMA SameWritten ==
    ASSUME TypeInv, NEW e \in 1..MaxEvents, NEW d, rows' = [rows EXCEPT ![e] = d],
           SavedIn(e, rows), d.status # "ABSENT", d.payload = rows[e].payload
    PROVE  SameRows(rows, rows')
BY DEF SameRows, Extends, SavedIn, TypeInv, TypeOK

\* A task that holds no delivery fits.
LEMMA FitEmpty ==
    ASSUME NEW k, k.event = NoEvent, k.pc \in {"idle", "prepare", "release"},
           k.run.event # NoEvent => SavedIn(k.run.event, rows)
    PROVE  Fit(k, rows)
<1>1. ~SavedIn(NoEvent, rows)
  BY BoundAssumption DEF SavedIn, NoEvent
<1> QED
  BY <1>1 DEF Fit, Dispatching

\* The idle task does.
LEMMA FitIdle == Fit(IdleTask, rows) /\ IdleTask.event = NoEvent
<1>1. /\ IdleTask.event = NoEvent /\ IdleTask.pc = "idle" /\ IdleTask.run = NewRun
      /\ NewRun.event = NoEvent
  BY DEF IdleTask, NewRun
<1> QED
  BY <1>1, FitEmpty

\* Every step keeps FrozenInv, saves rows for good and keeps their payloads.
LEMMA FrozenStep == TypeInv /\ FrozenInv /\ [Next]_vars => FrozenInv' /\ Extends(rows, rows')
<1> SUFFICES ASSUME TypeInv, FrozenInv, [Next]_vars PROVE FrozenInv' /\ Extends(rows, rows')
  OBVIOUS
<1>0. /\ run \in Runs /\ rows \in [1..MaxEvents -> Deliveries]
      /\ \A e \in 1..MaxEvents : rows[e] \in Deliveries
      /\ \A t \in Tasks : /\ task[t] \in TaskStates /\ task[t].run \in Runs
                          /\ task[t].row \in Deliveries /\ task[t].event \in 0..MaxEvents
                          /\ Fit(task[t], rows)
      /\ run.event # NoEvent => SavedIn(run.event, rows)
      /\ \A t \in Tasks : task[t].run.event # NoEvent => SavedIn(task[t].run.event, rows)
  BY DEF TypeInv, TypeOK, TaskStates, FrozenInv, Fit
<1>1. ASSUME NEW t \in Tasks, rows' = rows, Idle(t) \/ GotoRelease(t),
             run'.event # NoEvent => SavedIn(run'.event, rows)
      PROVE  FrozenInv' /\ Extends(rows, rows')
  <2> DEFINE k == [IdleTask EXCEPT !.pc = "release", !.run = task[t].run]
  <2>1. k.pc = "release" /\ k.run = task[t].run /\ k.event = NoEvent
    BY DEF IdleTask
  <2>2. task' = [task EXCEPT ![t] = k] \/ task' = [task EXCEPT ![t] = IdleTask]
    BY <1>1 DEF Idle, GotoRelease
  <2> HIDE DEF k
  <2>3. Fit(k, rows)
    BY <1>0, <2>1, FitEmpty
  <2> QED
    BY <1>1, <2>1, <2>2, <2>3, FitIdle, FrozenMove, SameUnchanged
<1>2. ASSUME NEW t \in Tasks, ExecutorStep(t) PROVE FrozenInv' /\ Extends(rows, rows')
  <2>1. ASSUME NEW s \in {"AGENT_SUCCEEDED", "SUCCEEDED", "FAILED"}, NEW w \in {t, NoWorker},
               RecordOutcome(t, s, w)
        PROVE  FrozenInv' /\ Extends(rows, rows')
    <3>1. run'.event = run.event /\ run' \in Runs
      <4>1. run' \in Runs
        BY <2>1, TypeStep DEF TypeInv, TypeOK
      <4>2. run'.event = run.event
        BY <1>0, <2>1 DEF RecordOutcome, Runs
      <4> QED
        BY <4>1, <4>2
    <3> DEFINE k == [IdleTask EXCEPT !.pc = "prepare", !.run = run']
    <3>2. k.pc = "prepare" /\ k.run = run' /\ k.event = NoEvent
      BY DEF IdleTask
    <3>3. task' = [task EXCEPT ![t] = k] /\ rows' = rows
      BY <2>1 DEF RecordOutcome
    <3> HIDE DEF k
    <3>4. Fit(k, rows)
      BY <1>0, <3>1, <3>2, FitEmpty
    <3> QED
      BY <1>0, <3>1, <3>2, <3>3, <3>4, FrozenMove, SameUnchanged
  <2>2. CASE SkipCallback(t)
    <3>1. run'.event \in {run.event, task[t].run.event}
      BY <1>0, <2>2 DEF SkipCallback, Runs
    <3> QED
      BY <1>0, <1>1, <2>2, <3>1 DEF SkipCallback
  <2>3. CASE PrepareForRun(t)
    <3>1. PICK e \in 1..MaxEvents :
            /\ IF task[t].run.event = NoEvent THEN Fresh(e) ELSE e = task[t].run.event
            /\ task' = [task EXCEPT ![t] =
                 [@ EXCEPT !.pc = "save", !.event = e,
                    !.row = IF rows[e].status # "ABSENT" THEN [rows[e] EXCEPT !.lease = NoLease]
                            ELSE [status |-> "PENDING", attempts |-> 0, lease |-> NoLease,
                                  payload |-> task[t].run.outcome]]]
      BY <2>3 DEF PrepareForRun
    <3> DEFINE row == IF rows[e].status # "ABSENT" THEN [rows[e] EXCEPT !.lease = NoLease]
                      ELSE [status |-> "PENDING", attempts |-> 0, lease |-> NoLease,
                            payload |-> task[t].run.outcome]
               k == [task[t] EXCEPT !.pc = "save", !.event = e, !.row = row]
    <3>2. row.status # "ABSENT" /\ (SavedIn(e, rows) => row.payload = rows[e].payload)
      <4>1. [rows[e] EXCEPT !.lease = NoLease].status = rows[e].status
            /\ [rows[e] EXCEPT !.lease = NoLease].payload = rows[e].payload
        BY <1>0 DEF Deliveries
      <4> QED
        BY <4>1 DEF SavedIn
    <3>3. task' = [task EXCEPT ![t] = k]
      BY <1>0, <3>1
    <3> HIDE DEF row
    <3>4. k.pc = "save" /\ k.event = e /\ k.row = row /\ k.run = task[t].run
      BY <1>0 DEF TaskStates
    <3> HIDE DEF k
    <3>5. Fit(k, rows)
      BY <1>0, <3>2, <3>4, Numbers DEF Fit, Dispatching
    <3>6. SavedIn(e, rows) \/ \A u \in Tasks : task[u].event # e
      BY <1>0, <3>1 DEF Fresh
    <3> QED
      BY <1>0, <2>3, <3>3, <3>4, <3>5, <3>6, FrozenMove, SameUnchanged DEF PrepareForRun
  <2>4. CASE SavePrepared(t)
    <3>0. /\ task[t].event # NoEvent /\ task[t].event \in 1..MaxEvents
          /\ task[t].row.status # "ABSENT"
          /\ SavedIn(task[t].event, rows) => task[t].row.payload = rows[task[t].event].payload
      BY <1>0, <2>4, Numbers DEF SavePrepared, Fit
    <3>1. CASE ~Current(t)
      <4>1. run' = run /\ rows' = rows /\ (Idle(t) \/ GotoRelease(t))
        BY <2>4, <3>1 DEF SavePrepared
      <4> QED
        BY <1>0, <1>1, <4>1
    <3>2. CASE Current(t)
      <4>1. rows' = [rows EXCEPT ![task[t].event] = task[t].row]
        BY <2>4, <3>2 DEF SavePrepared
      <4>2. /\ \A e \in 1..MaxEvents : rows'[e] = IF e = task[t].event THEN task[t].row ELSE rows[e]
            /\ SavedIn(task[t].event, rows')
        BY <1>0, <3>0, <4>1 DEF SavedIn
      <4>3. Extends(rows, rows')
        BY <3>0, <4>2 DEF Extends, SavedIn
      <4>4. \A e : SavedIn(e, rows) => SavedIn(e, rows')
        BY <4>3 DEF Extends, SavedIn
      <4>5. \A e : SavedIn(e, rows') => e = task[t].event \/ SavedIn(e, rows)
        BY <4>2 DEF SavedIn
      <4>6. run'.event = task[t].event
        BY <1>0, <2>4, <3>2 DEF SavePrepared, Runs
      <4>7. \A u \in Tasks \ {t} : task'[u] = task[u]
        BY <2>4 DEF SavePrepared, GotoRelease, GotoDispatch, Idle, TypeInv, TypeOK
      <4>8. \A u \in Tasks \ {t} : Fit(task[u], rows')
        <5> SUFFICES ASSUME NEW u \in Tasks \ {t} PROVE Fit(task[u], rows')
          OBVIOUS
        <5>1. SavedIn(task[u].event, rows') => SavedIn(task[u].event, rows)
          BY <3>0, <4>5 DEF FrozenInv, Reserved
        <5> QED
          BY <1>0, <4>3, <5>1, FitKept
      <4>9. /\ Fit(task'[t], rows')
            /\ task'[t].event = NoEvent \/ task'[t].event = task[t].event
        <5>1. CASE GotoRelease(t)
          <6>1. /\ task'[t].pc = "release" /\ task'[t].event = NoEvent
                /\ task'[t].run = task[t].run
            BY <5>1 DEF GotoRelease, IdleTask, TypeInv, TypeOK
          <6>2. ~SavedIn(NoEvent, rows')
            BY BoundAssumption DEF SavedIn, NoEvent
          <6> QED
            BY <1>0, <4>4, <6>1, <6>2 DEF Fit, Dispatching
        <5>2. CASE GotoDispatch(t, task[t].event, task[t].row)
          <6>1. /\ task'[t].pc = "dispatch" /\ task'[t].event = task[t].event
                /\ task'[t].row = task[t].row /\ task'[t].run = NewRun
            BY <5>2 DEF GotoDispatch, IdleTask, TypeInv, TypeOK
          <6>2. NewRun.event = NoEvent
            BY DEF NewRun
          <6> QED
            BY <3>0, <4>2, <6>1, <6>2 DEF Fit, Dispatching
        <5> QED
          BY <2>4, <3>2, <5>1, <5>2 DEF SavePrepared
      <4>10. Reserved'
        <5> SUFFICES ASSUME NEW u \in Tasks, NEW v \in Tasks, task'[u].event # NoEvent,
                            task'[v].event = task'[u].event
                     PROVE  u = v \/ SavedIn(task'[u].event, rows')
          BY DEF Reserved
        <5>1. CASE u = t \/ v = t
          BY <4>2, <4>9, <5>1
        <5>2. CASE u # t /\ v # t
          BY <4>4, <4>7, <5>2 DEF FrozenInv, Reserved
        <5> QED
          BY <5>1, <5>2
      <4> QED
        BY <4>2, <4>3, <4>6, <4>7, <4>8, <4>9, <4>10 DEF FrozenInv
    <3> QED
      BY <3>1, <3>2
  <2>5. CASE ReleaseQueue(t)
    <3>1. run'.event = run.event
      BY <1>0, <2>5 DEF ReleaseQueue, Runs
    <3> QED
      BY <1>0, <1>1, <2>5, <3>1 DEF ReleaseQueue
  <2> QED
    BY <1>2, <2>1, <2>2, <2>3, <2>4, <2>5 DEF ExecutorStep
<1>3. ASSUME NEW t \in Tasks, DispatcherStep(t) PROVE FrozenInv' /\ Extends(rows, rows')
  <2>0. /\ task[t].pc \in Dispatching /\ task[t].event # NoEvent
        /\ SavedIn(task[t].event, rows) /\ task[t].event \in 1..MaxEvents
        /\ task[t].row.status # "ABSENT"
        /\ task[t].row.payload = rows[task[t].event].payload
    <3>1. task[t].pc \in Dispatching
      BY <1>3 DEF DispatcherStep, DispatchDelivery, Acknowledged, Delivered, AttemptFails,
                  PostAgain, ExhaustRun, ReleaseDelivery, Dispatching
    <3> QED
      BY <1>0, <3>1 DEF Fit, SavedIn
  <2>1. ASSUME NEW k \in TaskStates, task' = [task EXCEPT ![t] = k], SameRows(rows, rows'),
               k.pc \in Dispatching, k.event = task[t].event, k.row.status # "ABSENT",
               k.row.payload = task[t].row.payload,
               k.run.event # NoEvent => SavedIn(k.run.event, rows),
               run'.event # NoEvent => SavedIn(run'.event, rows)
        PROVE  FrozenInv' /\ Extends(rows, rows')
    <3>1. Fit(k, rows)
      BY <2>0, <2>1 DEF Fit
    <3> QED
      BY <2>1, <3>1, FrozenMove
  <2>2. CASE DispatchDelivery(t)
    <3> DEFINE row == Counted(task[t].row)
               k1 == [task[t] EXCEPT !.pc = "sent", !.run = run, !.row = row]
               k2 == [task[t] EXCEPT !.pc = "exhausted", !.run = run]
    <3>1. row.status = task[t].row.status /\ row.payload = task[t].row.payload
      BY <1>0 DEF Counted, Deliveries
    <3>2. task' = [task EXCEPT ![t] = k1] \/ task' = [task EXCEPT ![t] = k2]
      BY <1>0, <2>2 DEF DispatchDelivery
    <3> HIDE DEF row
    <3>3. /\ k1.pc = "sent" /\ k1.run = run /\ k1.event = task[t].event /\ k1.row = row
          /\ k2.pc = "exhausted" /\ k2.run = run /\ k2.event = task[t].event
          /\ k2.row = task[t].row
      BY <1>0 DEF TaskStates
    <3> HIDE DEF k1, k2
    <3>4. task'[t] \in TaskStates
      BY TypeStep DEF TypeInv, TypeOK
    <3>5. rows' = rows /\ run' = run /\ "sent" \in Dispatching /\ "exhausted" \in Dispatching
      BY <2>2 DEF DispatchDelivery, Dispatching
    <3>6. CASE task' = [task EXCEPT ![t] = k1]
      <4>1. k1 \in TaskStates
        BY <3>4, <3>6 DEF TypeInv, TypeOK
      <4> QED
        BY <1>0, <2>0, <2>1, <3>1, <3>3, <3>5, <3>6, <4>1, SameUnchanged
    <3>7. CASE task' = [task EXCEPT ![t] = k2]
      <4>1. k2 \in TaskStates
        BY <3>4, <3>7 DEF TypeInv, TypeOK
      <4> QED
        BY <1>0, <2>0, <2>1, <3>3, <3>5, <3>7, <4>1, SameUnchanged
    <3> QED
      BY <3>2, <3>6, <3>7
  <2>3. CASE Acknowledged(t)
    <3> DEFINE k == [task[t] EXCEPT !.pc = "told", !.row = DeliveredRow(t), !.run = DeliveredRun(t)]
    <3>1. SameRows(rows, rows')
      <4>1. rows' = [rows EXCEPT ![task[t].event] = DeliveredRow(t)]
        BY <2>3 DEF Acknowledged
      <4>2. DeliveredRow(t).status # "ABSENT" /\ DeliveredRow(t).payload = task[t].row.payload
        BY ToldCopies
      <4> QED
        BY <2>0, <4>1, <4>2, SameWritten
    <3>2. run'.event \in {run.event, task[t].run.event}
      BY <2>3, ToldCopies DEF Acknowledged
    <3>3. task' = [task EXCEPT ![t] = k]
      BY <2>3 DEF Acknowledged
    <3>4. /\ k.pc = "told" /\ k.event = task[t].event /\ k.row = DeliveredRow(t)
          /\ k.run = DeliveredRun(t) /\ "told" \in Dispatching
      BY <1>0 DEF TaskStates, Dispatching
    <3> HIDE DEF k
    <3>5. task'[t] = k /\ task'[t] \in TaskStates
      BY <3>3, TypeStep DEF TypeInv, TypeOK
    <3>6. k.row.status # "ABSENT" /\ k.row.payload = task[t].row.payload
          /\ k.run.event = task[t].run.event
      BY <3>4, ToldCopies
    <3> QED
      BY <1>0, <2>1, <3>1, <3>2, <3>3, <3>4, <3>5, <3>6
  <2>4. CASE AttemptFails(t)
    <3> DEFINE pc == IF task[t].row.attempts < MaxAttempts THEN "sleep" ELSE "exhausted"
               d == [task[t].row EXCEPT !.status = "FAILED"]
               k == [task[t] EXCEPT !.pc = pc, !.row = d]
    <3>1. d.status # "ABSENT" /\ d.payload = task[t].row.payload
      BY <1>0 DEF Deliveries
    <3>2. /\ rows' = [rows EXCEPT ![task[t].event] = d] /\ task' = [task EXCEPT ![t] = k]
          /\ run' = run
      BY <1>0, <2>4 DEF AttemptFails
    <3>3. pc \in Dispatching
      BY DEF Dispatching
    <3> HIDE DEF d, pc
    <3>4. SameRows(rows, rows')
      BY <2>0, <3>1, <3>2, SameWritten
    <3>5. k.pc = pc /\ k.event = task[t].event /\ k.row = d /\ k.run = task[t].run
      BY <1>0 DEF TaskStates
    <3> HIDE DEF k
    <3>6. task'[t] = k /\ task'[t] \in TaskStates
      BY <3>2, TypeStep DEF TypeInv, TypeOK
    <3> QED
      BY <1>0, <2>1, <3>1, <3>2, <3>3, <3>4, <3>5, <3>6
  <2>5. CASE PostAgain(t)
    <3> DEFINE row == Counted(task[t].row)
               k == [task[t] EXCEPT !.pc = "sent", !.row = row]
    <3>1. row.status = task[t].row.status /\ row.payload = task[t].row.payload
      BY <1>0 DEF Counted, Deliveries
    <3>2. task' = [task EXCEPT ![t] = k] /\ rows' = rows /\ run' = run
      BY <1>0, <2>5 DEF PostAgain
    <3> HIDE DEF row
    <3>3. k.pc = "sent" /\ k.event = task[t].event /\ k.row = row /\ k.run = task[t].run
      BY <1>0 DEF TaskStates
    <3> HIDE DEF k
    <3>4. task'[t] = k /\ task'[t] \in TaskStates
      BY <3>2, TypeStep DEF TypeInv, TypeOK
    <3> QED
      BY <1>0, <2>0, <2>1, <3>1, <3>2, <3>3, <3>4, SameUnchanged DEF Dispatching
  <2>6. CASE ExhaustRun(t)
    <3> DEFINE k == [task[t] EXCEPT !.pc = "settle", !.run = NewRun]
    <3>1. task' = [task EXCEPT ![t] = k] /\ rows' = rows
      BY <2>6 DEF ExhaustRun
    <3>2. k.pc = "settle" /\ k.event = task[t].event /\ k.row = task[t].row /\ k.run = NewRun
      BY <1>0 DEF TaskStates
    <3>3. NewRun.event = NoEvent
      BY DEF NewRun
    <3>4. run'.event \in {run.event, task[t].run.event}
      BY <1>0, <2>6 DEF ExhaustRun, Runs
    <3> HIDE DEF k
    <3>5. task'[t] = k /\ task'[t] \in TaskStates
      BY <3>1, TypeStep DEF TypeInv, TypeOK
    <3> QED
      BY <1>0, <2>0, <2>1, <3>1, <3>2, <3>3, <3>4, <3>5, SameUnchanged DEF Dispatching
  <2>7. CASE ReleaseDelivery(t)
    <3> DEFINE d == [task[t].row EXCEPT !.lease = NoLease]
    <3>1. d.status = task[t].row.status /\ d.payload = task[t].row.payload
      BY <1>0 DEF Deliveries
    <3>2. rows' = [rows EXCEPT ![task[t].event] = d]
      BY <2>7 DEF ReleaseDelivery
    <3> HIDE DEF d
    <3>3. SameRows(rows, rows')
      BY <2>0, <3>1, <3>2, SameWritten
    <3> QED
      BY <1>0, <2>7, <3>3, FitIdle, FrozenMove DEF ReleaseDelivery, Idle
  <2>8. CASE Delivered(t)
    BY <1>0, <2>8, SameUnchanged, FitIdle, FrozenMove DEF Delivered, Idle
  <2> QED
    BY <1>3, <2>2, <2>3, <2>4, <2>5, <2>6, <2>7, <2>8 DEF DispatcherStep
<1>4. ASSUME NEW t \in Tasks, Resend(t) PROVE FrozenInv' /\ Extends(rows, rows')
  <2>1. SameRows(rows, rows')
    <3>1. CASE run.event = NoEvent
      BY <1>4, <3>1, SameUnchanged DEF Resend
    <3>2. CASE run.event # NoEvent
      <4> DEFINE d == [rows[run.event] EXCEPT !.status = "PENDING", !.attempts = 0,
                                              !.lease = NoLease]
      <4>1. SavedIn(run.event, rows) /\ run.event \in 1..MaxEvents
        BY <1>0, <3>2 DEF SavedIn
      <4>2. d.status # "ABSENT" /\ d.payload = rows[run.event].payload
        BY <1>0, <4>1 DEF Deliveries
      <4>3. rows' = [rows EXCEPT ![run.event] = d]
        BY <1>4, <3>2 DEF Resend
      <4> HIDE DEF d
      <4> QED
        BY <4>1, <4>2, <4>3, SameWritten
    <3> QED
      BY <3>1, <3>2
  <2> DEFINE k == [IdleTask EXCEPT !.pc = "prepare", !.resend = TRUE, !.run = run]
  <2>2. k.pc = "prepare" /\ k.run = run /\ k.event = NoEvent
    BY DEF IdleTask
  <2>3. task' = [task EXCEPT ![t] = k] /\ run' = run
    BY <1>4 DEF Resend
  <2> HIDE DEF k
  <2>4. Fit(k, rows)
    BY <1>0, <2>2, FitEmpty
  <2> QED
    BY <1>0, <2>1, <2>2, <2>3, <2>4, FrozenMove
<1>5. ASSUME NEW t \in Tasks, Lose(t) PROVE FrozenInv' /\ Extends(rows, rows')
  BY <1>0, <1>1, <1>5 DEF Lose
<1>6. ASSUME NEW t \in Tasks, NEW e \in 1..MaxEvents, ClaimPending(t, e)
      PROVE  FrozenInv' /\ Extends(rows, rows')
  <2> DEFINE d == [rows[e] EXCEPT !.lease = LeaseTicks]
             k == [IdleTask EXCEPT !.pc = "dispatch", !.event = e, !.row = d]
  <2>1. d.status = rows[e].status /\ d.payload = rows[e].payload
    BY <1>0 DEF Deliveries
  <2>2. SavedIn(e, rows)
    BY <1>6 DEF ClaimPending, SavedIn
  <2>3. rows' = [rows EXCEPT ![e] = d] /\ task' = [task EXCEPT ![t] = k] /\ run' = run
    BY <1>6 DEF ClaimPending, GotoDispatch
  <2> HIDE DEF d
  <2>4. SameRows(rows, rows')
    BY <2>1, <2>2, <2>3, SameWritten DEF SavedIn
  <2>5. k.pc = "dispatch" /\ k.event = e /\ k.row = d /\ k.run = NewRun
    BY DEF IdleTask
  <2>6. NewRun.event = NoEvent
    BY DEF NewRun
  <2> HIDE DEF k
  <2>7. Fit(k, rows)
    BY <2>1, <2>2, <2>5, <2>6, Numbers DEF Fit, SavedIn, Dispatching
  <2> QED
    BY <1>0, <2>2, <2>3, <2>4, <2>5, <2>7, FrozenMove
<1>7. CASE Retry \/ Cancel
  <2>1. run'.event = run.event /\ rows' = rows /\ task' = task
    BY <1>0, <1>7 DEF Retry, Cancel, Runs
  <2> QED
    BY <2>1 DEF FrozenInv, Reserved, Extends
<1>8. CASE Tick
  <2>1. \A d \in Deliveries : Aged(d).status = d.status /\ Aged(d).payload = d.payload
    BY DEF Aged, Deliveries
  <2>2. \A e \in 1..MaxEvents : rows'[e].status = rows[e].status /\ rows'[e].payload = rows[e].payload
    BY <1>0, <1>8, <2>1 DEF Tick
  <2>3. \A e : SavedIn(e, rows') <=> SavedIn(e, rows)
    BY <2>2 DEF SavedIn
  <2>4. Extends(rows, rows')
    BY <2>2 DEF Extends
  <2>5. \A t \in Tasks :
          /\ task'[t].pc = task[t].pc /\ task'[t].event = task[t].event
          /\ task'[t].run = task[t].run /\ task'[t].row.status = task[t].row.status
          /\ task'[t].row.payload = task[t].row.payload
    <3> SUFFICES ASSUME NEW t \in Tasks
                 PROVE  /\ task'[t].pc = task[t].pc /\ task'[t].event = task[t].event
                        /\ task'[t].run = task[t].run /\ task'[t].row.status = task[t].row.status
                        /\ task'[t].row.payload = task[t].row.payload
      OBVIOUS
    <3> DEFINE row == Aged(task[t].row)
    <3>1. row.status = task[t].row.status /\ row.payload = task[t].row.payload
      BY <1>0, <2>1
    <3>2. task'[t] = [task[t] EXCEPT !.row = row]
      BY <1>8 DEF Tick
    <3> HIDE DEF row
    <3> QED
      BY <1>0, <3>1, <3>2 DEF TaskStates
  <2>6. \A t \in Tasks : Fit(task'[t], rows')
    <3> SUFFICES ASSUME NEW t \in Tasks PROVE Fit(task'[t], rows')
      OBVIOUS
    <3>1. Fit(task'[t], rows)
      BY <1>0, <2>5 DEF Fit
    <3> QED
      BY <2>3, <2>4, <3>1, FitKept
  <2>7. Reserved'
    BY <2>3, <2>5 DEF FrozenInv, Reserved
  <2> QED
    BY <1>0, <1>8, <2>3, <2>4, <2>6, <2>7 DEF FrozenInv, Tick
<1>9. CASE UNCHANGED vars
  BY <1>9 DEF vars, FrozenInv, Reserved, Extends
<1> QED
  BY <1>2, <1>3, <1>4, <1>5, <1>6, <1>7, <1>8, <1>9 DEF Next

\* Initially no task holds a delivery.
LEMMA FrozenInit == Init => FrozenInv
<1> SUFFICES ASSUME Init PROVE FrozenInv
  OBVIOUS
<1>1. \A t \in Tasks : task[t] = IdleTask
  BY DEF Init
<1>2. run.event = NoEvent
  BY DEF Init, NewRun
<1> QED
  BY <1>1, <1>2, FitIdle DEF FrozenInv, Reserved

\* FrozenInv is an invariant.
LEMMA FrozenInvHolds == Spec => []FrozenInv
BY TypeInvHolds, FrozenInit, FrozenStep, PTL DEF Spec

\* Every repetition of an event id carries the payload it was first saved with,
\* with any number of stale copies, dispatchers, resends and retries.
THEOREM FrozenPayload == Spec => PayloadIsFrozen
<1>1. TypeInv /\ FrozenInv /\ [Next]_vars
      => [\A e \in 1..MaxEvents :
            rows[e].status # "ABSENT" => rows'[e].payload = rows[e].payload]_vars
  BY FrozenStep DEF Extends
<1> QED
  BY <1>1, TypeInvHolds, FrozenInvHolds, PTL DEF Spec, PayloadIsFrozen

(***************************************************************************)
(* What is on record as delivered was acknowledged.  The claim is extended *)
(* to the copies the tasks hold, since whole copies are written back; it   *)
(* rests on the frozen payload, without which a saved row could come to    *)
(* report something the consumer never saw.                                *)
(***************************************************************************)

Confirmed(rs, a) == \E e \in 1..MaxEvents : SavedIn(e, rs) /\ rs[e].payload \in a

RowAcked(d, a) == d.status = "DELIVERED" => d.payload \in a

RunAcked(r, rs, a) == r.callback = "DELIVERED" => Confirmed(rs, a)

AckInv ==
    /\ \A e \in 1..MaxEvents : RowAcked(rows[e], acked)
    /\ RunAcked(run, rows, acked)
    /\ \A t \in Tasks : RowAcked(task[t].row, acked) /\ RunAcked(task[t].run, rows, acked)

\* What was confirmed stays confirmed.
LEMMA StillConfirmed ==
    ASSUME Extends(rows, rows'), acked \subseteq acked'
    PROVE  /\ Confirmed(rows, acked) => Confirmed(rows', acked')
           /\ \A d : RowAcked(d, acked) => RowAcked(d, acked')
           /\ \A r : RunAcked(r, rows, acked) => RunAcked(r, rows', acked')
BY DEF Confirmed, RowAcked, RunAcked, SavedIn, Extends

\* The copies of one task and the rows change to acknowledged ones.
LEMMA AckMove ==
    ASSUME TypeInv, AckInv, Extends(rows, rows'), acked \subseteq acked',
           NEW t \in Tasks, NEW k, task' = [task EXCEPT ![t] = k],
           RowAcked(k.row, acked'), RunAcked(k.run, rows', acked'),
           \A e \in 1..MaxEvents : RowAcked(rows'[e], acked'),
           RunAcked(run', rows', acked')
    PROVE  AckInv'
<1>1. \A u \in Tasks : task'[u] = IF u = t THEN k ELSE task[u]
  BY DEF TypeInv, TypeOK
<1> QED
  BY <1>1, StillConfirmed DEF AckInv

\* The blank copies claim nothing.
LEMMA BlankAcked ==
    /\ RowAcked(Absent, acked') /\ RunAcked(NewRun, rows', acked')
    /\ IdleTask.row = Absent /\ IdleTask.run = NewRun
BY DEF RowAcked, RunAcked, Absent, NewRun, IdleTask

\* Every step keeps AckInv.
LEMMA AckStep == TypeInv /\ FrozenInv /\ AckInv /\ [Next]_vars => AckInv'
<1> SUFFICES ASSUME TypeInv, FrozenInv, AckInv, [Next]_vars PROVE AckInv'
  OBVIOUS
<1>0. /\ run \in Runs /\ rows \in [1..MaxEvents -> Deliveries]
      /\ \A e \in 1..MaxEvents : rows[e] \in Deliveries
      /\ \A t \in Tasks : /\ task[t] \in TaskStates /\ task[t].run \in Runs
                          /\ task[t].row \in Deliveries /\ task[t].event \in 0..MaxEvents
                          /\ Fit(task[t], rows)
      /\ task \in [Tasks -> TaskStates]
  BY DEF TypeInv, TypeOK, TaskStates, FrozenInv
<1>1. Extends(rows, rows')
  BY FrozenStep
<1>2. acked \subseteq acked'
  <2>1. ASSUME NEW t \in Tasks, Acknowledged(t) PROVE acked \subseteq acked'
    BY <2>1 DEF Acknowledged
  <2>2. (\A t \in Tasks : ~Acknowledged(t)) => acked' = acked
    BY DEF Next, ExecutorStep, DispatcherStep, RecordOutcome, SkipCallback, PrepareForRun,
           SavePrepared, ReleaseQueue, DispatchDelivery, AttemptFails, PostAgain, ExhaustRun,
           Delivered, ReleaseDelivery, Resend, Lose, ClaimPending, Retry, Cancel, Tick, vars
  <2> QED
    BY <2>1, <2>2
<1>3. /\ \A e \in 1..MaxEvents : RowAcked(rows[e], acked')
      /\ RunAcked(run, rows', acked')
      /\ \A t \in Tasks : RowAcked(task[t].row, acked') /\ RunAcked(task[t].run, rows', acked')
  BY <1>1, <1>2, StillConfirmed DEF AckInv
\* a task that ends or goes on to release the queue, rows unchanged
<1>4. ASSUME NEW t \in Tasks, Idle(t) \/ GotoRelease(t), RunAcked(run', rows', acked'),
             \A e \in 1..MaxEvents : RowAcked(rows'[e], acked')
      PROVE  AckInv'
  <2> DEFINE k == [IdleTask EXCEPT !.pc = "release", !.run = task[t].run]
  <2>1. k.row = Absent /\ k.run = task[t].run
    BY DEF IdleTask
  <2>2. task' = [task EXCEPT ![t] = k] \/ task' = [task EXCEPT ![t] = IdleTask]
    BY <1>4 DEF Idle, GotoRelease
  <2> HIDE DEF k
  <2>3. RowAcked(k.row, acked') /\ RunAcked(k.run, rows', acked')
    BY <1>3, <2>1, BlankAcked
  <2>4. RowAcked(IdleTask.row, acked') /\ RunAcked(IdleTask.run, rows', acked')
    BY BlankAcked
  <2> QED
    BY <1>1, <1>2, <1>4, <2>2, <2>3, <2>4, AckMove
<1>5. ASSUME NEW t \in Tasks, ExecutorStep(t) PROVE AckInv'
  <2>1. ASSUME NEW s \in {"AGENT_SUCCEEDED", "SUCCEEDED", "FAILED"}, NEW w \in {t, NoWorker},
               RecordOutcome(t, s, w)
        PROVE  AckInv'
    <3> DEFINE k == [IdleTask EXCEPT !.pc = "prepare", !.run = run']
    <3>1. run'.callback = run.callback
      BY <1>0, <2>1 DEF RecordOutcome, Runs
    <3>2. RunAcked(run', rows', acked')
      BY <1>3, <3>1 DEF RunAcked
    <3>3. k.row = Absent /\ k.run = run'
      BY DEF IdleTask
    <3>4. task' = [task EXCEPT ![t] = k] /\ rows' = rows
      BY <2>1 DEF RecordOutcome
    <3> HIDE DEF k
    <3>5. RowAcked(k.row, acked') /\ RunAcked(k.run, rows', acked')
      BY <3>2, <3>3, BlankAcked
    <3> QED
      BY <1>1, <1>2, <1>3, <3>2, <3>4, <3>5, AckMove
  <2>2. CASE SkipCallback(t)
    <3>1. run' = run \/ run'.callback = "SKIPPED"
      BY <1>0, <2>2 DEF SkipCallback, Runs
    <3>2. RunAcked(run', rows', acked')
      BY <1>3, <3>1 DEF RunAcked
    <3> QED
      BY <1>3, <1>4, <2>2, <3>2 DEF SkipCallback
  <2>3. CASE PrepareForRun(t)
    <3>1. PICK e \in 1..MaxEvents :
            task' = [task EXCEPT ![t] =
                 [@ EXCEPT !.pc = "save", !.event = e,
                    !.row = IF rows[e].status # "ABSENT" THEN [rows[e] EXCEPT !.lease = NoLease]
                            ELSE [status |-> "PENDING", attempts |-> 0, lease |-> NoLease,
                                  payload |-> task[t].run.outcome]]]
      BY <2>3 DEF PrepareForRun
    <3> DEFINE row == IF rows[e].status # "ABSENT" THEN [rows[e] EXCEPT !.lease = NoLease]
                      ELSE [status |-> "PENDING", attempts |-> 0, lease |-> NoLease,
                            payload |-> task[t].run.outcome]
               k == [task[t] EXCEPT !.pc = "save", !.event = e, !.row = row]
    <3>2. RowAcked(row, acked')
      <4>1. [rows[e] EXCEPT !.lease = NoLease].status = rows[e].status
            /\ [rows[e] EXCEPT !.lease = NoLease].payload = rows[e].payload
        BY <1>0 DEF Deliveries
      <4> QED
        BY <1>3, <4>1 DEF RowAcked
    <3>3. task' = [task EXCEPT ![t] = k] /\ rows' = rows /\ run' = run
      BY <1>0, <2>3, <3>1 DEF PrepareForRun
    <3> HIDE DEF row
    <3>4. k.row = row /\ k.run = task[t].run
      BY <1>0 DEF TaskStates
    <3> HIDE DEF k
    <3>5. RowAcked(k.row, acked') /\ RunAcked(k.run, rows', acked')
      BY <1>3, <3>2, <3>4
    <3> QED
      BY <1>1, <1>2, <1>3, <3>3, <3>5, AckMove
  <2>4. CASE SavePrepared(t)
    <3>1. run' = run \/ run'.callback = "PENDING"
      BY <1>0, <2>4 DEF SavePrepared, Runs
    <3>2. RunAcked(run', rows', acked')
      BY <1>3, <3>1 DEF RunAcked
    <3>3. \A e \in 1..MaxEvents : RowAcked(rows'[e], acked')
      <4>1. \A e \in 1..MaxEvents : rows'[e] = rows[e] \/ rows'[e] = task[t].row
        BY <1>0, <2>4 DEF SavePrepared
      <4> QED
        BY <1>3, <4>1
    <3>4. CASE GotoDispatch(t, task[t].event, task[t].row)
      <4> DEFINE k == [IdleTask EXCEPT !.pc = "dispatch", !.event = task[t].event,
                                       !.row = task[t].row]
      <4>1. k.row = task[t].row /\ k.run = NewRun
        BY DEF IdleTask
      <4>2. task' = [task EXCEPT ![t] = k]
        BY <3>4 DEF GotoDispatch
      <4> HIDE DEF k
      <4>3. RowAcked(k.row, acked') /\ RunAcked(k.run, rows', acked')
        BY <1>3, <4>1, BlankAcked
      <4> QED
        BY <1>1, <1>2, <3>2, <3>3, <4>2, <4>3, AckMove
    <3> QED
      BY <1>4, <2>4, <3>2, <3>3, <3>4 DEF SavePrepared
  <2>5. CASE ReleaseQueue(t)
    <3>1. run'.callback = run.callback
      BY <1>0, <2>5 DEF ReleaseQueue, Runs
    <3>2. RunAcked(run', rows', acked')
      BY <1>3, <3>1 DEF RunAcked
    <3> QED
      BY <1>3, <1>4, <2>5, <3>2 DEF ReleaseQueue
  <2> QED
    BY <1>5, <2>1, <2>2, <2>3, <2>4, <2>5 DEF ExecutorStep
<1>6. ASSUME NEW t \in Tasks, DispatcherStep(t) PROVE AckInv'
  <2>1. ASSUME NEW k, task' = [task EXCEPT ![t] = k], RunAcked(run', rows', acked'),
               \A e \in 1..MaxEvents : RowAcked(rows'[e], acked'),
               RowAcked(k.row, acked'), RunAcked(k.run, rows', acked')
        PROVE  AckInv'
    BY <1>1, <1>2, <2>1, AckMove
  <2>2. CASE DispatchDelivery(t)
    <3> DEFINE row == Counted(task[t].row)
               k1 == [task[t] EXCEPT !.pc = "sent", !.run = run, !.row = row]
               k2 == [task[t] EXCEPT !.pc = "exhausted", !.run = run]
    <3>1. row.status = task[t].row.status /\ row.payload = task[t].row.payload
      BY <1>0 DEF Counted, Deliveries
    <3>2. task' = [task EXCEPT ![t] = k1] \/ task' = [task EXCEPT ![t] = k2]
      BY <1>0, <2>2 DEF DispatchDelivery
    <3> HIDE DEF row
    <3>3. /\ k1.run = run /\ k1.row = row /\ k2.run = run /\ k2.row = task[t].row
      BY <1>0 DEF TaskStates
    <3>4. RowAcked(row, acked') /\ RowAcked(task[t].row, acked')
      BY <1>3, <3>1 DEF RowAcked
    <3>5. rows' = rows /\ run' = run
      BY <2>2 DEF DispatchDelivery
    <3> HIDE DEF k1, k2
    <3> QED
      BY <1>3, <2>1, <3>2, <3>3, <3>4, <3>5
  <2>3. CASE Acknowledged(t)
    <3> DEFINE d == DeliveredRow(t)
               k == [task[t] EXCEPT !.pc = "told", !.row = d, !.run = DeliveredRun(t)]
    <3>1. d.status = "DELIVERED" /\ d.payload = task[t].row.payload
      BY ToldCopies
    <3>2. rows' = [rows EXCEPT ![task[t].event] = d] /\ acked' = acked \cup {task[t].row.payload}
      BY <2>3 DEF Acknowledged
    <3>3. task[t].event \in 1..MaxEvents
      BY <1>0, <2>3 DEF Acknowledged, Fit, Dispatching, SavedIn
    <3> HIDE DEF d
    <3>4. RowAcked(d, acked') /\ \A e \in 1..MaxEvents : RowAcked(rows'[e], acked')
      BY <1>0, <1>3, <3>1, <3>2 DEF RowAcked
    <3>5. Confirmed(rows', acked')
      BY <1>0, <3>1, <3>2, <3>3 DEF Confirmed, SavedIn
    <3>6. \A r : RunAcked(r, rows', acked')
      BY <3>5 DEF RunAcked
    <3>7. task' = [task EXCEPT ![t] = k]
      BY <2>3 DEF Acknowledged, d
    <3>8. k.row = d
      BY <1>0 DEF TaskStates
    <3> HIDE DEF k
    <3> QED
      BY <2>1, <3>4, <3>6, <3>7, <3>8
  <2>4. CASE AttemptFails(t)
    <3> DEFINE pc == IF task[t].row.attempts < MaxAttempts THEN "sleep" ELSE "exhausted"
               d == [task[t].row EXCEPT !.status = "FAILED"]
               k == [task[t] EXCEPT !.pc = pc, !.row = d]
    <3>1. d.status = "FAILED"
      BY <1>0 DEF Deliveries
    <3>2. /\ rows' = [rows EXCEPT ![task[t].event] = d] /\ task' = [task EXCEPT ![t] = k]
          /\ run' = run
      BY <1>0, <2>4 DEF AttemptFails
    <3> HIDE DEF d, pc
    <3>3. k.row = d /\ k.run = task[t].run
      BY <1>0 DEF TaskStates
    <3> HIDE DEF k
    <3>4. RowAcked(d, acked')
      BY <3>1 DEF RowAcked
    <3>5. \A e \in 1..MaxEvents : RowAcked(rows'[e], acked')
      BY <1>0, <1>3, <3>2, <3>4
    <3> QED
      BY <1>3, <2>1, <3>2, <3>3, <3>4, <3>5
  <2>5. CASE PostAgain(t)
    <3> DEFINE row == Counted(task[t].row)
               k == [task[t] EXCEPT !.pc = "sent", !.row = row]
    <3>1. row.status = task[t].row.status /\ row.payload = task[t].row.payload
      BY <1>0 DEF Counted, Deliveries
    <3>2. task' = [task EXCEPT ![t] = k] /\ rows' = rows /\ run' = run
      BY <1>0, <2>5 DEF PostAgain
    <3> HIDE DEF row
    <3>3. k.row = row /\ k.run = task[t].run
      BY <1>0 DEF TaskStates
    <3> HIDE DEF k
    <3>4. RowAcked(row, acked')
      BY <1>3, <3>1 DEF RowAcked
    <3> QED
      BY <1>3, <2>1, <3>2, <3>3, <3>4
  <2>6. CASE ExhaustRun(t)
    <3> DEFINE k == [task[t] EXCEPT !.pc = "settle", !.run = NewRun]
    <3>1. task' = [task EXCEPT ![t] = k] /\ rows' = rows
      BY <2>6 DEF ExhaustRun
    <3>2. k.row = task[t].row /\ k.run = NewRun
      BY <1>0 DEF TaskStates
    <3>3. run' = run \/ run'.callback = "FAILED"
      BY <1>0, <2>6 DEF ExhaustRun, Runs
    <3>4. RunAcked(run', rows', acked')
      BY <1>3, <3>3 DEF RunAcked
    <3> HIDE DEF k
    <3> QED
      BY <1>3, <2>1, <3>1, <3>2, <3>4, BlankAcked
  <2>7. CASE ReleaseDelivery(t)
    <3> DEFINE d == [task[t].row EXCEPT !.lease = NoLease]
    <3>1. d.status = task[t].row.status /\ d.payload = task[t].row.payload
      BY <1>0 DEF Deliveries
    <3>2. rows' = [rows EXCEPT ![task[t].event] = d]
      BY <2>7 DEF ReleaseDelivery
    <3> HIDE DEF d
    <3>3. RowAcked(d, acked')
      BY <1>3, <3>1 DEF RowAcked
    <3>4. \A e \in 1..MaxEvents : RowAcked(rows'[e], acked')
      BY <1>0, <1>3, <3>2, <3>3
    <3> QED
      BY <1>3, <1>4, <2>7, <3>4 DEF ReleaseDelivery
  <2>8. CASE Delivered(t)
    BY <1>3, <1>4, <2>8 DEF Delivered
  <2> QED
    BY <1>6, <2>2, <2>3, <2>4, <2>5, <2>6, <2>7, <2>8 DEF DispatcherStep
<1>7. ASSUME NEW t \in Tasks, Resend(t) PROVE AckInv'
  <2>1. \A e \in 1..MaxEvents : RowAcked(rows'[e], acked')
    <3>1. \A e \in 1..MaxEvents : rows'[e] = rows[e] \/ rows'[e].status = "PENDING"
      BY <1>0, <1>7 DEF Resend, Deliveries
    <3> QED
      BY <1>3, <3>1 DEF RowAcked
  <2> DEFINE k == [IdleTask EXCEPT !.pc = "prepare", !.resend = TRUE, !.run = run]
  <2>2. k.row = Absent /\ k.run = run
    BY DEF IdleTask
  <2>3. task' = [task EXCEPT ![t] = k] /\ run' = run
    BY <1>7 DEF Resend
  <2> HIDE DEF k
  <2> QED
    BY <1>1, <1>2, <1>3, <2>1, <2>2, <2>3, BlankAcked, AckMove
<1>8. ASSUME NEW t \in Tasks, Lose(t) PROVE AckInv'
  BY <1>3, <1>4, <1>8 DEF Lose
<1>9. ASSUME NEW t \in Tasks, NEW e \in 1..MaxEvents, ClaimPending(t, e) PROVE AckInv'
  <2> DEFINE d == [rows[e] EXCEPT !.lease = LeaseTicks]
             k == [IdleTask EXCEPT !.pc = "dispatch", !.event = e, !.row = d]
  <2>1. d.status = rows[e].status /\ d.payload = rows[e].payload
    BY <1>0 DEF Deliveries
  <2>2. rows' = [rows EXCEPT ![e] = d] /\ task' = [task EXCEPT ![t] = k] /\ run' = run
    BY <1>9 DEF ClaimPending, GotoDispatch
  <2> HIDE DEF d
  <2>3. k.row = d /\ k.run = NewRun
    BY DEF IdleTask
  <2> HIDE DEF k
  <2>4. RowAcked(d, acked')
    BY <1>3, <2>1 DEF RowAcked
  <2>5. \A f \in 1..MaxEvents : RowAcked(rows'[f], acked')
    BY <1>0, <1>3, <2>2, <2>4
  <2> QED
    BY <1>1, <1>2, <1>3, <2>2, <2>3, <2>4, <2>5, BlankAcked, AckMove
<1>10. CASE Retry \/ Cancel
  <2>1. run'.callback = run.callback /\ rows' = rows /\ task' = task
    BY <1>0, <1>10 DEF Retry, Cancel, Runs
  <2> QED
    BY <1>3, <2>1 DEF AckInv, RunAcked
<1>11. CASE Tick
  <2>1. \A d \in Deliveries : Aged(d).status = d.status /\ Aged(d).payload = d.payload
    BY DEF Aged, Deliveries
  <2>2. \A e \in 1..MaxEvents : RowAcked(rows'[e], acked')
    <3>1. \A e \in 1..MaxEvents : /\ rows'[e].status = rows[e].status
                                  /\ rows'[e].payload = rows[e].payload
      BY <1>0, <1>11, <2>1 DEF Tick
    <3> QED
      BY <1>3, <3>1 DEF RowAcked
  <2>3. \A t \in Tasks : RowAcked(task'[t].row, acked') /\ RunAcked(task'[t].run, rows', acked')
    <3> SUFFICES ASSUME NEW t \in Tasks
                 PROVE  RowAcked(task'[t].row, acked') /\ RunAcked(task'[t].run, rows', acked')
      OBVIOUS
    <3> DEFINE row == Aged(task[t].row)
    <3>1. row.status = task[t].row.status /\ row.payload = task[t].row.payload
      BY <1>0, <2>1
    <3>2. task'[t] = [task[t] EXCEPT !.row = row]
      BY <1>11 DEF Tick
    <3> HIDE DEF row
    <3>3. task'[t].row = row /\ task'[t].run = task[t].run
      BY <1>0, <3>2 DEF TaskStates
    <3> QED
      BY <1>3, <3>1, <3>3 DEF RowAcked
  <2> QED
    BY <1>3, <1>11, <2>2, <2>3 DEF AckInv, Tick
<1>12. CASE UNCHANGED vars
  BY <1>12 DEF vars, AckInv
<1> QED
  BY <1>5, <1>6, <1>7, <1>8, <1>9, <1>10, <1>11, <1>12 DEF Next

\* Initially nothing is delivered.
LEMMA AckInit == Init => AckInv
BY DEF Init, AckInv, RowAcked, RunAcked, Absent, NewRun, IdleTask

\* A delivery or a run is on record as DELIVERED only if the consumer confirmed
\* the payload, for any number of dispatchers, resends, retries and losses.
THEOREM DeliveredAcknowledged == Spec => []DeliveredWasAcknowledged
<1>1. AckInv => DeliveredWasAcknowledged
  BY DEF AckInv, RowAcked, RunAcked, Confirmed, DeliveredWasAcknowledged
<1>2. Spec => []AckInv
  BY TypeInvHolds, FrozenInvHolds, AckInit, AckStep, PTL DEF Spec
<1> QED
  BY <1>1, <1>2, PTL

(***************************************************************************)
(* A run that its delivery settled stays settled.  Until an operator       *)
(* retries or resends, one task prepares one delivery, and before that     *)
(* there is none (PrepareInv); whoever writes the run's row later is a     *)
(* dispatcher, whose copy is written only under the status it has, or the  *)
(* end of the execution, which leaves the status alone.                    *)
(***************************************************************************)
Preparing == {"prepare", "save"}

NoDelivery == run.event = NoEvent /\ \A e \in 1..MaxEvents : rows[e].status = "ABSENT"

PrepareInv ==
    /\ \A t \in Tasks : task[t].pc \in Preparing => NoDelivery
    /\ \A t, u \in Tasks : task[t].pc \in Preparing /\ task[u].pc \in Preparing => t = u
    /\ run.status = "QUEUED" => NoDelivery /\ \A t \in Tasks : task[t].pc = "idle"

\* what the step may not do to a settled run
StatusKept ==
    \/ run.status = "CANCELED"
    \/ run.status = "SUCCEEDED" /\ run.event # NoEvent
    => run'.status = run.status

\* While a delivery is prepared, or the run is queued, nobody dispatches.
LEMMA NobodyDispatches ==
    ASSUME FrozenInv, NoDelivery, NEW t \in Tasks
    PROVE  task[t].pc \notin Dispatching
BY DEF FrozenInv, Fit, SavedIn, NoDelivery

\* A step of task t, which moves no other task.
Moves(t) == \A u \in Tasks : u # t => task'[u] = task[u]

\* A task other than the preparing one moves, or that one goes on or stops preparing,
\* and the run and the rows are as before, where that matters.
LEMMA PrepareAside ==
    ASSUME PrepareInv, NEW t \in Tasks, Moves(t), run.status # "QUEUED", run'.status # "QUEUED",
           task'[t].pc \in Preparing => task[t].pc \in Preparing,
           (task[t].pc \notin Preparing \/ task'[t].pc \in Preparing) /\ NoDelivery => NoDelivery'
    PROVE  PrepareInv'
<1>1. ASSUME NEW u \in Tasks, task'[u].pc \in Preparing PROVE NoDelivery'
  <2>1. task[u].pc \in Preparing
    BY <1>1 DEF Moves
  <2>2. NoDelivery
    BY <2>1 DEF PrepareInv
  <2>3. task[t].pc \notin Preparing \/ task'[t].pc \in Preparing
    BY <1>1, <2>1 DEF PrepareInv
  <2> QED
    BY <2>2, <2>3
<1>2. \A u, v \in Tasks : task'[u].pc \in Preparing /\ task'[v].pc \in Preparing => u = v
  BY DEF PrepareInv, Moves
<1> QED
  BY <1>1, <1>2 DEF PrepareInv

\* Every step of the tasks, lost processes, time and the operator's cancel keeps the
\* invariant and the status of a settled run.
LEMMA PrepareStep ==
    ASSUME Requests \subseteq {"cancel"}, TypeInv, FrozenInv, PrepareInv, [Next]_vars
    PROVE  PrepareInv' /\ StatusKept
<1>0. /\ run \in Runs /\ rows \in [1..MaxEvents -> Deliveries] /\ DOMAIN task = Tasks
      /\ \A t \in Tasks : /\ task[t] \in TaskStates /\ task[t].run \in Runs
                          /\ task[t].row \in Deliveries
  BY DEF TypeInv, TypeOK, TaskStates
<1>1. \A t \in Tasks : task[t].pc # "idle" => run.status # "QUEUED"
  BY DEF PrepareInv
<1>2. /\ \A r \in Runs : r.status # "QUEUED" => SettledStatus(r) # "QUEUED"
      /\ \A r \in Runs : r.status \in {"CANCELED", "SUCCEEDED"} => SettledStatus(r) = r.status
  BY DEF SettledStatus
<1>3. ASSUME NEW t \in Tasks, Moves(t), task'[t].pc \notin Preparing,
             task[t].pc # "idle", run'.status # "QUEUED",
             task[t].pc \notin Preparing /\ NoDelivery => NoDelivery'
      PROVE  PrepareInv'
  BY <1>1, <1>3, PrepareAside
<1>4. ASSUME NEW t \in Tasks, NEW s \in {"AGENT_SUCCEEDED", "SUCCEEDED", "FAILED"}, NEW w,
             RecordOutcome(t, s, w)
      PROVE  PrepareInv' /\ StatusKept
  <2> DEFINE k == [IdleTask EXCEPT !.pc = "prepare", !.run = run']
  <2>1. run.status = "QUEUED" /\ run'.status # "QUEUED" /\ run'.event = run.event /\ rows' = rows
    BY <1>0, <1>4 DEF RecordOutcome, Runs
  <2>2. task' = [task EXCEPT ![t] = k] /\ k.pc = "prepare"
    BY <1>4 DEF RecordOutcome, IdleTask
  <2> HIDE DEF k
  <2>3. \A u \in Tasks : task[u].pc = "idle" /\ task'[u] = IF u = t THEN k ELSE task[u]
    BY <1>0, <2>1, <2>2 DEF PrepareInv
  <2>4. NoDelivery'
    BY <2>1 DEF PrepareInv, NoDelivery
  <2> QED
    BY <2>1, <2>2, <2>3, <2>4 DEF PrepareInv, Preparing, StatusKept
\* the states that tasks move to
<1>5. ASSUME NEW t \in Tasks
      PROVE  /\ Idle(t) => Moves(t) /\ task'[t].pc = "idle"
             /\ GotoRelease(t) => Moves(t) /\ task'[t].pc = "release"
             /\ \A e, row : GotoDispatch(t, e, row) => Moves(t) /\ task'[t].pc = "dispatch"
  <2>1. Idle(t) => Moves(t) /\ task'[t].pc = "idle"
    BY <1>0 DEF Idle, IdleTask, Moves
  <2>2. GotoRelease(t) => Moves(t) /\ task'[t].pc = "release"
    BY <1>0 DEF GotoRelease, IdleTask, Moves
  <2>3. ASSUME NEW e, NEW row, GotoDispatch(t, e, row)
        PROVE  Moves(t) /\ task'[t].pc = "dispatch"
    BY <1>0, <2>3 DEF GotoDispatch, IdleTask, Moves
  <2> QED
    BY <2>1, <2>2, <2>3
<1>6. "idle" \notin Preparing /\ "release" \notin Preparing /\ Preparing \cap Dispatching = {}
  BY DEF Preparing, Dispatching
<1>7. ASSUME NEW t \in Tasks, SkipCallback(t) PROVE PrepareInv' /\ StatusKept
  <2>1. task[t].pc = "prepare" /\ rows' = rows
    BY <1>7 DEF SkipCallback
  <2>2. run.status # "QUEUED"
    BY <1>1, <2>1
  <2>3. CASE Current(t)
    <3>1. run'.status = SettledStatus(task[t].run) /\ task[t].run.status = run.status
      BY <1>0, <1>7, <2>3 DEF SkipCallback, Current, Runs
    <3>2. run'.status # "QUEUED" /\ StatusKept
      BY <1>0, <1>2, <2>2, <3>1 DEF StatusKept
    <3> QED
      BY <1>3, <1>5, <1>6, <1>7, <2>1, <3>2 DEF SkipCallback, Preparing
  <2>4. CASE ~Current(t)
    <3>1. run' = run
      BY <1>7, <2>4 DEF SkipCallback
    <3> QED
      BY <1>3, <1>5, <1>6, <1>7, <2>1, <2>2, <3>1 DEF SkipCallback, Preparing, StatusKept
  <2> QED
    BY <2>3, <2>4
<1>8. ASSUME NEW t \in Tasks, PrepareForRun(t) PROVE PrepareInv' /\ StatusKept
  <2>1. /\ task[t].pc = "prepare" /\ run' = run /\ rows' = rows
        /\ Moves(t) /\ task'[t].pc = "save"
    BY <1>0, <1>8 DEF PrepareForRun, TaskStates, Moves
  <2>2. run.status # "QUEUED" /\ (NoDelivery => NoDelivery')
    BY <1>1, <2>1 DEF NoDelivery
  <2> QED
    BY <2>1, <2>2, PrepareAside DEF Preparing, StatusKept
<1>9. ASSUME NEW t \in Tasks, SavePrepared(t) PROVE PrepareInv' /\ StatusKept
  <2>1. task[t].pc = "save" /\ run.status # "QUEUED" /\ run.event = NoEvent
    BY <1>1, <1>9 DEF SavePrepared, PrepareInv, NoDelivery, Preparing
  <2>2. run'.status # "QUEUED" /\ (run.status = "CANCELED" => run'.status = "CANCELED")
    BY <1>0, <1>9, <2>1 DEF SavePrepared, Current, Runs
  <2>3. Moves(t) /\ task'[t].pc \notin Preparing
    BY <1>5, <1>6, <1>9 DEF SavePrepared, Preparing
  <2> QED
    BY <1>3, <2>1, <2>2, <2>3 DEF StatusKept, Preparing
<1>10. ASSUME NEW t \in Tasks, ReleaseQueue(t) PROVE PrepareInv' /\ StatusKept
  <2>1. /\ task[t].pc = "release" /\ rows' = rows
        /\ run'.status = run.status /\ run'.event = run.event
    BY <1>0, <1>10 DEF ReleaseQueue, Runs
  <2>2. Moves(t) /\ task'[t].pc = "idle"
    BY <1>5, <1>10 DEF ReleaseQueue
  <2>3. run'.status # "QUEUED" /\ (NoDelivery => NoDelivery')
    BY <1>1, <2>1 DEF NoDelivery
  <2> QED
    BY <1>3, <1>6, <2>1, <2>2, <2>3 DEF StatusKept
<1>11. ASSUME NEW t \in Tasks, DispatcherStep(t) PROVE PrepareInv' /\ StatusKept
  <2>1. task[t].pc \in Dispatching
    BY <1>11 DEF DispatcherStep, DispatchDelivery, Acknowledged, Delivered, AttemptFails,
                 PostAgain, ExhaustRun, ReleaseDelivery, Dispatching
  <2>2. ~NoDelivery /\ task[t].pc # "idle" /\ run.status # "QUEUED"
    BY <1>1, <2>1, NobodyDispatches DEF Dispatching
  <2>3. Moves(t) /\ task'[t].pc \notin Preparing
    <3>1. CASE DispatchDelivery(t) \/ Acknowledged(t) \/ AttemptFails(t) \/ PostAgain(t) \/ ExhaustRun(t)
      <4>1. task'[t].pc \in Dispatching /\ Moves(t)
        <5>1. CASE DispatchDelivery(t)
          BY <1>0, <5>1 DEF DispatchDelivery, Dispatching, Moves, TaskStates
        <5>2. CASE Acknowledged(t)
          BY <1>0, <5>2 DEF Acknowledged, Dispatching, Moves, TaskStates
        <5>3. CASE AttemptFails(t)
          BY <1>0, <5>3 DEF AttemptFails, Dispatching, Moves, TaskStates
        <5>4. CASE PostAgain(t)
          BY <1>0, <5>4 DEF PostAgain, Dispatching, Moves, TaskStates
        <5>5. CASE ExhaustRun(t)
          BY <1>0, <5>5 DEF ExhaustRun, Dispatching, Moves, TaskStates
        <5> QED
          BY <3>1, <5>1, <5>2, <5>3, <5>4, <5>5
      <4> QED
        BY <1>6, <4>1
    <3>2. CASE Delivered(t) \/ ReleaseDelivery(t)
      BY <1>5, <1>6, <3>2 DEF Delivered, ReleaseDelivery
    <3> QED
      BY <1>11, <3>1, <3>2 DEF DispatcherStep
  <2>4. \/ run'.status = run.status
        \/ run'.status = SettledStatus(task[t].run) /\ run.status = task[t].run.status
    <3>1. CASE Acknowledged(t)
      BY <3>1, ToldCopies DEF Acknowledged
    <3>2. CASE ExhaustRun(t)
      BY <1>0, <3>2 DEF ExhaustRun, Runs
    <3>3. CASE DispatchDelivery(t) \/ Delivered(t) \/ AttemptFails(t) \/ PostAgain(t) \/ ReleaseDelivery(t)
      BY <3>3 DEF DispatchDelivery, Delivered, AttemptFails, PostAgain, ReleaseDelivery
    <3> QED
      BY <1>11, <3>1, <3>2, <3>3 DEF DispatcherStep
  <2>5. run'.status # "QUEUED" /\ StatusKept
    BY <1>0, <1>2, <2>2, <2>4 DEF StatusKept
  <2> QED
    BY <1>3, <2>2, <2>3, <2>5
<1>12. ASSUME NEW t \in Tasks, NEW e \in 1..MaxEvents, ClaimPending(t, e)
       PROVE  PrepareInv' /\ StatusKept
  <2>1. run' = run /\ ~NoDelivery /\ Moves(t) /\ task'[t].pc = "dispatch"
    BY <1>5, <1>12 DEF ClaimPending, NoDelivery
  <2>2. run.status # "QUEUED"
    BY <2>1 DEF PrepareInv
  <2> QED
    BY <2>1, <2>2, PrepareAside DEF Preparing, StatusKept
<1>13. ASSUME NEW t \in Tasks, Lose(t) PROVE PrepareInv' /\ StatusKept
  <2>1. /\ task[t].pc # "idle" /\ run' = run /\ rows' = rows
        /\ Moves(t) /\ task'[t].pc = "idle"
    BY <1>5, <1>13 DEF Lose
  <2>2. run.status # "QUEUED" /\ (NoDelivery => NoDelivery')
    BY <1>1, <2>1 DEF NoDelivery
  <2> QED
    BY <1>3, <1>6, <2>1, <2>2 DEF StatusKept
<1>14. CASE Cancel
  <2>1. /\ run'.status = "CANCELED" /\ run'.event = run.event /\ rows' = rows /\ task' = task
        /\ run.status \notin {"CANCELED", "SUCCEEDED"}
    BY <1>0, <1>14 DEF Cancel, Runs
  <2>2. NoDelivery => NoDelivery'
    BY <2>1 DEF NoDelivery
  <2> QED
    BY <2>1, <2>2 DEF PrepareInv, StatusKept
<1>15. CASE Tick
  <2>1. run' = run /\ \A t \in Tasks : task'[t].pc = task[t].pc
    BY <1>0, <1>15 DEF Tick, TaskStates
  <2>2. \A e \in 1..MaxEvents : rows'[e].status = rows[e].status
    BY <1>0, <1>15 DEF Tick, Aged, Deliveries
  <2>3. NoDelivery => NoDelivery'
    BY <2>1, <2>2 DEF NoDelivery
  <2> QED
    BY <2>1, <2>3 DEF PrepareInv, StatusKept
<1>16. CASE UNCHANGED vars
  BY <1>16 DEF vars, PrepareInv, NoDelivery, StatusKept
<1>17. ~Retry /\ \A t \in Tasks : ~Resend(t)
  BY DEF Retry, Resend
<1> QED
  BY <1>4, <1>7, <1>8, <1>9, <1>10, <1>11, <1>12, <1>13, <1>14, <1>15, <1>16, <1>17
     DEF Next, ExecutorStep

\* Initially no task does anything and nothing is saved.
LEMMA PrepareInit == Init => PrepareInv
<1>1. IdleTask.pc = "idle" /\ Absent.status = "ABSENT" /\ NewRun.event = NoEvent
  BY DEF IdleTask, Absent, NewRun
<1> QED
  BY <1>1 DEF Init, PrepareInv, NoDelivery, Preparing

\* Where the operator neither retries the run nor resends the callback, a run that its
\* delivery settled, and a canceled one, keep their status for ever, however many
\* dispatchers lose their leases, overlap, are lost, or fail behind an acknowledgement.
THEOREM SettledByDelivery ==
    ASSUME Requests \subseteq {"cancel"}
    PROVE  Spec => SettledStays
<1>1. TypeInv /\ FrozenInv /\ PrepareInv /\ [Next]_vars => PrepareInv' /\ StatusKept
  BY PrepareStep
<1>2. Init => PrepareInv
  BY PrepareInit
<1>3. StatusKept => [\/ run.status = "CANCELED"
                     \/ run.status = "SUCCEEDED" /\ run.event # NoEvent
                     => run'.status = run.status]_vars
  BY DEF StatusKept
<1> QED
  BY <1>1, <1>2, <1>3, TypeInvHolds, FrozenInvHolds, PTL DEF Spec, SettledStays
=============================================================================
