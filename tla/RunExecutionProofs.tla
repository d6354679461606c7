-------------------------- MODULE RunExecutionProofs -------------------------
(***************************************************************************)
(* Theorems about RunExecution, for every deployment (any sets of serve    *)
(* and worker processes), every attempt budget and every lease length.     *)
(***************************************************************************)
EXTENDS RunExecution, TLAPS

(***************************************************************************)
(* Type correctness.                                                       *)
(***************************************************************************)

\* The blank values of the model are well typed.
LEMMA BlankTypes ==
    /\ QueuedRow \in Rows
    /\ IdleTask \in Tasks
    /\ StartTask \in Tasks
<1>1. QueuedRow \in Rows
  BY BoundAssumption DEF QueuedRow, Rows, RunStatuses, Leases, NoLease, NoError
<1>2. IdleTask \in Tasks
  BY <1>1, BoundAssumption DEF IdleTask, Tasks, PCs, RunStatuses
<1>3. StartTask \in Tasks
  BY <1>2 DEF StartTask, IdleTask, Tasks, PCs
<1> QED
  BY <1>1, <1>2, <1>3

\* Every status and error the actions write is a member of its enumeration.
LEMMA Members ==
    /\ {"QUEUED", "RUNNING", "WAITING_TOOL", "RETRYING", "AGENT_SUCCEEDED",
        "SUCCEEDED", "FAILED", "CANCELED"} \subseteq RunStatuses
    /\ "TRANSIENT" \in ErrorTypes
    /\ PCs = PCs \cup {"idle", "start", "admit", "begin", "commit", "agent", "backoff",
                       "prepare", "final", "release"}
    /\ NoLease \in Leases /\ LeaseTicks \in Leases
BY BoundAssumption DEF RunStatuses, ErrorTypes, PCs, Leases

\* Un-counting an attempt stays within the attempts column's range and leaves
\* an attempt to run.
LEMMA UncountedBound ==
    ASSUME NEW r \in Rows
    PROVE  /\ Uncounted(r) \in 0..MaxAttempts
           /\ Uncounted(r) < MaxAttempts
BY BoundAssumption DEF Uncounted, Rows

\* A lease that ages is a lease, and no lease comes or goes by ageing.
LEMMA ElapseType ==
    ASSUME NEW l \in Leases
    PROVE  /\ Elapse(l) \in Leases
           /\ Elapse(l) = NoLease <=> l = NoLease
BY BoundAssumption DEF Elapse, Leases, NoLease

\* A task that goes on to a next attempt within the budget is well typed.
LEMMA NextAttemptType ==
    ASSUME NEW t \in Tasks, NEW n \in 0..MaxAttempts
    PROVE  [t EXCEPT !.pc = "begin", !.n = n] \in Tasks
BY Members DEF Tasks

\* Moving one task keeps every task well typed.
LEMMA TaskMoves ==
    ASSUME TypeOK, NEW p \in Procs, NEW pc \in PCs, NEW snap \in Rows
    PROVE  /\ Goto(p, pc) => task' \in [Procs -> Tasks]
           /\ GotoWith(p, pc, snap) => task' \in [Procs -> Tasks]
           /\ Finish(p) => task' \in [Procs -> Tasks]
<1>1. task \in [Procs -> Tasks] /\ task[p] \in Tasks
  BY DEF TypeOK
<1>2. [task[p] EXCEPT !.pc = pc, !.snap = QueuedRow] \in Tasks
  BY <1>1, BlankTypes DEF Tasks
<1>3. [task[p] EXCEPT !.pc = pc, !.snap = snap, !.seen = "QUEUED"] \in Tasks
  BY <1>1, Members DEF Tasks
<1>4. Goto(p, pc) => task' \in [Procs -> Tasks]
  BY <1>1, <1>2 DEF Goto
<1>5. GotoWith(p, pc, snap) => task' \in [Procs -> Tasks]
  BY <1>1, <1>3 DEF GotoWith
<1>6. Finish(p) => task' \in [Procs -> Tasks]
  BY <1>1, BlankTypes DEF Finish
<1> QED
  BY <1>4, <1>5, <1>6

\* A task sleeps between attempts only if there is a next attempt.
BackoffBudget == \A p \in Procs : task[p].pc = "backoff" => task[p].n < MaxAttempts

\* Every step of the system preserves the types.
LEMMA TypeStep == TypeOK /\ BackoffBudget /\ [Next]_vars => TypeOK'
<1> SUFFICES ASSUME TypeOK, BackoffBudget, [Next]_vars PROVE TypeOK'
  OBVIOUS
<1> USE DEF TypeOK
<1>1. ASSUME NEW w \in Workers, WorkerStep(w) PROVE TypeOK'
  <2>0. w \in Procs
    BY DEF Procs
  <2>1. CASE DispatchReady(w)
    <3>1. Uncounted(run) \in 0..MaxAttempts
      BY UncountedBound
    <3>2. run' \in Rows
      BY <2>1, <3>1, Members, BlankTypes DEF DispatchReady, Rows
    <3> QED
      BY <2>0, <2>1, <3>2, Members, BlankTypes DEF DispatchReady
  <2>2. CASE ReclaimExpiredLease(w)
    BY <2>2, UncountedBound, Members, BlankTypes DEF ReclaimExpiredLease, Rows
  <2>3. CASE RenewLease(w)
    BY <2>3, Members, BlankTypes DEF RenewLease, Rows
  <2>4. CASE RenewalStops(w)
    BY <2>0, <2>4, Members, BlankTypes DEF RenewalStops, Finish
  <2> QED
    BY <1>1, <2>1, <2>2, <2>3, <2>4 DEF WorkerStep
<1>2. ASSUME NEW p \in Procs, AgentStep(p) PROVE TypeOK'
  <2>1. CASE ToolCall(p)
    BY <2>1, Members, BlankTypes DEF ToolCall, Finish, Rows
  <2>2. CASE AgentStops(p)
    BY <2>2, Members, BlankTypes DEF AgentStops, Finish
  <2>3. CASE AgentSucceeds(p)
    <3>1. run' \in Rows
      <4>1. [run EXCEPT !.status = "AGENT_SUCCEEDED", !.error = NoError] \in Rows
        BY Members DEF Rows
      <4> QED
        BY <2>3, <4>1 DEF AgentSucceeds
    <3>2. task' \in [Procs -> Tasks]
      BY <2>3, <3>1, Members, TaskMoves DEF AgentSucceeds
    <3> QED
      BY <2>3, <3>1, <3>2 DEF AgentSucceeds
  <2>4. CASE AgentFails(p)
    <3>1. PICK c \in Classified(task[p].n) : AgentFails(p)!2!(c)
      BY <2>4 DEF AgentFails
    <3>2. c.status \in RunStatuses /\ c.error \in ErrorTypes
      BY DEF Classified, RunStatuses, ErrorTypes
    <3>3. [task[p].snap EXCEPT !.status = c.status, !.error = c.error] \in Rows
      BY <3>2 DEF Tasks, Rows
    <3> QED
      BY <2>4, <3>1, <3>3, Members, TaskMoves DEF AgentFails
  <2>5. CASE ErrorHandled(p)
    <3>1. run' \in Rows
      <4>1. task[p].snap \in Rows /\ run \in Rows
        BY DEF Tasks
      <4>2. [task[p].snap EXCEPT !.status = "SUCCEEDED", !.error = NoError] \in Rows
        BY <4>1, Members DEF Rows
      <4> QED
        BY <2>5, <4>1, <4>2 DEF ErrorHandled
    <3>2. task' \in [Procs -> Tasks]
      BY <2>5, Members, BlankTypes, TaskMoves DEF ErrorHandled
    <3> QED
      BY <2>5, <3>1, <3>2 DEF ErrorHandled
  <2> QED
    BY <1>2, <2>1, <2>2, <2>3, <2>4, <2>5 DEF AgentStep
<1>3. ASSUME NEW p \in Procs, ExecutorStep(p) PROVE TypeOK'
  <2>1. CASE RunNow(p)
    BY <2>1, Members, BlankTypes, TaskMoves DEF RunNow
  <2>2. CASE Execute(p)
    <3>1. run.attempts \in 0..MaxAttempts
      BY DEF Rows
    <3> QED
      <4>1. run.attempts < MaxAttempts
            => [task[p] EXCEPT !.pc = "begin", !.n = run.attempts + 1] \in Tasks
        <5>1. run.attempts < MaxAttempts => run.attempts + 1 \in 0..MaxAttempts
          BY <3>1, BoundAssumption
        <5> QED
          BY <5>1, NextAttemptType
      <4>2. [task[p] EXCEPT !.pc = "final", !.snap = run] \in Tasks
        BY Members DEF Tasks
      <4> QED
        BY <2>2, <4>1, <4>2 DEF Execute
  <2>3. CASE BeginAttempt(p)
    <3> DEFINE snap == [run EXCEPT !.status = IF task[p].n = 1 THEN "RUNNING" ELSE "RETRYING",
                                   !.attempts = task[p].n]
    <3>1. snap \in Rows /\ run.status \in RunStatuses
      BY DEF Tasks, Rows, RunStatuses
    <3>2. [task[p] EXCEPT !.pc = "commit", !.seen = run.status, !.snap = snap] \in Tasks
      BY <3>1, Members DEF Tasks
    <3> QED
      BY <2>3, <3>2, BlankTypes DEF BeginAttempt, Finish
  <2>4. CASE CommitAttempt(p)
    <3>1. task[p].snap \in Rows
      BY DEF Tasks
    <3> QED
      BY <2>4, <3>1, Members, TaskMoves DEF CommitAttempt
  <2>5. CASE PrepareCallback(p)
    <3>1. run' \in Rows
      BY <2>5, Members, BlankTypes DEF PrepareCallback, Tasks, Rows
    <3>2. task' \in [Procs -> Tasks]
      BY <2>5, Members, BlankTypes, TaskMoves DEF PrepareCallback
    <3> QED
      BY <2>5, <3>1, <3>2 DEF PrepareCallback
  <2>6. CASE BackoffOver(p)
    <3>1. task[p].n \in 0..MaxAttempts /\ task[p].n < MaxAttempts
      BY <2>6 DEF BackoffOver, BackoffBudget, At, Tasks
    <3>2. task[p].n + 1 \in 0..MaxAttempts
      BY <3>1, BoundAssumption
    <3>3. [task[p] EXCEPT !.pc = "begin", !.n = task[p].n + 1] \in Tasks
      BY <3>2, NextAttemptType
    <3> QED
      BY <2>6, <3>3 DEF BackoffOver
  <2>7. CASE FinalWrite(p)
    <3>1. task[p].snap \in Rows
      BY DEF Tasks
    <3> QED
      BY <2>7, <3>1, Members, TaskMoves DEF FinalWrite
  <2>8. CASE ReleaseQueue(p)
    BY <2>8, Members, BlankTypes DEF ReleaseQueue, Finish, Rows
  <2> QED
    BY <1>3, <2>1, <2>2, <2>3, <2>4, <2>5, <2>6, <2>7, <2>8 DEF ExecutorStep
<1>4. ASSUME NEW p \in Procs, InternalError(p) \/ SettleFails(p) PROVE TypeOK'
  <2>1. run' \in Rows
    <3>1. [run EXCEPT !.status = "FAILED", !.error = "TRANSIENT"] \in Rows
      BY Members DEF Rows
    <3> QED
      BY <1>4, <3>1 DEF InternalError, SettleFails
  <2> QED
    BY <1>4, <2>1, Members, BlankTypes DEF InternalError, SettleFails, Finish
<1>5. ASSUME NEW p \in Procs, ProcessStep(p) PROVE TypeOK'
  <2>1. CASE Crash(p)
    BY <2>1, BoundAssumption, BlankTypes DEF Crash, Exit
  <2>2. CASE Shutdown(p)
    <3> DEFINE registered == task[p].pc \in Registered
    <3>0. registered \in BOOLEAN
      OBVIOUS
    <3> HIDE DEF registered
    <3>1. [task[p] EXCEPT !.event = registered] \in Tasks
      BY <3>0 DEF Tasks
    <3> USE DEF registered
    <3> QED
      BY <2>2, <3>1, BoundAssumption DEF Shutdown
  <2>3. CASE ShutdownOver(p)
    BY <2>3, Members, BlankTypes DEF ShutdownOver, Exit
  <2>4. CASE Restart(p)
    <3>1. Uncounted(run) \in 0..MaxAttempts
      BY UncountedBound
    <3>2. run' \in Rows
      BY <2>4, <3>1, Members, BlankTypes DEF Restart, Rows
    <3> QED
      BY <2>4, <3>2, Members, BlankTypes DEF Restart
  <2> QED
    BY <1>5, <2>1, <2>2, <2>3, <2>4 DEF ProcessStep
<1>6. ASSUME NEW s \in Servers, OperatorStep(s) PROVE TypeOK'
  <2>0. s \in Procs
    BY DEF Procs
  <2>1. CASE Cancel(s)
    <3>1. run' \in Rows
      BY <2>1, Members, BlankTypes DEF Cancel, Rows
    <3>2. task' \in [Procs -> Tasks]
      BY <2>0, <2>1 DEF Cancel, Tasks
    <3> QED
      BY <2>1, <3>1, <3>2 DEF Cancel
  <2>2. CASE RetryRead(s)
    BY <2>2 DEF RetryRead
  <2>3. CASE RetryWrite(s)
    BY <2>0, <2>3, Members, BlankTypes DEF RetryWrite
  <2>4. CASE ResendCallback(s)
    BY <2>4, Members, BlankTypes DEF ResendCallback, Rows
  <2> QED
    BY <1>6, <2>1, <2>2, <2>3, <2>4 DEF OperatorStep
<1>7. CASE Tick
  <2>1. run' \in Rows
    BY <1>7, ElapseType DEF Tick, Rows
  <2>2. \A p \in Procs : [task[p] EXCEPT !.snap.lease = Elapse(@)] \in Tasks
    BY ElapseType DEF Tasks, Rows
  <2> QED
    BY <1>7, <2>1, <2>2 DEF Tick
<1>8. CASE UNCHANGED vars
  BY <1>8 DEF vars
<1> QED
  BY <1>1, <1>2, <1>3, <1>4, <1>5, <1>6, <1>7, <1>8 DEF Next

\* The initial states are well typed.
LEMMA TypeInit == Init => TypeOK
BY BlankTypes, BoundAssumption DEF Init, TypeOK

(***************************************************************************)
(* The attempt budget.  QueuedHasBudget and WorkerRowsAreReclaimable speak *)
(* of the row only, but the row is overwritten from the tasks' snapshots,  *)
(* so the inductive invariant says what a snapshot may hold at each pc.    *)
(***************************************************************************)
Waiting == {"CREATED", "QUEUED"}

WaitingHasBudget == run.status \in Waiting => run.attempts < MaxAttempts

Leased(row) == row.worker # NoWorker => row.lease # NoLease

SnapshotInv(t) ==
    /\ t.pc = "backoff" => t.n < MaxAttempts
    /\ t.pc = "commit" => t.snap.status \in Executing
    /\ t.pc = "final" => t.snap.status \notin Waiting
    /\ Leased(t.snap)

BudgetInv ==
    /\ WaitingHasBudget
    /\ Leased(run)
    /\ \A p \in Procs : SnapshotInv(task[p])

\* A blank task and a blank row satisfy the invariant.
LEMMA BlankBudget ==
    /\ SnapshotInv(IdleTask) /\ SnapshotInv(StartTask)
    /\ Leased(QueuedRow) /\ QueuedRow.attempts < MaxAttempts
BY BoundAssumption DEF SnapshotInv, IdleTask, StartTask, QueuedRow, Leased, NoLease

\* If one task changes, and to one that satisfies the invariant, all do.
LEMMA OneTaskChanges ==
    ASSUME TypeOK, BudgetInv, NEW p \in Procs, NEW t, SnapshotInv(t),
           task' = [task EXCEPT ![p] = t]
    PROVE  \A q \in Procs : SnapshotInv(task'[q])
BY DEF TypeOK, BudgetInv

\* Moving one task preserves the invariant.
LEMMA MoveBudget ==
    ASSUME TypeOK, BudgetInv, NEW p \in Procs, NEW pc \in PCs, NEW snap \in Rows
    PROVE  /\ Finish(p) => \A q \in Procs : SnapshotInv(task'[q])
           /\ Goto(p, pc) /\ pc \in {"admit", "release"}
              => \A q \in Procs : SnapshotInv(task'[q])
           /\ Goto(p, "backoff") /\ task[p].n < MaxAttempts
              => \A q \in Procs : SnapshotInv(task'[q])
           /\ GotoWith(p, pc, snap) /\ Leased(snap) /\ pc \in {"agent", "prepare", "final"}
              /\ (pc = "final" => snap.status \notin Waiting)
              => \A q \in Procs : SnapshotInv(task'[q])
<1>0. task[p] \in Tasks
  BY DEF TypeOK
<1>1. Finish(p) => \A q \in Procs : SnapshotInv(task'[q])
  BY OneTaskChanges, BlankBudget DEF Finish
<1>2. ASSUME Goto(p, pc), pc \in {"admit", "release"}
      PROVE  \A q \in Procs : SnapshotInv(task'[q])
  <2>1. SnapshotInv([task[p] EXCEPT !.pc = pc, !.snap = QueuedRow])
    BY <1>0, <1>2, BlankBudget DEF SnapshotInv, Tasks
  <2> QED
    BY <1>2, <2>1, OneTaskChanges DEF Goto
<1>3. ASSUME Goto(p, "backoff"), task[p].n < MaxAttempts
      PROVE  \A q \in Procs : SnapshotInv(task'[q])
  <2>1. SnapshotInv([task[p] EXCEPT !.pc = "backoff", !.snap = QueuedRow])
    BY <1>0, <1>3, BlankBudget DEF SnapshotInv, Tasks
  <2> QED
    BY <1>3, <2>1, OneTaskChanges DEF Goto
<1>4. ASSUME GotoWith(p, pc, snap), Leased(snap), pc \in {"agent", "prepare", "final"},
             pc = "final" => snap.status \notin Waiting
      PROVE  \A q \in Procs : SnapshotInv(task'[q])
  <2>1. SnapshotInv([task[p] EXCEPT !.pc = pc, !.snap = snap, !.seen = "QUEUED"])
    BY <1>0, <1>4 DEF SnapshotInv, Tasks
  <2> QED
    BY <1>4, <2>1, OneTaskChanges DEF GotoWith
<1> QED
  BY <1>1, <1>2, <1>3, <1>4

\* Every step preserves the budget invariant.
LEMMA BudgetStep == TypeOK /\ BudgetInv /\ [Next]_vars => BudgetInv'
<1> SUFFICES ASSUME TypeOK, BudgetInv, [Next]_vars PROVE BudgetInv'
  OBVIOUS
<1> DEFINE RowInv == WaitingHasBudget' /\ Leased(run)'
           TaskInv == \A q \in Procs : SnapshotInv(task'[q])
<1>0. run \in Rows /\ \A p \in Procs : task[p] \in Tasks /\ task[p].snap \in Rows
  BY DEF TypeOK, Tasks
<1>a. (RowInv /\ TaskInv) => BudgetInv'
  BY DEF BudgetInv
<1>b. ASSUME UNCHANGED run PROVE RowInv
  BY <1>b DEF BudgetInv, WaitingHasBudget, Waiting, Leased
<1>c. ASSUME UNCHANGED task PROVE TaskInv
  BY <1>c DEF BudgetInv
<1>d. Uncounted(run) < MaxAttempts
  BY <1>0, UncountedBound
<1> HIDE DEF RowInv, TaskInv
<1>1. ASSUME NEW w \in Workers, WorkerStep(w) PROVE BudgetInv'
  <2>0. w \in Procs
    BY DEF Procs
  <2>1. CASE DispatchReady(w)
    <3>1. RowInv
      BY <1>0, <2>1, BoundAssumption
      DEF DispatchReady, RowInv, Rows, WaitingHasBudget, Waiting, Leased, NoLease
    <3>2. TaskInv
      BY <2>0, <2>1, OneTaskChanges, BlankBudget DEF DispatchReady, TaskInv
    <3> QED
      BY <1>a, <3>1, <3>2
  <2>2. CASE ReclaimExpiredLease(w)
    <3>1. RowInv
      BY <1>0, <1>d, <2>2 DEF ReclaimExpiredLease, RowInv, Rows, WaitingHasBudget, Waiting, Leased
    <3> QED
      BY <1>a, <1>c, <2>2, <3>1 DEF ReclaimExpiredLease
  <2>3. CASE RenewLease(w)
    <3>1. RowInv
      BY <1>0, <2>3, BoundAssumption
      DEF RenewLease, BudgetInv, RowInv, Rows, WaitingHasBudget, Waiting, Leased, NoLease
    <3> QED
      BY <1>a, <1>c, <2>3, <3>1 DEF RenewLease
  <2>4. CASE RenewalStops(w)
    BY <1>a, <1>b, <2>0, <2>4, Members, BlankTypes, MoveBudget DEF RenewalStops, TaskInv
  <2> QED
    BY <1>1, <2>1, <2>2, <2>3, <2>4 DEF WorkerStep
<1>2. ASSUME NEW p \in Procs, AgentStep(p) PROVE BudgetInv'
  <2> DEFINE failed(c) == [task[p].snap EXCEPT !.status = c.status, !.error = c.error]
  <2>0. Finish(p) => TaskInv
    BY Members, BlankTypes, MoveBudget DEF TaskInv
  <2>1. CASE ToolCall(p)
    <3>1. RowInv
      BY <1>0, <2>1 DEF ToolCall, BudgetInv, RowInv, Rows, WaitingHasBudget, Waiting, Leased
    <3> QED
      BY <1>a, <1>c, <2>0, <2>1, <3>1 DEF ToolCall
  <2>2. CASE AgentStops(p)
    BY <1>a, <1>b, <2>0, <2>2 DEF AgentStops
  <2>3. CASE AgentSucceeds(p)
    <3>1. RowInv
      BY <1>0, <2>3 DEF AgentSucceeds, BudgetInv, RowInv, Rows, WaitingHasBudget, Waiting, Leased
    <3>2. run' \in Rows
      BY <2>3, TypeStep DEF BudgetInv, BackoffBudget, SnapshotInv, TypeOK
    <3>3. Leased(run')
      BY <3>1 DEF RowInv, Leased
    <3>4. CASE Owned(p, Executing)
      BY <1>a, <2>3, <3>1, <3>2, <3>3, <3>4, Members, MoveBudget DEF AgentSucceeds, TaskInv
    <3>5. CASE ~Owned(p, Executing)
      BY <1>a, <2>0, <2>3, <3>1, <3>5 DEF AgentSucceeds
    <3> QED
      BY <3>4, <3>5
  <2>4. CASE AgentFails(p)
    <3>1. PICK c \in Classified(task[p].n) : AgentFails(p)!2!(c)
      BY <2>4 DEF AgentFails
    <3>2. c.status \in RunStatuses /\ c.error \in ErrorTypes /\ c.status \notin Waiting
      BY DEF Classified, Waiting, RunStatuses, ErrorTypes
    <3>3. failed(c) \in Rows /\ failed(c).status \notin Waiting /\ Leased(failed(c))
      BY <1>0, <3>2 DEF BudgetInv, SnapshotInv, Rows, Leased
    <3>4. CASE Owned(p, Executing)
      <4>1. RowInv
        BY <3>1, <3>3, <3>4 DEF RowInv, WaitingHasBudget, Waiting, Leased
      <4>2. TaskInv
        BY <3>1, <3>3, <3>4, Members, MoveBudget DEF TaskInv
      <4> QED
        BY <1>a, <4>1, <4>2
    <3>5. CASE ~Owned(p, Executing)
      BY <1>a, <1>b, <2>0, <3>1, <3>5
    <3> QED
      BY <3>4, <3>5
  <2>5. CASE ErrorHandled(p)
    <3>1. RowInv
      BY <1>0, <1>b, <2>5
      DEF ErrorHandled, BudgetInv, SnapshotInv, RowInv, Rows, WaitingHasBudget, Waiting, Leased
    <3>2. Goto(p, "release") => TaskInv
      BY Members, BlankTypes, MoveBudget DEF TaskInv
    <3> QED
      BY <1>a, <2>0, <2>5, <3>1, <3>2 DEF ErrorHandled
  <2> QED
    BY <1>2, <2>1, <2>2, <2>3, <2>4, <2>5 DEF AgentStep
<1>3. ASSUME NEW p \in Procs, ExecutorStep(p) PROVE BudgetInv'
  <2>0. Finish(p) => TaskInv
    BY Members, BlankTypes, MoveBudget DEF TaskInv
  <2>r. Goto(p, "release") => TaskInv
    BY Members, BlankTypes, MoveBudget DEF TaskInv
  <2>1. CASE RunNow(p)
    <3>1. Goto(p, "admit") => TaskInv
      BY Members, BlankTypes, MoveBudget DEF TaskInv
    <3> QED
      BY <1>a, <1>b, <2>0, <2>1, <3>1 DEF RunNow
  <2>2. CASE Execute(p)
    <3> DEFINE t == IF run.attempts < MaxAttempts
                    THEN [task[p] EXCEPT !.pc = "begin", !.n = run.attempts + 1]
                    ELSE [task[p] EXCEPT !.pc = "final", !.snap = run]
    <3>3. SnapshotInv(t)
      <4>1. CASE run.attempts < MaxAttempts
        BY <1>0, <4>1 DEF BudgetInv, SnapshotInv, Tasks
      <4>2. CASE ~(run.attempts < MaxAttempts)
        BY <1>0, <4>2 DEF BudgetInv, WaitingHasBudget, Waiting, SnapshotInv, Tasks
      <4> QED
        BY <4>1, <4>2
    <3>4. task' = [task EXCEPT ![p] = t]
      BY <2>2 DEF Execute
    <3> HIDE DEF t
    <3>5. TaskInv
      BY <3>3, <3>4, OneTaskChanges DEF TaskInv
    <3> QED
      BY <1>a, <1>b, <2>2, <3>5 DEF Execute
  <2>3. CASE BeginAttempt(p)
    <3> DEFINE snap == [run EXCEPT !.status = IF task[p].n = 1 THEN "RUNNING" ELSE "RETRYING",
                                   !.attempts = task[p].n]
               t == [task[p] EXCEPT !.pc = "commit", !.seen = run.status, !.snap = snap]
    <3>1. snap.status \in Executing /\ Leased(snap)
      BY <1>0 DEF BudgetInv, Leased, Rows, Executing
    <3>2. t.pc = "commit" /\ t.snap = snap
      BY <1>0 DEF Tasks
    <3>3. SnapshotInv(t)
      BY <3>1, <3>2 DEF SnapshotInv
    <3>4. CASE run.status = "CANCELED" \/ task[p].event
      BY <1>a, <1>b, <2>0, <2>3, <3>4 DEF BeginAttempt
    <3>5. CASE ~(run.status = "CANCELED" \/ task[p].event)
      <4>1. task' = [task EXCEPT ![p] = t]
        BY <2>3, <3>5 DEF BeginAttempt
      <4> HIDE DEF t
      <4>2. TaskInv
        BY <3>3, <4>1, OneTaskChanges DEF TaskInv
      <4> QED
        BY <1>a, <1>b, <2>3, <4>2 DEF BeginAttempt
    <3> QED
      BY <3>4, <3>5
  <2>4. CASE CommitAttempt(p)
    <3>1. task[p].snap.status \in Executing /\ Leased(task[p].snap)
      BY <2>4 DEF CommitAttempt, At, BudgetInv, SnapshotInv
    <3>2. CASE Owned(p, {task[p].seen})
      <4>1. RowInv
        BY <2>4, <3>1, <3>2 DEF CommitAttempt, RowInv, WaitingHasBudget, Waiting, Leased, Executing
      <4>2. TaskInv
        BY <1>0, <2>4, <3>1, <3>2, Members, MoveBudget DEF CommitAttempt, TaskInv
      <4> QED
        BY <1>a, <4>1, <4>2
    <3>3. CASE ~Owned(p, {task[p].seen})
      BY <1>a, <1>b, <2>0, <2>4, <3>3 DEF CommitAttempt
    <3> QED
      BY <3>2, <3>3
  <2>5. CASE PrepareCallback(p)
    <3>1. RowInv
      BY <1>0, <1>b, <2>5
      DEF PrepareCallback, BudgetInv, SnapshotInv, RowInv, Rows, WaitingHasBudget, Waiting, Leased
    <3> QED
      BY <1>a, <2>r, <2>5, <3>1 DEF PrepareCallback
  <2>6. CASE BackoffOver(p)
    <3> DEFINE t == [task[p] EXCEPT !.pc = "begin", !.n = task[p].n + 1]
    <3>1. t.pc = "begin" /\ t.snap = task[p].snap
      BY <1>0 DEF Tasks
    <3>2. task' = [task EXCEPT ![p] = t]
      BY <2>6 DEF BackoffOver
    <3> HIDE DEF t
    <3>3. SnapshotInv(t)
      BY <3>1 DEF BudgetInv, SnapshotInv
    <3>4. TaskInv
      BY <3>2, <3>3, OneTaskChanges DEF TaskInv
    <3> QED
      BY <1>a, <1>b, <2>6, <3>4 DEF BackoffOver
  <2>7. CASE FinalWrite(p)
    <3>1. task[p].snap.status \notin Waiting /\ Leased(task[p].snap)
      BY <2>7 DEF FinalWrite, At, BudgetInv, SnapshotInv
    <3>2. RowInv
      BY <1>b, <2>7, <3>1 DEF FinalWrite, RowInv, WaitingHasBudget, Waiting, Leased
    <3> QED
      BY <1>a, <2>0, <2>r, <2>7, <3>2 DEF FinalWrite
  <2>8. CASE ReleaseQueue(p)
    <3>1. RowInv
      BY <1>0, <1>b, <2>8 DEF ReleaseQueue, BudgetInv, RowInv, Rows, WaitingHasBudget, Waiting, Leased
    <3> QED
      BY <1>a, <2>0, <2>8, <3>1 DEF ReleaseQueue
  <2> QED
    BY <1>3, <2>1, <2>2, <2>3, <2>4, <2>5, <2>6, <2>7, <2>8 DEF ExecutorStep
<1>4. ASSUME NEW p \in Procs, InternalError(p) \/ SettleFails(p) PROVE BudgetInv'
  <2>0. Finish(p) => TaskInv
    BY Members, BlankTypes, MoveBudget DEF TaskInv
  <2>1. RowInv
    BY <1>0, <1>b, <1>4
    DEF InternalError, SettleFails, BudgetInv, RowInv, Rows, WaitingHasBudget, Waiting, Leased
  <2> QED
    BY <1>a, <1>4, <2>0, <2>1 DEF InternalError, SettleFails
<1>5. ASSUME NEW p \in Procs, ProcessStep(p) PROVE BudgetInv'
  <2>1. Exit(p) => TaskInv
    BY OneTaskChanges, BlankBudget DEF Exit, TaskInv
  <2>2. CASE Crash(p)
    BY <1>a, <1>b, <2>1, <2>2 DEF Crash
  <2>3. CASE Shutdown(p)
    <3> DEFINE t == [task[p] EXCEPT !.event = task[p].pc \in Registered]
    <3>1. t.pc = task[p].pc /\ t.snap = task[p].snap /\ t.n = task[p].n
      BY <1>0 DEF Tasks
    <3>2. task' = [task EXCEPT ![p] = t]
      BY <2>3 DEF Shutdown
    <3> HIDE DEF t
    <3>3. SnapshotInv(t)
      BY <3>1 DEF BudgetInv, SnapshotInv
    <3>4. TaskInv
      BY <3>2, <3>3, OneTaskChanges DEF TaskInv
    <3> QED
      BY <1>a, <1>b, <2>3, <3>4 DEF Shutdown
  <2>4. CASE ShutdownOver(p)
    BY <1>a, <1>b, <2>1, <2>4 DEF ShutdownOver
  <2>5. CASE Restart(p)
    <3>1. RowInv
      BY <1>0, <1>b, <1>d, <2>5
      DEF Restart, BudgetInv, RowInv, Rows, WaitingHasBudget, Waiting, Leased, Recoverable
    <3>2. TaskInv
      BY <1>c, <2>5, OneTaskChanges, BlankBudget DEF Restart, TaskInv
    <3> QED
      BY <1>a, <3>1, <3>2
  <2> QED
    BY <1>5, <2>2, <2>3, <2>4, <2>5 DEF ProcessStep
<1>6. ASSUME NEW s \in Servers, OperatorStep(s) PROVE BudgetInv'
  <2>0. s \in Procs
    BY DEF Procs
  <2>1. CASE Cancel(s)
    <3> DEFINE t == [task[s] EXCEPT !.event = @ \/ task[s].pc \in Registered]
    <3>1. RowInv
      BY <1>0, <2>1 DEF Cancel, RowInv, Rows, WaitingHasBudget, Waiting, Leased
    <3>2. t.pc = task[s].pc /\ t.snap = task[s].snap /\ t.n = task[s].n
      BY <1>0, <2>0 DEF Tasks
    <3>3. task' = [task EXCEPT ![s] = t]
      BY <2>1 DEF Cancel
    <3> HIDE DEF t
    <3>4. SnapshotInv(t)
      BY <2>0, <3>2 DEF BudgetInv, SnapshotInv
    <3>5. TaskInv
      BY <2>0, <3>3, <3>4, OneTaskChanges DEF TaskInv
    <3> QED
      BY <1>a, <3>1, <3>5
  <2>2. CASE RetryRead(s)
    BY <1>a, <1>b, <1>c, <2>2 DEF RetryRead
  <2>3. CASE RetryWrite(s)
    <3>1. RowInv
      BY <2>3, BlankBudget DEF RetryWrite, RowInv, WaitingHasBudget
    <3>2. TaskInv
      BY <1>c, <2>0, <2>3, OneTaskChanges, BlankBudget DEF RetryWrite, TaskInv
    <3> QED
      BY <1>a, <3>1, <3>2
  <2>4. CASE ResendCallback(s)
    <3>1. RowInv
      BY <1>0, <2>4
      DEF ResendCallback, BudgetInv, RowInv, Rows, WaitingHasBudget, Waiting, Leased
    <3> QED
      BY <1>a, <1>c, <2>4, <3>1 DEF ResendCallback
  <2> QED
    BY <1>6, <2>1, <2>2, <2>3, <2>4 DEF OperatorStep
<1>7. CASE Tick
  <2>1. RowInv
    BY <1>0, <1>7, ElapseType DEF Tick, BudgetInv, RowInv, Rows, WaitingHasBudget, Leased
  <2>2. ASSUME NEW q \in Procs PROVE SnapshotInv(task'[q])
    <3> DEFINE t == [task[q] EXCEPT !.snap.lease = Elapse(@)]
    <3>1. /\ t.pc = task[q].pc /\ t.n = task[q].n
          /\ t.snap.status = task[q].snap.status
          /\ t.snap.worker = task[q].snap.worker
          /\ t.snap.lease = Elapse(task[q].snap.lease)
      BY <1>0 DEF Tasks, Rows
    <3>2. task[q].snap.lease \in Leases
      BY <1>0 DEF Rows
    <3>3. task'[q] = t
      BY <1>7 DEF Tick
    <3> HIDE DEF t
    <3> QED
      BY <3>1, <3>2, <3>3, ElapseType DEF BudgetInv, SnapshotInv, Leased
  <2> QED
    BY <1>a, <2>1, <2>2 DEF TaskInv
<1>8. CASE UNCHANGED vars
  BY <1>a, <1>b, <1>c, <1>8 DEF vars
<1> QED
  BY <1>1, <1>2, <1>3, <1>4, <1>5, <1>6, <1>7, <1>8 DEF Next

\* The initial states satisfy the budget invariant.
LEMMA BudgetInit == Init => BudgetInv
<1> SUFFICES ASSUME Init PROVE BudgetInv
  OBVIOUS
<1>1. \A p \in Procs : task[p] \in {IdleTask, StartTask}
  BY DEF Init
<1> QED
  BY <1>1, BlankBudget DEF Init, BudgetInv, WaitingHasBudget

\* Both invariants hold together, which is what induction needs.
LEMMA TypeAndBudget == Spec => [](TypeOK /\ BudgetInv)
<1>1. BudgetInv => BackoffBudget
  BY DEF BudgetInv, SnapshotInv, BackoffBudget
<1> QED
  BY <1>1, TypeInit, BudgetInit, TypeStep, BudgetStep, PTL DEF Spec

\* Every reachable state of every deployment is well typed: in particular the
\* attempts column never leaves 0..MaxAttempts, although claims, reclaims and
\* recoveries decrement it and tasks overwrite it from their snapshots.
THEOREM TypeCorrect == Spec => []TypeOK
BY TypeAndBudget, PTL

\* In every deployment, mixed ones included, a queued run has an attempt left,
\* so RunExecutor's attempt loop is never entered empty from the queue.
THEOREM QueueBudget == Spec => []QueuedHasBudget
<1>1. BudgetInv => QueuedHasBudget
  BY DEF BudgetInv, WaitingHasBudget, Waiting, QueuedHasBudget
<1> QED
  BY <1>1, TypeAndBudget, PTL

\* In every deployment a row that names a worker carries a lease, so claim_ready
\* and reclaim_expired_leases can take the run from a worker that died.
THEOREM Reclaimable == Spec => []WorkerRowsAreReclaimable
<1>1. BudgetInv => WorkerRowsAreReclaimable
  BY DEF BudgetInv, Leased, WorkerRowsAreReclaimable
<1> QED
  BY <1>1, TypeAndBudget, PTL

(***************************************************************************)
(* Worker deployments.  When only workers execute, the worker column is a  *)
(* fencing token: a task that lost the row can never match it again,       *)
(* because dispatch_ready does not claim a run that has a task in the same *)
(* process, and no other process writes that worker id.                    *)
(***************************************************************************)
WorkersOnly == Servers = ApiOnly /\ "retry" \notin Requests

\* The pcs before a task has recorded an outcome.
Undecided == {"start", "admit", "begin", "commit", "agent", "backoff", "final"}

\* What holds of worker w's task t in a state with row r.
FencedTask(w, t, r) ==
    /\ t.pc \in {"agent", "prepare"} => t.snap.worker = w
    /\ t.pc = "commit" => t.snap.attempts = t.n /\ t.snap.status \in Executing
    /\ r.worker = w =>
         /\ t.pc \in Undecided => r.status \in Executing \cup {"FAILED", "TIMEOUT"}
         /\ t.pc \in {"commit", "final"} => t.snap.worker = w
         /\ t.pc = "agent" => r.status \in Executing /\ r.attempts = t.n

FencingInv ==
    /\ retrying = {}
    /\ \A s \in Servers : task[s].pc = "idle"
    /\ run.status = "CANCELED" => run.worker = NoWorker
    /\ \A w \in Workers : FencedTask(w, task[w], run)

\* A task that has nothing to do is fenced, whatever the row.
LEMMA IdleFenced ==
    ASSUME NEW w, NEW r PROVE FencedTask(w, IdleTask, r)
BY DEF FencedTask, IdleTask, Undecided

\* A step of worker p's task that changes the row only while p owns it, or
\* takes the row for p or from everyone, keeps the other workers fenced.
LEMMA WorkerMoves ==
    ASSUME TypeOK, FencingInv, NEW p \in Workers, NEW t,
           task' = [task EXCEPT ![p] = t],
           FencedTask(p, t, run'),
           run' = run \/ run'.worker \in {p, NoWorker},
           run'.status = "CANCELED" => run'.worker = NoWorker,
           retrying' = {}
    PROVE  FencingInv'
<1>1. \A q \in Procs : q # p => task'[q] = task[q]
  BY DEF TypeOK
<1>2. task'[p] = t
  BY DEF TypeOK, Procs
<1>3. \A s \in Servers : task'[s].pc = "idle"
  BY <1>1, ProcessAssumption DEF FencingInv, Procs
<1>4. ASSUME NEW w \in Workers PROVE FencedTask(w, task'[w], run')
  <2>1. CASE w = p
    BY <1>2, <2>1
  <2>2. CASE w # p
    <3>1. task'[w] = task[w] /\ FencedTask(w, task[w], run)
      BY <1>1, <2>2 DEF FencingInv, Procs
    <3>2. run'.worker = w => run' = run
      BY <2>2, ProcessAssumption
    <3> QED
      BY <3>1, <3>2 DEF FencedTask
  <2> QED
    BY <2>1, <2>2
<1> QED
  BY <1>3, <1>4 DEF FencingInv

\* The row moves, no task does: claims are given up, statuses settle.
LEMMA RowMoves ==
    ASSUME TypeOK, FencingInv, UNCHANGED task, retrying' = {},
           run'.status = "CANCELED" => run'.worker = NoWorker,
           \A w \in Workers : run'.worker = w =>
              /\ run.worker = w
              /\ \/ run'.status = run.status /\ run'.attempts = run.attempts
                 \/ task[w].pc \notin Undecided
    PROVE  FencingInv'
<1>1. ASSUME NEW w \in Workers PROVE FencedTask(w, task'[w], run')
  <2>1. FencedTask(w, task[w], run)
    BY DEF FencingInv
  <2> QED
    BY <2>1 DEF FencedTask, Undecided
<1> QED
  BY <1>1 DEF FencingInv

\* Steps of a worker process preserve the fencing invariant.
LEMMA FencedWorkerStep ==
    ASSUME TypeOK, FencingInv, NEW p \in Workers,
           WorkerStep(p) \/ AgentStep(p) \/ ExecutorStep(p)
           \/ InternalError(p) \/ SettleFails(p)
    PROVE  FencingInv'
<1>0. /\ p \in Procs /\ WorkerId(p) = p /\ p # NoWorker
      /\ task[p] \in Tasks /\ task[p].snap \in Rows /\ run \in Rows
  BY ProcessAssumption DEF Procs, WorkerId, TypeOK, Tasks
<1>1. /\ FencedTask(p, task[p], run)
      /\ run.status = "CANCELED" => run.worker = NoWorker
      /\ retrying = {}
  BY DEF FencingInv
<1>f. ASSUME Finish(p), run' = run \/ run'.worker \in {p, NoWorker},
             run'.status = "CANCELED" => run'.worker = NoWorker, retrying' = {}
      PROVE  FencingInv'
  BY <1>f, IdleFenced, WorkerMoves DEF Finish
<1>u. ASSUME Finish(p), UNCHANGED <<run, retrying>> PROVE FencingInv'
  BY <1>u, <1>f, <1>1
<1>2. CASE DispatchReady(p)
  <2>1. /\ run'.worker = p /\ run'.status = "RUNNING"
        /\ task' = [task EXCEPT ![p] = StartTask] /\ retrying' = {}
    BY <1>0, <1>1, <1>2 DEF DispatchReady, Rows
  <2>2. FencedTask(p, StartTask, run')
    BY <2>1 DEF FencedTask, StartTask, IdleTask, Undecided, Executing
  <2> QED
    BY <2>1, <2>2, WorkerMoves
<1>3. CASE ReclaimExpiredLease(p)
  <2>1. run'.worker = NoWorker /\ run'.status = "QUEUED" /\ UNCHANGED <<task, retrying>>
    BY <1>0, <1>3 DEF ReclaimExpiredLease, Rows
  <2> QED
    BY <1>1, <2>1, RowMoves, ProcessAssumption
<1>4. CASE RenewLease(p)
  <2>1. /\ run'.worker = run.worker /\ run'.status = run.status
        /\ run'.attempts = run.attempts /\ UNCHANGED <<task, retrying>>
    BY <1>0, <1>4 DEF RenewLease, Rows
  <2> QED
    BY <1>1, <2>1, RowMoves
<1>5. CASE RenewalStops(p)
  BY <1>u, <1>5 DEF RenewalStops
<1>6. CASE ToolCall(p)
  <2>1. CASE run.worker = task[p].snap.worker
    <3>1. task[p].pc = "agent" /\ run.worker = p
      BY <1>1, <1>6, <2>1 DEF ToolCall, At, FencedTask
    <3>2. /\ run'.worker = p /\ run'.status = "WAITING_TOOL" /\ run'.attempts = run.attempts
          /\ UNCHANGED <<task, retrying>>
      BY <1>0, <1>6, <2>1, <3>1 DEF ToolCall, Rows
    <3>3. FencedTask(p, task[p], run')
      BY <1>1, <3>1, <3>2 DEF FencedTask, Executing
    <3>4. task' = [task EXCEPT ![p] = task[p]]
      BY <3>2 DEF TypeOK
    <3> QED
      BY <1>1, <3>2, <3>3, <3>4, WorkerMoves
  <2>2. CASE run.worker # task[p].snap.worker
    BY <1>u, <1>6, <2>2 DEF ToolCall
  <2> QED
    BY <2>1, <2>2
<1>7. CASE AgentStops(p)
  BY <1>u, <1>7 DEF AgentStops
<1>8. CASE AgentSucceeds(p)
  <2>1. CASE Owned(p, Executing)
    <3> DEFINE t == [task[p] EXCEPT !.pc = "prepare", !.snap = run', !.seen = "QUEUED"]
    <3>1. run'.worker = p /\ run'.status = "AGENT_SUCCEEDED" /\ retrying' = {}
      BY <1>0, <1>1, <1>8, <2>1 DEF AgentSucceeds, Owned, Rows
    <3>2. t.pc = "prepare" /\ t.snap = run'
      BY <1>0 DEF Tasks
    <3>3. task' = [task EXCEPT ![p] = t]
      BY <1>8, <2>1 DEF AgentSucceeds, GotoWith
    <3> HIDE DEF t
    <3>4. FencedTask(p, t, run')
      BY <3>1, <3>2 DEF FencedTask, Undecided
    <3> QED
      BY <3>1, <3>3, <3>4, WorkerMoves
  <2>2. CASE ~Owned(p, Executing)
    BY <1>u, <1>8, <2>2 DEF AgentSucceeds
  <2> QED
    BY <2>1, <2>2
<1>9. CASE AgentFails(p)
  <2>0. PICK c \in Classified(task[p].n) : AgentFails(p)!2!(c)
    BY <1>9 DEF AgentFails
  <2>1. CASE Owned(p, Executing)
    <3> DEFINE failed == [task[p].snap EXCEPT !.status = c.status, !.error = c.error]
               b == [task[p] EXCEPT !.pc = "backoff", !.snap = QueuedRow]
               f == [task[p] EXCEPT !.pc = "final", !.snap = failed, !.seen = "QUEUED"]
    <3>1. task[p].snap.worker = p /\ retrying' = {}
      BY <1>1, <1>9 DEF AgentFails, At, FencedTask
    <3>2. run' = failed /\ (task' = [task EXCEPT ![p] = b] \/ task' = [task EXCEPT ![p] = f])
      BY <2>0, <2>1 DEF Goto, GotoWith
    <3>3. failed.worker = p /\ failed.status = c.status
      BY <1>0, <3>1 DEF Rows
    <3>4. c.status \in Executing \cup {"FAILED", "TIMEOUT"} /\ c.status # "CANCELED"
      BY DEF Classified, Executing
    <3>5. b.pc = "backoff" /\ f.pc = "final" /\ f.snap = failed
      BY <1>0 DEF Tasks
    <3> HIDE DEF failed, b, f
    <3>6. FencedTask(p, b, run') /\ FencedTask(p, f, run')
      BY <3>2, <3>3, <3>4, <3>5 DEF FencedTask, Undecided
    <3> QED
      BY <3>1, <3>2, <3>3, <3>4, <3>6, WorkerMoves
  <2>2. CASE ~Owned(p, Executing)
    BY <1>u, <1>9, <2>0, <2>2 DEF AgentFails
  <2> QED
    BY <2>1, <2>2
<1>10. CASE ErrorHandled(p)
  <2>1. CASE Owned(p, Executing)
    <3> DEFINE t == [task[p] EXCEPT !.pc = "release", !.snap = QueuedRow]
    <3>1. task[p].snap.worker = p
      BY <1>1, <1>10 DEF ErrorHandled, At, FencedTask
    <3>2. run'.worker = p /\ run'.status = "SUCCEEDED" /\ retrying' = {}
      BY <1>0, <1>1, <1>10, <2>1, <3>1 DEF ErrorHandled, Rows
    <3>3. t.pc = "release"
      BY <1>0 DEF Tasks
    <3>4. task' = [task EXCEPT ![p] = t]
      BY <1>10, <2>1 DEF ErrorHandled, Goto
    <3> HIDE DEF t
    <3>5. FencedTask(p, t, run')
      BY <3>3 DEF FencedTask, Undecided
    <3> QED
      BY <3>2, <3>4, <3>5, WorkerMoves
  <2>2. CASE ~Owned(p, Executing)
    BY <1>u, <1>10, <2>2 DEF ErrorHandled
  <2> QED
    BY <2>1, <2>2
<1>11. CASE RunNow(p)
  <2>1. CASE run.status \in Terminal
    BY <1>u, <1>11, <2>1 DEF RunNow
  <2>2. CASE run.status \notin Terminal
    <3> DEFINE t == [task[p] EXCEPT !.pc = "admit", !.snap = QueuedRow]
    <3>1. t.pc = "admit" /\ task[p].pc = "start"
      BY <1>0, <1>11 DEF Tasks, RunNow, At
    <3>2. task' = [task EXCEPT ![p] = t] /\ UNCHANGED <<run, retrying>>
      BY <1>11, <2>2 DEF RunNow, Goto
    <3> HIDE DEF t
    <3>3. FencedTask(p, t, run')
      BY <1>1, <3>1, <3>2 DEF FencedTask, Undecided
    <3> QED
      BY <1>1, <3>2, <3>3, WorkerMoves
  <2> QED
    BY <2>1, <2>2
<1>12. CASE Execute(p)
  <2> DEFINE b == [task[p] EXCEPT !.pc = "begin", !.n = run.attempts + 1]
             f == [task[p] EXCEPT !.pc = "final", !.snap = run]
  <2>1. b.pc = "begin" /\ f.pc = "final" /\ f.snap = run /\ task[p].pc = "admit"
    BY <1>0, <1>12 DEF Tasks, Execute, At
  <2>2. /\ task' = [task EXCEPT ![p] = b] \/ task' = [task EXCEPT ![p] = f]
        /\ UNCHANGED <<run, retrying>>
    BY <1>12 DEF Execute
  <2> HIDE DEF b, f
  <2>3. FencedTask(p, b, run') /\ FencedTask(p, f, run')
    BY <1>1, <2>1, <2>2 DEF FencedTask, Undecided
  <2> QED
    BY <1>1, <2>2, <2>3, WorkerMoves
<1>13. CASE BeginAttempt(p)
  <2>1. CASE run.status = "CANCELED" \/ task[p].event
    BY <1>u, <1>13, <2>1 DEF BeginAttempt
  <2>2. CASE ~(run.status = "CANCELED" \/ task[p].event)
    <3> DEFINE status == IF task[p].n = 1 THEN "RUNNING" ELSE "RETRYING"
               snap == [run EXCEPT !.status = status, !.attempts = task[p].n]
               t == [task[p] EXCEPT !.pc = "commit", !.seen = run.status, !.snap = snap]
    <3>1. status \in Executing
      BY DEF Executing
    <3>2. task' = [task EXCEPT ![p] = t] /\ UNCHANGED <<run, retrying>>
      BY <1>13, <2>2 DEF BeginAttempt
    <3> HIDE DEF status
    <3>3. snap.worker = run.worker /\ snap.status = status /\ snap.attempts = task[p].n
      BY <1>0 DEF Rows
    <3> HIDE DEF snap
    <3>4. t.pc = "commit" /\ t.snap = snap /\ t.n = task[p].n /\ task[p].pc = "begin"
      BY <1>0, <1>13 DEF Tasks, BeginAttempt, At
    <3> HIDE DEF t
    <3>5. FencedTask(p, t, run')
      BY <1>1, <3>1, <3>2, <3>3, <3>4 DEF FencedTask, Undecided
    <3> QED
      BY <1>1, <3>2, <3>5, WorkerMoves
  <2> QED
    BY <2>1, <2>2
<1>14. CASE CommitAttempt(p)
  <2>1. CASE Owned(p, {task[p].seen})
    <3> DEFINE t == [task[p] EXCEPT !.pc = "agent", !.snap = task[p].snap, !.seen = "QUEUED"]
    <3>1. /\ task[p].snap.worker = p /\ task[p].snap.status \in Executing
          /\ task[p].snap.attempts = task[p].n
      BY <1>0, <1>1, <1>14, <2>1 DEF CommitAttempt, At, Owned, FencedTask
    <3>2. t.pc = "agent" /\ t.snap = task[p].snap /\ t.n = task[p].n
      BY <1>0 DEF Tasks
    <3>3. task' = [task EXCEPT ![p] = t] /\ run' = task[p].snap /\ retrying' = {}
      BY <1>1, <1>14, <2>1 DEF CommitAttempt, GotoWith
    <3> HIDE DEF t
    <3>4. FencedTask(p, t, run')
      BY <3>1, <3>2, <3>3 DEF FencedTask, Undecided
    <3>5. run'.status # "CANCELED"
      BY <3>1, <3>3 DEF Executing
    <3> QED
      BY <3>1, <3>3, <3>4, <3>5, WorkerMoves
  <2>2. CASE ~Owned(p, {task[p].seen})
    BY <1>u, <1>14, <2>2 DEF CommitAttempt
  <2> QED
    BY <2>1, <2>2
<1>15. CASE PrepareCallback(p)
  <2> DEFINE t == [task[p] EXCEPT !.pc = "release", !.snap = QueuedRow]
  <2>1. t.pc = "release" /\ task[p].snap.worker = p
    BY <1>0, <1>1, <1>15 DEF Tasks, PrepareCallback, At, FencedTask
  <2>2. task' = [task EXCEPT ![p] = t] /\ retrying' = {}
    BY <1>1, <1>15 DEF PrepareCallback, Goto
  <2>3. \/ run' = run
        \/ run'.worker = p /\ run'.status = "SUCCEEDED"
    BY <1>0, <1>15, <2>1 DEF PrepareCallback, Rows
  <2> HIDE DEF t
  <2>4. FencedTask(p, t, run')
    BY <2>1 DEF FencedTask, Undecided
  <2> QED
    BY <1>1, <2>2, <2>3, <2>4, WorkerMoves
<1>16. CASE BackoffOver(p)
  <2> DEFINE t == [task[p] EXCEPT !.pc = "begin", !.n = task[p].n + 1]
  <2>1. t.pc = "begin" /\ task[p].pc = "backoff"
    BY <1>0, <1>16 DEF Tasks, BackoffOver, At
  <2>2. task' = [task EXCEPT ![p] = t] /\ UNCHANGED <<run, retrying>>
    BY <1>16 DEF BackoffOver
  <2> HIDE DEF t
  <2>3. FencedTask(p, t, run')
    BY <1>1, <2>1, <2>2 DEF FencedTask, Undecided
  <2> QED
    BY <1>1, <2>2, <2>3, WorkerMoves
<1>17. CASE FinalWrite(p)
  <2>1. CASE Owned(p, {task[p].snap.status})
    <3> DEFINE t == [task[p] EXCEPT !.pc = "release", !.snap = QueuedRow]
    <3>1. t.pc = "release" /\ task[p].snap.worker = p /\ task[p].snap.status = run.status
      BY <1>0, <1>1, <1>17, <2>1 DEF Tasks, FinalWrite, At, Owned, FencedTask
    <3>2. run.status # "CANCELED"
      BY <1>0, <1>1, <2>1 DEF Owned
    <3>3. task' = [task EXCEPT ![p] = t] /\ run' = task[p].snap /\ retrying' = {}
      BY <1>1, <1>17, <2>1 DEF FinalWrite, Goto
    <3> HIDE DEF t
    <3>4. FencedTask(p, t, run')
      BY <3>1 DEF FencedTask, Undecided
    <3> QED
      BY <3>1, <3>2, <3>3, <3>4, WorkerMoves
  <2>2. CASE ~Owned(p, {task[p].snap.status})
    BY <1>u, <1>17, <2>2 DEF FinalWrite
  <2> QED
    BY <2>1, <2>2
<1>18. CASE ReleaseQueue(p)
  <2>1. run' = run \/ run'.worker = NoWorker
    BY <1>0, <1>18 DEF ReleaseQueue, Rows
  <2> QED
    BY <1>f, <1>1, <1>18, <2>1 DEF ReleaseQueue
<1>19. CASE InternalError(p)
  <2>1. run' = run \/ (run'.worker = p /\ run'.status = "FAILED")
    BY <1>0, <1>19 DEF InternalError, Owned, Rows
  <2> QED
    BY <1>f, <1>1, <1>19, <2>1 DEF InternalError
<1>20. CASE SettleFails(p)
  BY <1>u, <1>20 DEF SettleFails
<1> QED
  BY <1>2, <1>3, <1>4, <1>5, <1>6, <1>7, <1>8, <1>9, <1>10, <1>11, <1>12, <1>13, <1>14,
     <1>15, <1>16, <1>17, <1>18, <1>19, <1>20 DEF WorkerStep, AgentStep, ExecutorStep

\* A serve process whose task is idle takes none of the executor's steps.
LEMMA IdleTakesNoStep ==
    ASSUME NEW p \in Procs, task[p].pc = "idle"
    PROVE  ~(AgentStep(p) \/ ExecutorStep(p) \/ InternalError(p) \/ SettleFails(p))
BY DEF AgentStep, ToolCall, AgentStops, AgentSucceeds, AgentFails, ErrorHandled,
       ExecutorStep, RunNow, Execute, BeginAttempt, CommitAttempt, PrepareCallback,
       BackoffOver, FinalWrite, ReleaseQueue, InternalError, SettleFails, At

\* A step that changes neither the row nor, up to its event, any task, and a
\* step that drops a task, preserve the fencing invariant.
LEMMA FencedProcessStep ==
    ASSUME WorkersOnly, TypeOK, FencingInv, NEW p \in Procs, ProcessStep(p)
    PROVE  FencingInv'
<1>0. task[p] \in Tasks /\ retrying = {} /\ (p \in Servers => task[p].pc = "idle")
  BY DEF TypeOK, FencingInv
<1>1. UNCHANGED run /\ retrying' = {}
  BY <1>0 DEF WorkersOnly, ProcessStep, Crash, Shutdown, ShutdownOver, Restart, Exit
<1>2. PICK t : /\ task' = [task EXCEPT ![p] = t]
               /\ \/ t = IdleTask
                  \/ /\ t.pc = task[p].pc /\ t.n = task[p].n
                     /\ t.snap = task[p].snap
  <2>1. CASE Crash(p) \/ ShutdownOver(p)
    BY <2>1 DEF Crash, ShutdownOver, Exit
  <2>2. CASE Shutdown(p)
    <3> DEFINE u == [task[p] EXCEPT !.event = task[p].pc \in Registered]
    <3>1. u.pc = task[p].pc /\ u.snap = task[p].snap /\ u.n = task[p].n
      BY <1>0 DEF Tasks
    <3>2. task' = [task EXCEPT ![p] = u]
      BY <2>2 DEF Shutdown
    <3> HIDE DEF u
    <3> QED
      BY <3>1, <3>2
  <2>3. CASE Restart(p)
    <3>1. task' = task
      BY <2>3 DEF WorkersOnly, Restart
    <3>2. task' = [task EXCEPT ![p] = task[p]]
      BY <3>1 DEF TypeOK
    <3> QED
      BY <3>2
  <2> QED
    BY <2>1, <2>2, <2>3 DEF ProcessStep
<1>3. \A q \in Procs : q # p => task'[q] = task[q]
  BY <1>2 DEF TypeOK
<1>4. task'[p] = t
  BY <1>2 DEF TypeOK
<1>5. ASSUME NEW s \in Servers PROVE task'[s].pc = "idle"
  BY <1>0, <1>2, <1>3, <1>4 DEF FencingInv, Procs, IdleTask
<1>6. ASSUME NEW w \in Workers PROVE FencedTask(w, task'[w], run')
  <2>0. FencedTask(w, task[w], run) /\ w \in Procs
    BY DEF FencingInv, Procs
  <2>1. CASE w = p /\ t = IdleTask
    BY <1>4, <2>1, IdleFenced
  <2>2. CASE w = p /\ t # IdleTask
    <3>1. t.pc = task[p].pc /\ t.n = task[p].n /\ t.snap = task[p].snap
      BY <1>2, <2>2
    <3> QED
      BY <1>1, <1>4, <2>0, <2>2, <3>1 DEF FencedTask
  <2>3. CASE w # p
    BY <1>1, <1>3, <2>0, <2>3
  <2> QED
    BY <2>1, <2>2, <2>3
<1>7. run'.status = "CANCELED" => run'.worker = NoWorker
  BY <1>1 DEF FencingInv
<1> QED
  BY <1>1, <1>5, <1>6, <1>7 DEF FencingInv

\* Every step of a worker deployment preserves the fencing invariant.
LEMMA FencedStep ==
    ASSUME WorkersOnly, TypeOK, FencingInv, [Next]_vars
    PROVE  FencingInv'
<1>0. /\ retrying = {} /\ run \in Rows /\ (run.status = "CANCELED" => run.worker = NoWorker)
      /\ \A s \in Servers : s \in Procs /\ task[s] \in Tasks /\ task[s].pc = "idle"
      /\ \A w \in Workers : w \in Procs /\ w # NoWorker /\ FencedTask(w, task[w], run)
  BY ProcessAssumption DEF FencingInv, TypeOK, Procs
<1>1. ASSUME NEW p \in Procs,
             AgentStep(p) \/ ExecutorStep(p) \/ InternalError(p) \/ SettleFails(p)
      PROVE  FencingInv'
  <2>1. p \in Workers
    BY <1>0, <1>1, IdleTakesNoStep DEF Procs
  <2> QED
    BY <1>1, <2>1, FencedWorkerStep
<1>2. ASSUME NEW s \in Servers, Cancel(s) PROVE FencingInv'
  <2> DEFINE t == [task[s] EXCEPT !.event = @ \/ task[s].pc \in Registered]
  <2>1. t.pc = "idle"
    BY <1>0 DEF Tasks
  <2>2. /\ task' = [task EXCEPT ![s] = t] /\ retrying' = {} /\ run'.worker = NoWorker
    BY <1>0, <1>2 DEF Cancel, Rows
  <2> HIDE DEF t
  <2>3. /\ \A q \in Servers : task'[q].pc = "idle"
        /\ \A w \in Workers : task'[w] = task[w]
    BY <1>0, <2>1, <2>2, ProcessAssumption DEF TypeOK, Procs
  <2>4. ASSUME NEW w \in Workers PROVE FencedTask(w, task'[w], run')
    BY <1>0, <2>2, <2>3 DEF FencedTask
  <2> QED
    BY <2>2, <2>3, <2>4 DEF FencingInv
<1>3. ASSUME NEW s \in Servers, ResendCallback(s) PROVE FencingInv'
  <2>1. /\ run.status \in {"AGENT_SUCCEEDED", "WAITING_CALLBACK"}
        /\ run'.status = "SUCCEEDED" /\ run'.worker = run.worker
        /\ UNCHANGED task /\ retrying' = {}
    BY <1>0, <1>3 DEF ResendCallback, Rows
  <2>2. ASSUME NEW w \in Workers, run'.worker = w PROVE task[w].pc \notin Undecided
    BY <1>0, <2>1, <2>2 DEF FencedTask, Executing
  <2> QED
    BY <2>1, <2>2, RowMoves
<1>4. ASSUME NEW s \in Servers, RetryRead(s) \/ RetryWrite(s) PROVE FALSE
  BY <1>0, <1>4 DEF RetryRead, RetryWrite, WorkersOnly
<1>5. CASE Tick
  <2>1. /\ run'.worker = run.worker /\ run'.status = run.status
        /\ run'.attempts = run.attempts /\ retrying' = {}
    BY <1>0, <1>5 DEF Tick, Rows
  <2>2. ASSUME NEW q \in Procs
        PROVE  /\ task'[q].pc = task[q].pc /\ task'[q].n = task[q].n
               /\ task'[q].snap.status = task[q].snap.status
               /\ task'[q].snap.worker = task[q].snap.worker
               /\ task'[q].snap.attempts = task[q].snap.attempts
    BY <1>5 DEF Tick, TypeOK, Tasks, Rows
  <2>3. ASSUME NEW w \in Workers PROVE FencedTask(w, task'[w], run')
    BY <1>0, <2>1, <2>2 DEF FencedTask
  <2> QED
    BY <1>0, <2>1, <2>2, <2>3 DEF FencingInv
<1>6. CASE UNCHANGED vars
  BY <1>6 DEF vars, FencingInv
<1> QED
  BY <1>1, <1>2, <1>3, <1>4, <1>5, <1>6, FencedWorkerStep, FencedProcessStep
  DEF Next, OperatorStep

\* The initial states of a worker deployment are fenced.
LEMMA FencedInit == WorkersOnly /\ Init => FencingInv
<1> SUFFICES ASSUME WorkersOnly, Init PROVE FencingInv
  OBVIOUS
<1>1. \A p \in Procs : task[p] = IdleTask
  BY DEF WorkersOnly, Init
<1>2. run.status = "QUEUED" /\ retrying = {}
  BY DEF Init, QueuedRow
<1>3. IdleTask.pc = "idle"
  BY DEF IdleTask
<1>4. ASSUME NEW w \in Workers PROVE FencedTask(w, task[w], run)
  BY <1>1, IdleFenced DEF Procs
<1> QED
  BY <1>1, <1>2, <1>3, <1>4 DEF FencingInv, Procs

\* No step of a worker deployment changes the status of a settled run.
LEMMA SettledStep ==
    ASSUME WorkersOnly, TypeOK, FencingInv, [Next]_vars,
           run.status \in {"SUCCEEDED", "CANCELED"}
    PROVE  run'.status = run.status
<1>0. /\ run \in Rows /\ retrying = {}
      /\ run.status \notin Executing \cup {"FAILED", "TIMEOUT", "QUEUED", "AGENT_SUCCEEDED"}
      /\ \A s \in Servers : s \in Procs /\ task[s].pc = "idle"
  BY DEF FencingInv, TypeOK, Procs, Executing
<1>1. ASSUME NEW w \in Workers, WorkerStep(w) PROVE run'.status = run.status
  <2>1. ~DispatchReady(w) /\ ~ReclaimExpiredLease(w) /\ ~RenewLease(w)
    BY <1>0 DEF DispatchReady, Claimable, ReclaimExpiredLease, RenewLease, Owned
  <2> QED
    BY <1>1, <2>1 DEF WorkerStep, RenewalStops
<1>2. ASSUME NEW p \in Procs,
             AgentStep(p) \/ ExecutorStep(p) \/ InternalError(p) \/ SettleFails(p)
      PROVE  run'.status = run.status
  <2>0. p \in Workers /\ WorkerId(p) = p
    BY <1>0, <1>2, IdleTakesNoStep DEF Procs, WorkerId
  <2>1. run.worker = p => task[p].pc \notin Undecided
    BY <1>0, <2>0 DEF FencingInv, FencedTask
  <2>2. task[p].pc = "agent" => task[p].snap.worker = p
    BY <2>0 DEF FencingInv, FencedTask
  <2>3. CASE AgentStep(p)
    BY <1>0, <2>0, <2>1, <2>2, <2>3
    DEF AgentStep, ToolCall, AgentStops, AgentSucceeds, AgentFails, ErrorHandled,
        At, Owned, Undecided
  <2>4. CASE ReleaseQueue(p)
    BY <1>0, <2>4 DEF ReleaseQueue, Rows
  <2>5. CASE ExecutorStep(p) /\ ~ReleaseQueue(p)
    BY <1>0, <2>0, <2>1, <2>5
    DEF ExecutorStep, RunNow, Execute, BeginAttempt, CommitAttempt, PrepareCallback,
        BackoffOver, FinalWrite, At, Owned, Undecided
  <2>6. CASE InternalError(p) \/ SettleFails(p)
    BY <1>0, <2>6 DEF InternalError, SettleFails, Owned
  <2> QED
    BY <1>2, <2>3, <2>4, <2>5, <2>6
<1>3. ASSUME NEW p \in Procs, ProcessStep(p) PROVE run'.status = run.status
  BY <1>3 DEF WorkersOnly, ProcessStep, Crash, Shutdown, ShutdownOver, Restart, Exit
<1>4. ASSUME NEW s \in Servers, OperatorStep(s) PROVE run'.status = run.status
  BY <1>0, <1>4 DEF OperatorStep, Cancel, RetryRead, RetryWrite, ResendCallback,
     WorkersOnly, Terminal
<1>5. CASE Tick
  BY <1>0, <1>5 DEF Tick, Rows
<1>6. CASE UNCHANGED vars
  BY <1>6 DEF vars
<1> QED
  BY <1>1, <1>2, <1>3, <1>4, <1>5, <1>6 DEF Next

\* The fencing invariant holds in every reachable state of a worker deployment.
LEMMA Fenced ==
    ASSUME WorkersOnly PROVE Spec => [](TypeOK /\ FencingInv)
<1>1. Init => FencingInv
  BY FencedInit
<1>2. TypeOK /\ FencingInv /\ [Next]_vars => FencingInv'
  BY FencedStep
<1> QED
  BY <1>1, <1>2, TypeCorrect, PTL DEF Spec

\* When workers alone execute runs (every serve process is api-only and nobody
\* retries), the worker column fences: whatever claims, lease losses, stale
\* write-backs, crashes and cancellations happen, the status of a run that is
\* SUCCEEDED or CANCELED never changes again.
THEOREM SettledForGood ==
    ASSUME WorkersOnly PROVE Spec => SettledIsFinal
<1>1. TypeOK /\ FencingInv /\ [Next]_vars
      => [run.status \in {"SUCCEEDED", "CANCELED"} => run'.status = run.status]_vars
  BY SettledStep
<1> QED
  BY <1>1, Fenced, PTL DEF Spec, SettledIsFinal

\* In a worker deployment a worker that owns the executing run is executing the
\* attempt the row records.
THEOREM OwnerAttempt ==
    ASSUME WorkersOnly PROVE Spec => []OwnerRunsRecordedAttempt
<1>1. FencingInv => OwnerRunsRecordedAttempt
  BY DEF FencingInv, FencedTask, OwnerRunsRecordedAttempt, Owned, WorkerId
<1> QED
  BY <1>1, Fenced, PTL

(***************************************************************************)
(* The refinement.  What the fencing invariant does not say is how the     *)
(* owner's task and the row agree around the ends of an execution: a claim *)
(* leaves an attempt to run, and an owner that is about to let go has      *)
(* written an outcome.                                                     *)
(***************************************************************************)
OwnerTask(w, t, r) ==
    /\ t.pc = "final" /\ t.snap.worker = w => t.snap.status \in {"FAILED", "TIMEOUT"}
    /\ r.worker = w =>
         /\ t.pc \in {"start", "admit"} => r.attempts < MaxAttempts
         /\ t.pc = "prepare" => r.status \in {"AGENT_SUCCEEDED", "SUCCEEDED"}
         /\ t.pc = "release" => r.status \in {"SUCCEEDED", "FAILED", "TIMEOUT"}

OwnerInv == \A w \in Workers : OwnerTask(w, task[w], run)

\* A step of the abstract run, or none.
LifeStep == [Lifecycle!Next]_(Lifecycle!vars)

\* What each status means.
LEMMA Phases ==
    /\ Phase("QUEUED") = "queued"
    /\ \A s \in Executing : Phase(s) = "executing"
    /\ Phase("AGENT_SUCCEEDED") = "answered" /\ Phase("WAITING_CALLBACK") = "answered"
    /\ Phase("CREATED") = "queued"
    /\ Phase("SUCCEEDED") = "succeeded"
    /\ Phase("FAILED") = "failed" /\ Phase("TIMEOUT") = "failed"
    /\ Phase("CANCELED") = "canceled"
BY DEF Phase, Executing

\* Which changes of the row are steps of the abstract run.
LEMMA LifeSteps ==
    ASSUME NEW w \in Workers
    PROVE  /\ run'.status = run.status /\ run'.worker = run.worker => LifeStep
           /\ /\ run.status \in Executing /\ run'.status \in Executing
              /\ run'.worker = run.worker
              => LifeStep
           /\ /\ run.status \in {"QUEUED"} \cup Executing
              /\ run'.status \in Executing /\ run'.worker = w
              => LifeStep
           /\ /\ run.status \in Executing
              /\ run'.status = "QUEUED" /\ run'.worker = NoWorker
              => LifeStep
           /\ /\ run.status \in Executing /\ run.worker = w /\ run'.worker = w
              /\ run'.status \in {"AGENT_SUCCEEDED", "SUCCEEDED", "FAILED", "TIMEOUT"}
              => LifeStep
           /\ /\ run.status \in {"FAILED", "TIMEOUT"} /\ run.worker = w /\ run'.worker = w
              /\ run'.status \in Executing
              => LifeStep
           /\ /\ run.status \in {"AGENT_SUCCEEDED", "WAITING_CALLBACK"}
              /\ run'.status = "SUCCEEDED" /\ run'.worker = run.worker
              => LifeStep
           /\ /\ run.status \in {"SUCCEEDED", "FAILED", "TIMEOUT"} /\ run.worker = w
              /\ run'.status = run.status /\ run'.worker = NoWorker
              => LifeStep
           /\ /\ run.status \in RunStatuses \ Terminal
              /\ run'.status = "CANCELED" /\ run'.worker = NoWorker
              => LifeStep
<1> USE Phases DEF LifeStep, Lifecycle!vars, Lifecycle!Next
<1>1. run'.status = run.status /\ run'.worker = run.worker => LifeStep
  OBVIOUS
<1>2. /\ run.status \in Executing /\ run'.status \in Executing /\ run'.worker = run.worker
      => LifeStep
  OBVIOUS
<1>3. /\ run.status \in {"QUEUED"} \cup Executing
      /\ run'.status \in Executing /\ run'.worker = w
      => LifeStep
  BY DEF Lifecycle!Claim
<1>4. run.status \in Executing /\ run'.status = "QUEUED" /\ run'.worker = NoWorker => LifeStep
  BY DEF Lifecycle!Requeue
<1>5. /\ run.status \in Executing /\ run.worker = w /\ run'.worker = w
      /\ run'.status \in {"AGENT_SUCCEEDED", "SUCCEEDED", "FAILED", "TIMEOUT"}
      => LifeStep
  BY DEF Lifecycle!Conclude
<1>6. /\ run.status \in {"FAILED", "TIMEOUT"} /\ run.worker = w /\ run'.worker = w
      /\ run'.status \in Executing
      => LifeStep
  BY DEF Lifecycle!Resume
<1>7. /\ run.status \in {"AGENT_SUCCEEDED", "WAITING_CALLBACK"}
      /\ run'.status = "SUCCEEDED" /\ run'.worker = run.worker
      => LifeStep
  BY DEF Lifecycle!Settle
<1>8. /\ run.status \in {"SUCCEEDED", "FAILED", "TIMEOUT"} /\ run.worker = w
      /\ run'.status = run.status /\ run'.worker = NoWorker
      => LifeStep
  BY DEF Lifecycle!Release
<1>9. /\ run.status \in RunStatuses \ Terminal
      /\ run'.status = "CANCELED" /\ run'.worker = NoWorker
      => LifeStep
  BY DEF Lifecycle!Cancel, RunStatuses, Terminal, Executing
<1> QED
  BY <1>1, <1>2, <1>3, <1>4, <1>5, <1>6, <1>7, <1>8, <1>9

\* A step of worker p's task that changes the row only while p owns it, or takes
\* the row for p or from everyone, leaves the other workers' tasks as they are.
LEMMA OwnerMoves ==
    ASSUME TypeOK, OwnerInv, NEW p \in Workers, NEW t,
           task' = [task EXCEPT ![p] = t],
           OwnerTask(p, t, run'),
           run' = run \/ run'.worker \in {p, NoWorker}
    PROVE  OwnerInv'
<1> SUFFICES ASSUME NEW w \in Workers PROVE OwnerTask(w, task'[w], run')
  BY DEF OwnerInv
<1>1. CASE w = p
  BY <1>1 DEF TypeOK, Procs
<1>2. CASE w # p
  <2>1. task'[w] = task[w] /\ OwnerTask(w, task[w], run)
    BY <1>2 DEF OwnerInv, TypeOK, Procs
  <2>2. run'.worker = w => run' = run
    BY <1>2, ProcessAssumption
  <2> QED
    BY <2>1, <2>2 DEF OwnerTask
<1> QED
  BY <1>1, <1>2

\* Every step of a worker's task is a step of the abstract run, and keeps the
\* agreement of the owner and the row.
LEMMA OwnerWorkerStep ==
    ASSUME TypeOK, BudgetInv, FencingInv, OwnerInv, NEW p \in Workers,
           WorkerStep(p) \/ AgentStep(p) \/ ExecutorStep(p)
           \/ InternalError(p) \/ SettleFails(p)
    PROVE  OwnerInv' /\ LifeStep
<1>0. /\ p \in Procs /\ WorkerId(p) = p /\ p # NoWorker
      /\ task[p] \in Tasks /\ task[p].snap \in Rows /\ run \in Rows
      /\ SnapshotInv(task[p])
  BY ProcessAssumption DEF Procs, WorkerId, TypeOK, Tasks, BudgetInv
<1>1. FencedTask(p, task[p], run) /\ OwnerTask(p, task[p], run)
  BY DEF FencingInv, OwnerInv
<1>i. \A r : OwnerTask(p, IdleTask, r)
  BY DEF OwnerTask, IdleTask
<1>f. ASSUME Finish(p), run' = run \/ run'.worker \in {p, NoWorker} PROVE OwnerInv'
  BY <1>f, <1>i, OwnerMoves DEF Finish
<1>u. ASSUME Finish(p), UNCHANGED run PROVE OwnerInv' /\ LifeStep
  BY <1>u, <1>f, LifeSteps
<1>2. CASE DispatchReady(p)
  <2>1. /\ run'.worker = p /\ run'.status = "RUNNING"
        /\ run'.attempts = IF run.status \in Executing THEN Uncounted(run) ELSE run.attempts
        /\ run.status \in {"QUEUED"} \cup Executing
        /\ task' = [task EXCEPT ![p] = StartTask]
    BY <1>0, <1>2 DEF DispatchReady, Claimable, Rows
  <2>2. run'.attempts < MaxAttempts
    BY <1>0, <2>1, UncountedBound DEF BudgetInv, WaitingHasBudget, Waiting
  <2>3. OwnerTask(p, StartTask, run')
    BY <2>2 DEF OwnerTask, StartTask, IdleTask
  <2>4. run'.status \in Executing
    BY <2>1 DEF Executing
  <2> QED
    BY <2>1, <2>3, <2>4, OwnerMoves, LifeSteps
<1>3. CASE ReclaimExpiredLease(p)
  <2>1. /\ run.status \in Executing /\ run'.worker = NoWorker /\ run'.status = "QUEUED"
        /\ UNCHANGED task
    BY <1>0, <1>3 DEF ReclaimExpiredLease, Rows
  <2>2. OwnerInv'
    BY <2>1, ProcessAssumption DEF OwnerInv, OwnerTask
  <2> QED
    BY <2>1, <2>2, LifeSteps
<1>4. CASE RenewLease(p)
  <2>1. /\ run'.worker = run.worker /\ run'.status = run.status
        /\ run'.attempts = run.attempts /\ UNCHANGED task
    BY <1>0, <1>4 DEF RenewLease, Rows
  <2>2. OwnerInv'
    BY <2>1 DEF OwnerInv, OwnerTask
  <2> QED
    BY <2>1, <2>2, LifeSteps
<1>5. CASE RenewalStops(p) \/ AgentStops(p) \/ SettleFails(p)
  BY <1>u, <1>5 DEF RenewalStops, AgentStops, SettleFails
<1>6. CASE ToolCall(p)
  <2>1. CASE run.worker = task[p].snap.worker
    <3>1. task[p].pc = "agent" /\ run.worker = p /\ run.status \in Executing
      BY <1>1, <1>6, <2>1 DEF ToolCall, At, FencedTask
    <3>2. /\ run'.worker = p /\ run'.status = "WAITING_TOOL" /\ UNCHANGED task
      BY <1>0, <1>6, <2>1, <3>1 DEF ToolCall, Rows
    <3>3. OwnerTask(p, task[p], run')
      BY <3>1 DEF OwnerTask
    <3>4. task' = [task EXCEPT ![p] = task[p]] /\ "WAITING_TOOL" \in Executing
      BY <3>2 DEF TypeOK, Executing
    <3> QED
      BY <3>1, <3>2, <3>3, <3>4, OwnerMoves, LifeSteps
  <2>2. CASE run.worker # task[p].snap.worker
    BY <1>u, <1>6, <2>2 DEF ToolCall
  <2> QED
    BY <2>1, <2>2
<1>7. CASE AgentSucceeds(p)
  <2>1. CASE Owned(p, Executing)
    <3> DEFINE t == [task[p] EXCEPT !.pc = "prepare", !.snap = run', !.seen = "QUEUED"]
    <3>1. /\ run.worker = p /\ run.status \in Executing
          /\ run'.worker = p /\ run'.status = "AGENT_SUCCEEDED"
      BY <1>0, <1>7, <2>1 DEF AgentSucceeds, Owned, Rows
    <3>2. t.pc = "prepare" /\ task' = [task EXCEPT ![p] = t]
      BY <1>0, <1>7, <2>1 DEF Tasks, AgentSucceeds, GotoWith
    <3> HIDE DEF t
    <3>3. OwnerTask(p, t, run')
      BY <3>1, <3>2 DEF OwnerTask
    <3> QED
      BY <3>1, <3>2, <3>3, OwnerMoves, LifeSteps
  <2>2. CASE ~Owned(p, Executing)
    BY <1>u, <1>7, <2>2 DEF AgentSucceeds
  <2> QED
    BY <2>1, <2>2
<1>8. CASE AgentFails(p)
  <2>0. PICK c \in Classified(task[p].n) : AgentFails(p)!2!(c)
    BY <1>8 DEF AgentFails
  <2>1. CASE Owned(p, Executing)
    <3> DEFINE failed == [task[p].snap EXCEPT !.status = c.status, !.error = c.error]
               b == [task[p] EXCEPT !.pc = "backoff", !.snap = QueuedRow]
               f == [task[p] EXCEPT !.pc = "final", !.snap = failed, !.seen = "QUEUED"]
               again == IsRetryable(c.error) /\ task[p].n < MaxAttempts
    <3>1. task[p].snap.worker = p /\ run.worker = p /\ run.status \in Executing
      BY <1>0, <1>1, <1>8, <2>1 DEF AgentFails, At, FencedTask, Owned
    <3>2. run' = failed /\ task' = IF again THEN [task EXCEPT ![p] = b]
                                            ELSE [task EXCEPT ![p] = f]
      BY <2>0, <2>1 DEF Goto, GotoWith
    <3>3. failed.worker = p /\ failed.status = c.status
      BY <1>0, <3>1 DEF Rows
    <3>4. /\ c.status \in {"RETRYING", "FAILED", "TIMEOUT"}
          /\ c.status = "RETRYING" => again
      BY DEF Classified, IsRetryable
    <3>5. b.pc = "backoff" /\ f.pc = "final" /\ f.snap = failed
      BY <1>0 DEF Tasks
    <3> HIDE DEF failed, b, f, again
    <3>6. OwnerTask(p, b, run') /\ (~again => OwnerTask(p, f, run'))
      BY <3>2, <3>3, <3>4, <3>5 DEF OwnerTask
    <3>7. OwnerInv'
      BY <3>2, <3>3, <3>6, OwnerMoves
    <3>8. "RETRYING" \in Executing
      BY DEF Executing
    <3>9. CASE c.status = "RETRYING"
      BY <3>1, <3>2, <3>3, <3>7, <3>8, <3>9, LifeSteps
    <3>10. CASE c.status # "RETRYING"
      BY <3>1, <3>2, <3>3, <3>4, <3>7, <3>10, LifeSteps
    <3> QED
      BY <3>9, <3>10
  <2>2. CASE ~Owned(p, Executing)
    BY <1>u, <1>8, <2>0, <2>2 DEF AgentFails
  <2> QED
    BY <2>1, <2>2
<1>9. CASE ErrorHandled(p)
  <2>1. CASE Owned(p, Executing)
    <3> DEFINE t == [task[p] EXCEPT !.pc = "release", !.snap = QueuedRow]
    <3>1. task[p].snap.worker = p /\ run.worker = p /\ run.status \in Executing
      BY <1>0, <1>1, <1>9, <2>1 DEF ErrorHandled, At, FencedTask, Owned
    <3>2. run'.worker = p /\ run'.status = "SUCCEEDED"
      BY <1>0, <1>9, <2>1, <3>1 DEF ErrorHandled, Rows
    <3>3. t.pc = "release" /\ task' = [task EXCEPT ![p] = t]
      BY <1>0, <1>9, <2>1 DEF Tasks, ErrorHandled, Goto
    <3> HIDE DEF t
    <3>4. OwnerTask(p, t, run')
      BY <3>2, <3>3 DEF OwnerTask
    <3> QED
      BY <3>1, <3>2, <3>3, <3>4, OwnerMoves, LifeSteps
  <2>2. CASE ~Owned(p, Executing)
    BY <1>u, <1>9, <2>2 DEF ErrorHandled
  <2> QED
    BY <2>1, <2>2
<1>10. CASE RunNow(p) /\ run.status \notin Terminal
  <2> DEFINE t == [task[p] EXCEPT !.pc = "admit", !.snap = QueuedRow]
  <2>1. t.pc = "admit" /\ task[p].pc = "start"
    BY <1>0, <1>10 DEF Tasks, RunNow, At
  <2>2. task' = [task EXCEPT ![p] = t] /\ UNCHANGED run
    BY <1>10 DEF RunNow, Goto
  <2> HIDE DEF t
  <2>3. OwnerTask(p, t, run')
    BY <1>1, <2>1, <2>2 DEF OwnerTask
  <2> QED
    BY <2>2, <2>3, OwnerMoves, LifeSteps
<1>11. CASE Execute(p)
  <2> DEFINE b == [task[p] EXCEPT !.pc = "begin", !.n = run.attempts + 1]
             f == [task[p] EXCEPT !.pc = "final", !.snap = run]
  <2>1. b.pc = "begin" /\ f.pc = "final" /\ f.snap = run /\ task[p].pc = "admit"
    BY <1>0, <1>11 DEF Tasks, Execute, At
  <2>2. /\ task' = IF run.attempts < MaxAttempts THEN [task EXCEPT ![p] = b]
                                                 ELSE [task EXCEPT ![p] = f]
        /\ UNCHANGED run
    BY <1>11 DEF Execute
  <2> HIDE DEF b, f
  <2>3. CASE run.attempts < MaxAttempts
    <3>1. OwnerTask(p, b, run')
      BY <2>1 DEF OwnerTask
    <3> QED
      BY <2>2, <2>3, <3>1, OwnerMoves, LifeSteps
  <2>4. CASE ~(run.attempts < MaxAttempts)
    <3>1. run.worker # p
      BY <1>1, <2>1, <2>4 DEF OwnerTask
    <3>2. OwnerTask(p, f, run')
      BY <2>1, <2>2, <3>1 DEF OwnerTask
    <3> QED
      BY <2>2, <2>4, <3>2, OwnerMoves, LifeSteps
  <2> QED
    BY <2>3, <2>4
<1>12. CASE BeginAttempt(p) /\ ~(run.status = "CANCELED" \/ task[p].event)
  <2>1. PICK t : t.pc = "commit" /\ task' = [task EXCEPT ![p] = t] /\ UNCHANGED run
    <3> DEFINE snap == [run EXCEPT !.status = IF task[p].n = 1 THEN "RUNNING" ELSE "RETRYING",
                                   !.attempts = task[p].n]
               u == [task[p] EXCEPT !.pc = "commit", !.seen = run.status, !.snap = snap]
    <3>1. task' = [task EXCEPT ![p] = u] /\ UNCHANGED run
      BY <1>12 DEF BeginAttempt
    <3> HIDE DEF snap
    <3>2. u.pc = "commit"
      BY <1>0 DEF Tasks
    <3> HIDE DEF u
    <3> QED
      BY <3>1, <3>2
  <2>2. OwnerTask(p, t, run')
    BY <2>1 DEF OwnerTask
  <2> QED
    BY <2>1, <2>2, OwnerMoves, LifeSteps
<1>13. CASE CommitAttempt(p)
  <2>1. CASE Owned(p, {task[p].seen})
    <3> DEFINE t == [task[p] EXCEPT !.pc = "agent", !.snap = task[p].snap, !.seen = "QUEUED"]
    <3>1. /\ task[p].snap.worker = p /\ task[p].snap.status \in Executing /\ run.worker = p
          /\ run.status \in Executing \cup {"FAILED", "TIMEOUT"}
      BY <1>0, <1>1, <1>13, <2>1 DEF CommitAttempt, At, Owned, FencedTask, Undecided
    <3>2. t.pc = "agent"
      BY <1>0 DEF Tasks
    <3>3. task' = [task EXCEPT ![p] = t] /\ run' = task[p].snap
      BY <1>13, <2>1 DEF CommitAttempt, GotoWith
    <3> HIDE DEF t
    <3>4. OwnerTask(p, t, run')
      BY <3>2 DEF OwnerTask
    <3> QED
      BY <3>1, <3>3, <3>4, OwnerMoves, LifeSteps
  <2>2. CASE ~Owned(p, {task[p].seen})
    BY <1>u, <1>13, <2>2 DEF CommitAttempt
  <2> QED
    BY <2>1, <2>2
<1>14. CASE PrepareCallback(p)
  <2> DEFINE t == [task[p] EXCEPT !.pc = "release", !.snap = QueuedRow]
  <2>1. t.pc = "release" /\ task[p].snap.worker = p /\ task[p].pc = "prepare"
    BY <1>0, <1>1, <1>14 DEF Tasks, PrepareCallback, At, FencedTask
  <2>2. task' = [task EXCEPT ![p] = t]
    BY <1>14 DEF PrepareCallback, Goto
  <2>3. \/ run' = run /\ ~(run.status = "AGENT_SUCCEEDED" /\ run.worker = p)
        \/ /\ run.status = "AGENT_SUCCEEDED" /\ run.worker = p
           /\ run'.worker = p /\ run'.status = "SUCCEEDED"
    BY <1>0, <1>14, <2>1 DEF PrepareCallback, Rows
  <2> HIDE DEF t
  <2>4. OwnerTask(p, t, run')
    BY <1>1, <2>1, <2>3 DEF OwnerTask
  <2> QED
    BY <2>2, <2>3, <2>4, OwnerMoves, LifeSteps
<1>15. CASE BackoffOver(p)
  <2> DEFINE t == [task[p] EXCEPT !.pc = "begin", !.n = task[p].n + 1]
  <2>1. t.pc = "begin"
    BY <1>0 DEF Tasks
  <2>2. task' = [task EXCEPT ![p] = t] /\ UNCHANGED run
    BY <1>15 DEF BackoffOver
  <2> HIDE DEF t
  <2>3. OwnerTask(p, t, run')
    BY <2>1 DEF OwnerTask
  <2> QED
    BY <2>2, <2>3, OwnerMoves, LifeSteps
<1>16. CASE FinalWrite(p)
  <2>1. CASE Owned(p, {task[p].snap.status})
    <3> DEFINE t == [task[p] EXCEPT !.pc = "release", !.snap = QueuedRow]
    <3>1. /\ t.pc = "release" /\ task[p].snap.worker = p /\ task[p].snap.status = run.status
          /\ run.worker = p /\ run.status \in {"FAILED", "TIMEOUT"}
      BY <1>0, <1>1, <1>16, <2>1 DEF Tasks, FinalWrite, At, Owned, FencedTask, OwnerTask
    <3>2. task' = [task EXCEPT ![p] = t] /\ run' = task[p].snap
      BY <1>16, <2>1 DEF FinalWrite, Goto
    <3> HIDE DEF t
    <3>3. OwnerTask(p, t, run')
      BY <3>1, <3>2 DEF OwnerTask
    <3> QED
      BY <3>1, <3>2, <3>3, OwnerMoves, LifeSteps
  <2>2. CASE ~Owned(p, {task[p].snap.status})
    BY <1>u, <1>16, <2>2 DEF FinalWrite
  <2> QED
    BY <2>1, <2>2
<1>17. CASE ReleaseQueue(p)
  <2>1. \/ run' = run
        \/ /\ run.worker = p /\ run'.worker = NoWorker /\ run'.status = run.status
           /\ run.status \in {"SUCCEEDED", "FAILED", "TIMEOUT"}
    BY <1>0, <1>1, <1>17 DEF ReleaseQueue, At, Rows, OwnerTask
  <2> QED
    BY <1>f, <1>17, <2>1, LifeSteps DEF ReleaseQueue
<1>18. CASE InternalError(p)
  <2>1. \/ run' = run
        \/ /\ run.worker = p /\ run.status \in Executing
           /\ run'.worker = p /\ run'.status = "FAILED"
    BY <1>0, <1>1, <1>18
    DEF InternalError, Owned, Rows, At, FencedTask, Undecided, Executing
  <2> QED
    BY <1>f, <1>18, <2>1, LifeSteps DEF InternalError
<1>19. CASE (RunNow(p) /\ run.status \in Terminal)
            \/ (BeginAttempt(p) /\ (run.status = "CANCELED" \/ task[p].event))
  BY <1>u, <1>19 DEF RunNow, BeginAttempt
<1> QED
  BY <1>2, <1>3, <1>4, <1>5, <1>6, <1>7, <1>8, <1>9, <1>10, <1>11, <1>12, <1>13, <1>14,
     <1>15, <1>16, <1>17, <1>18, <1>19 DEF WorkerStep, AgentStep, ExecutorStep

\* The same of every step of a worker deployment.
LEMMA OwnerStep ==
    ASSUME WorkersOnly, TypeOK, BudgetInv, FencingInv, OwnerInv, [Next]_vars
    PROVE  OwnerInv' /\ LifeStep
<1>0. /\ retrying = {} /\ run \in Rows
      /\ \A s \in Servers : s \in Procs /\ task[s] \in Tasks /\ task[s].pc = "idle"
      /\ \A w \in Workers : /\ w \in Procs /\ w # NoWorker /\ task[w] \in Tasks
                            /\ FencedTask(w, task[w], run) /\ OwnerTask(w, task[w], run)
  BY ProcessAssumption DEF FencingInv, OwnerInv, TypeOK, Procs
<1>s. run'.status = run.status /\ run'.worker = run.worker => LifeStep
  BY Phases DEF LifeStep, Lifecycle!vars
<1>1. ASSUME NEW p \in Procs,
             AgentStep(p) \/ ExecutorStep(p) \/ InternalError(p) \/ SettleFails(p)
      PROVE  OwnerInv' /\ LifeStep
  <2>1. p \in Workers
    BY <1>0, <1>1, IdleTakesNoStep DEF Procs
  <2> QED
    BY <1>1, <2>1, OwnerWorkerStep
<1>2. ASSUME NEW p \in Procs, ProcessStep(p) PROVE OwnerInv' /\ LifeStep
  <2>1. UNCHANGED run
    BY <1>2 DEF WorkersOnly, ProcessStep, Crash, Shutdown, ShutdownOver, Restart, Exit
  <2>2. ASSUME NEW w \in Workers
        PROVE  \/ task'[w].pc = "idle"
               \/ task'[w].pc = task[w].pc /\ task'[w].snap = task[w].snap
    BY <1>0, <1>2
    DEF ProcessStep, Crash, Shutdown, ShutdownOver, Restart, Exit, WorkersOnly, IdleTask, Tasks,
        TypeOK
  <2>3. OwnerInv'
    BY <1>0, <2>1, <2>2 DEF OwnerInv, OwnerTask
  <2> QED
    BY <1>s, <2>1, <2>3
<1>3. ASSUME NEW s \in Servers, Cancel(s) PROVE OwnerInv' /\ LifeStep
  <2>1. /\ run.status \in RunStatuses \ Terminal
        /\ run'.status = "CANCELED" /\ run'.worker = NoWorker
    BY <1>0, <1>3 DEF Cancel, Rows
  <2>2. \A w \in Workers : task'[w] = task[w]
    BY <1>0, <1>3, ProcessAssumption DEF Cancel, TypeOK
  <2>3. OwnerInv'
    BY <1>0, <2>1, <2>2 DEF OwnerInv, OwnerTask
  <2>4. LifeStep
    BY <2>1, Phases DEF LifeStep, Lifecycle!vars, Lifecycle!Next, Lifecycle!Cancel, RunStatuses,
       Terminal, Executing
  <2> QED
    BY <2>3, <2>4
<1>4. ASSUME NEW s \in Servers, ResendCallback(s) PROVE OwnerInv' /\ LifeStep
  <2>1. /\ run.status \in {"AGENT_SUCCEEDED", "WAITING_CALLBACK"}
        /\ run'.status = "SUCCEEDED" /\ run'.worker = run.worker /\ UNCHANGED task
        /\ run'.attempts = run.attempts
    BY <1>0, <1>4 DEF ResendCallback, Rows
  <2>2. OwnerInv'
    BY <1>0, <2>1 DEF OwnerInv, OwnerTask
  <2>3. LifeStep
    BY <2>1, Phases DEF LifeStep, Lifecycle!vars, Lifecycle!Next, Lifecycle!Settle
  <2> QED
    BY <2>2, <2>3
<1>5. ASSUME NEW s \in Servers, RetryRead(s) \/ RetryWrite(s) PROVE FALSE
  BY <1>0, <1>5 DEF RetryRead, RetryWrite, WorkersOnly
<1>6. CASE Tick
  <2>1. /\ run'.worker = run.worker /\ run'.status = run.status
        /\ run'.attempts = run.attempts
    BY <1>0, <1>6 DEF Tick, Rows
  <2>2. ASSUME NEW q \in Procs
        PROVE  /\ task'[q].pc = task[q].pc
               /\ task'[q].snap.status = task[q].snap.status
               /\ task'[q].snap.worker = task[q].snap.worker
    BY <1>6 DEF Tick, TypeOK, Tasks, Rows
  <2>3. OwnerInv'
    BY <1>0, <2>1, <2>2 DEF OwnerInv, OwnerTask
  <2> QED
    BY <1>s, <2>1, <2>3
<1>7. CASE UNCHANGED vars
  <2>1. OwnerInv'
    BY <1>7 DEF vars, OwnerInv, OwnerTask
  <2> QED
    BY <1>s, <1>7, <2>1 DEF vars
<1> QED
  BY <1>1, <1>2, <1>3, <1>4, <1>5, <1>6, <1>7, OwnerWorkerStep DEF Next, OperatorStep

\* When workers alone execute runs, the executor, the leases and the conditional
\* updates implement the life cycle of RunLifecycle, for any number of workers,
\* attempts and outages: only the current owner moves a run on, and it lets go only
\* of a run that is over.
THEOREM LifecycleImplemented ==
    ASSUME WorkersOnly PROVE Spec => FollowsLifecycle
<1>1. Init => Lifecycle!Init /\ OwnerInv
  <2> SUFFICES ASSUME Init PROVE Lifecycle!Init /\ OwnerInv
    OBVIOUS
  <2>1. \A p \in Procs : task[p].pc = "idle"
    BY FencedInit DEF FencingInv, WorkersOnly, Init, IdleTask
  <2>2. run.status = "QUEUED" /\ run.worker = NoWorker
    BY DEF Init, QueuedRow
  <2> QED
    BY <2>1, <2>2, Phases DEF Lifecycle!Init, OwnerInv, OwnerTask, Procs
<1>2. TypeOK /\ BudgetInv /\ FencingInv /\ OwnerInv /\ [Next]_vars
      => OwnerInv' /\ [Lifecycle!Next]_(Lifecycle!vars)
  BY OwnerStep DEF LifeStep
<1> QED
  BY <1>1, <1>2, TypeAndBudget, Fenced, PTL DEF Spec, FollowsLifecycle, Lifecycle!Spec
=============================================================================
