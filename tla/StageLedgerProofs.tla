-------------------------- MODULE StageLedgerProofs --------------------------
(***************************************************************************)
(* Theorems about StageLedger, for any number of overlapping executions,   *)
(* any attempt budget and any inputs, outputs and checkpoints.             *)
(***************************************************************************)
EXTENDS StageLedger, TLAPS

(***************************************************************************)
(* Type correctness.                                                       *)
(***************************************************************************)

\* The blank execution is well typed.
LEMMA IdleType == IdleExecution \in Executions
BY DEF IdleExecution, Executions, PCs

\* What every row that the actions write is made of.
LEMMA Members ==
    /\ StageStatuses \cup {"PENDING", "RUNNING", "SUCCEEDED", "FAILED", "CANCELED",
                           "OUTCOME_UNKNOWN"} = StageStatuses
    /\ PCs \cup {"idle", "start", "begin", "step", "op", "tool", "claim", "mark", "invoke",
                 "sent", "commit", "after", "done"} = PCs
BY DEF StageStatuses, PCs

\* Moving or ending one execution keeps every execution well typed.
LEMMA ExecutionMoves ==
    ASSUME TypeOK, NEW p \in Executors, NEW pc \in PCs
    PROVE  /\ Goto(p, pc) => ex' \in [Executors -> Executions]
           /\ Over(p) => ex' \in [Executors -> Executions]
<1>1. ex[p] \in Executions
  BY DEF TypeOK
<1>2. [ex[p] EXCEPT !.pc = pc] \in Executions
  BY <1>1 DEF Executions
<1> QED
  BY <1>2, IdleType DEF TypeOK, Goto, Over

\* Marking the stage, or giving up on it, keeps the types.
LEMMA MarkType ==
    ASSUME TypeOK, NEW p \in Executors, NEW status \in StageStatuses
    PROVE  Mark(p, status) => stage' \in StageRows
BY DEF TypeOK, Mark, StageRows

\* Every step preserves the types.
LEMMA TypeStep == TypeOK /\ [Next]_vars => TypeOK'
<1> SUFFICES ASSUME TypeOK, [Next]_vars PROVE TypeOK'
  OBVIOUS
<1>0. stage \in StageRows /\ tool \in ToolRows /\ \A p \in Executors : ex[p] \in Executions
  BY DEF TypeOK
<1>1. ASSUME NEW p \in Executors, StopCancelled(p) \/ StopUnknown(p)
      PROVE  stage' \in StageRows /\ ex' \in [Executors -> Executions]
  BY <1>1, Members, MarkType, ExecutionMoves DEF StopCancelled, StopUnknown
<1>2. ASSUME NEW p \in Executors, StageStep(p) PROVE TypeOK'
  <2>1. CASE ClaimRun(p)
    BY <2>1, Members, ExecutionMoves DEF ClaimRun, TypeOK
  <2>2. ASSUME NEW i \in Inputs, EnterStage(p, i) PROVE TypeOK'
    <3>1. stage' \in StageRows
      <4>1. [stage EXCEPT !.status = "PENDING", !.input = i] \in StageRows
        BY <1>0, Members DEF StageRows
      <4> QED
        BY <1>0, <2>2, <4>1 DEF EnterStage
    <3>2. [ex[p] EXCEPT !.pc = "done", !.input = i, !.out = stage'.output] \in Executions
      BY <1>0, <3>1, Members DEF Executions, StageRows
    <3>3. [ex[p] EXCEPT !.pc = "begin", !.input = i] \in Executions
      BY <1>0, Members DEF Executions
    <3> QED
      BY <2>2, <3>1, <3>2, <3>3, IdleType DEF EnterStage, TypeOK
  <2>3. CASE EnterCancelled(p)
    BY <2>3, Members, ExecutionMoves DEF EnterCancelled, TypeOK
  <2>4. CASE BeginAttempt(p)
    <3>1. CASE \/ stage.status = "RUNNING"
               \/ stage.status \in {"PENDING", "FAILED"} /\ stage.attempts < MaxAttempts
      <4> DEFINE n == IF stage.status = "RUNNING" THEN stage.attempts ELSE stage.attempts + 1
      <4>1. n \in 0..MaxAttempts
        BY <1>0, <3>1, ExecutorAssumption DEF StageRows
      <4>2. stage' = [stage EXCEPT !.status = "RUNNING", !.owner = p, !.attempts = n]
        BY <2>4, <3>1 DEF BeginAttempt
      <4> HIDE DEF n
      <4>3. stage' \in StageRows
        BY <1>0, <4>1, <4>2, Members DEF StageRows
      <4>4. [ex[p] EXCEPT !.pc = "step", !.checkpoint = stage.checkpoint] \in Executions
        BY <1>0, Members DEF Executions, StageRows
      <4> QED
        BY <2>4, <3>1, <4>3, <4>4 DEF BeginAttempt, TypeOK
    <3>2. CASE ~(\/ stage.status = "RUNNING"
                 \/ stage.status \in {"PENDING", "FAILED"} /\ stage.attempts < MaxAttempts)
      BY <2>4, <3>2, Members, ExecutionMoves DEF BeginAttempt, TypeOK
    <3> QED
      BY <3>1, <3>2
  <2>5. CASE SetCurrentStep(p)
    BY <2>5, Members, ExecutionMoves DEF SetCurrentStep, TypeOK
  <2>6. CASE OperationFails(p)
    BY <2>6, Members, MarkType, ExecutionMoves DEF OperationFails, TypeOK
  <2>7. CASE LeaveStage(p)
    BY <2>7, Members, ExecutionMoves DEF LeaveStage, TypeOK
  <2>8. ASSUME NEW c \in Checkpoints, SaveCheckpoint(p, c) PROVE TypeOK'
    <3>1. [stage EXCEPT !.checkpoint = c] \in StageRows
      BY <1>0 DEF StageRows
    <3>2. [ex[p] EXCEPT !.checkpoint = c] \in Executions
      BY <1>0 DEF Executions
    <3> QED
      BY <1>1, <2>8, <3>1, <3>2, Members, ExecutionMoves DEF SaveCheckpoint, TypeOK
  <2>9. ASSUME NEW o \in Outputs, OperationSucceeds(p, o) PROVE TypeOK'
    <3>1. [stage EXCEPT !.status = "SUCCEEDED", !.output = o, !.checkpoint = None] \in StageRows
      BY <1>0, Members DEF StageRows
    <3>2. [ex[p] EXCEPT !.pc = "done", !.out = o] \in Executions
      BY <1>0, Members DEF Executions
    <3> QED
      BY <1>1, <2>9, <3>1, <3>2, Members, ExecutionMoves DEF OperationSucceeds, TypeOK
  <2> QED
    BY <1>2, <2>1, <2>2, <2>3, <2>4, <2>5, <2>6, <2>7, <2>8, <2>9 DEF StageStep
<1>3. ASSUME NEW p \in Executors, ToolStep(p) PROVE TypeOK'
  <2>0. [ex[p] EXCEPT !.pc = "op", !.answered = TRUE] \in Executions
    BY <1>0, Members DEF Executions
  <2>1. CASE CallTool(p)
    BY <1>1, <2>1, Members, ExecutionMoves DEF CallTool, TypeOK
  <2>2. CASE PrepareSideEffect(p)
    <3>1. [tool EXCEPT !.status = "PENDING"] \in ToolRows
      BY <1>0, Members DEF ToolRows
    <3> QED
      BY <1>1, <2>0, <2>2, <3>1, Members, ExecutionMoves DEF PrepareSideEffect, TypeOK
  <2>3. CASE ClaimSideEffect(p)
    <3>1. [tool EXCEPT !.status = "RUNNING", !.attempts = 1, !.owner = p] \in ToolRows
      BY <1>0, Members DEF ToolRows
    <3> QED
      BY <1>1, <2>3, <3>1, Members, ExecutionMoves DEF ClaimSideEffect, TypeOK
  <2>4. CASE DispatchSideEffect(p)
    <3>1. [tool EXCEPT !.status = "OUTCOME_UNKNOWN"] \in ToolRows
      BY <1>0, Members DEF ToolRows
    <3> QED
      BY <1>1, <2>4, <3>1, Members, ExecutionMoves DEF DispatchSideEffect, TypeOK
  <2>5. CASE Invoke(p)
    BY <2>5, Members, ExecutionMoves DEF Invoke, TypeOK
  <2>6. CASE ToolRaises(p)
    BY <1>1, <2>6 DEF ToolRaises, TypeOK
  <2>7. CASE ResponseReturned(p)
    <3>1. [tool EXCEPT !.returned = TRUE] \in ToolRows
      BY <1>0 DEF ToolRows
    <3> QED
      BY <1>1, <2>7, <3>1, Members, ExecutionMoves DEF ResponseReturned, TypeOK
  <2>8. CASE ResponseCommitted(p)
    <3>1. [tool EXCEPT !.status = "SUCCEEDED", !.returned = FALSE] \in ToolRows
      BY <1>0, Members DEF ToolRows
    <3> QED
      BY <1>1, <2>8, <3>1, Members, ExecutionMoves DEF ResponseCommitted, TypeOK
  <2>9. CASE ToolReturns(p)
    BY <2>0, <2>9 DEF ToolReturns, TypeOK
  <2> QED
    BY <1>3, <2>1, <2>2, <2>3, <2>4, <2>5, <2>6, <2>7, <2>8, <2>9 DEF ToolStep
<1>4. ASSUME NEW p \in Executors, Lost(p) PROVE TypeOK'
  BY <1>4, Members, ExecutionMoves DEF Lost, TypeOK
<1>5. ASSUME NEW p \in Executors, Shutdown(p) PROVE TypeOK'
  <2>1. [ex[p] EXCEPT !.event = TRUE] \in Executions
    BY <1>0 DEF Executions
  <2> QED
    BY <1>5, <2>1 DEF Shutdown, TypeOK
<1>6. CASE Cancel
  BY <1>6 DEF Cancel, TypeOK
<1>7. CASE Retry
  <2>1. ResetFailed(stage) \in StageRows
    <3>1. 0 \in 0..MaxAttempts
      BY ExecutorAssumption
    <3>2. [stage EXCEPT !.status = "PENDING", !.attempts = 0, !.owner = None] \in StageRows
      BY <1>0, <3>1, Members DEF StageRows
    <3> QED
      BY <1>0, <3>2 DEF ResetFailed
  <2>2. ResetFailed(tool) \in ToolRows
    BY <1>0, Members DEF ResetFailed, ToolRows
  <2> QED
    BY <1>7, <2>1, <2>2 DEF Retry, TypeOK
<1>8. CASE UNCHANGED vars
  BY <1>8 DEF vars, TypeOK
<1> QED
  BY <1>2, <1>3, <1>4, <1>5, <1>6, <1>7, <1>8 DEF Next

\* The initial state is well typed.
LEMMA TypeInit == Init => TypeOK
<1> SUFFICES ASSUME Init PROVE TypeOK
  OBVIOUS
<1>1. stage \in StageRows
  BY ExecutorAssumption DEF Init, StageRows
<1>2. tool \in ToolRows
  BY DEF Init, ToolRows
<1> QED
  BY <1>1, <1>2, IdleType DEF Init, TypeOK

\* Every reachable state is well typed; the stage's attempts stay within its
\* budget however often it is superseded, interrupted and retried.
THEOREM TypeCorrect == Spec => []TypeOK
BY TypeInit, TypeStep, PTL DEF Spec

(***************************************************************************)
(* At most one effect.  The operation's row is a one-way latch: PENDING is *)
(* left by exactly one claim, whose execution alone may reach the endpoint,*)
(* and nothing brings the row back, because it is never FAILED, the only   *)
(* status reset_failed_for_run resets.                                     *)
(***************************************************************************)

\* The pcs of the execution that won the claim.
Claimed == {"mark", "invoke", "sent", "commit", "after"}

CallInv(p) ==
    /\ ex[p].pc \in Claimed => tool.owner = p /\ tool.status \notin {"ABSENT", "PENDING"}
    /\ ex[p].pc \in {"mark", "invoke"} => effects = 0 /\ ~tool.returned
    /\ ex[p].pc = "mark" => tool.status = "RUNNING"
    /\ ex[p].pc \in {"sent", "commit", "after"} => effects = 1
    /\ ex[p].answered => effects = 1

ToolInv ==
    /\ effects \in {0, 1}
    /\ tool.status \notin {"FAILED", "CANCELED"}
    /\ tool.status \in {"ABSENT", "PENDING"} => effects = 0 /\ ~tool.returned
    /\ tool.status = "SUCCEEDED" \/ tool.returned => effects = 1
    /\ \A p \in Executors : CallInv(p)

\* An execution that ends, or goes on outside the claimed pcs without a new
\* answer, disturbs nothing.
LEMMA UnclaimedMove ==
    ASSUME TypeOK, ToolInv, NEW p \in Executors, NEW t,
           ex' = [ex EXCEPT ![p] = t],
           t.pc \notin Claimed, t.answered => ex[p].answered,
           UNCHANGED <<tool, effects>>
    PROVE  ToolInv'
<1>1. ex'[p] = t /\ \A q \in Executors : q # p => ex'[q] = ex[q]
  BY DEF TypeOK
<1>2. ASSUME NEW q \in Executors PROVE CallInv(q)'
  BY <1>1 DEF ToolInv, CallInv, Claimed
<1> QED
  BY <1>2 DEF ToolInv

\* The same for a step that ends the execution.
LEMMA UnclaimedOver ==
    ASSUME TypeOK, ToolInv, NEW p \in Executors, Over(p), UNCHANGED <<tool, effects>>
    PROVE  ToolInv'
<1>1. IdleExecution.pc \notin Claimed /\ ~IdleExecution.answered
  BY DEF IdleExecution, Claimed
<1> QED
  BY <1>1, UnclaimedMove DEF Over

\* A step of the execution that holds the claim: no other execution is at a
\* claimed pc, so only its own part of the invariant is to be shown.
LEMMA ClaimedMove ==
    ASSUME TypeOK, ToolInv, NEW p \in Executors, NEW t,
           ex' = [ex EXCEPT ![p] = t], t.answered => ex[p].answered,
           ex[p].pc \in Claimed \/ tool.status = "PENDING",
           effects' \in {effects, 1}, effects' \in {0, 1},
           tool'.owner = p,
           tool'.status \in {"RUNNING", "OUTCOME_UNKNOWN", "SUCCEEDED"},
           tool'.status = "SUCCEEDED" \/ tool'.returned => effects' = 1,
           t.pc \in {"mark", "invoke"} => effects' = 0 /\ ~tool'.returned,
           t.pc = "mark" => tool'.status = "RUNNING",
           t.pc \in {"sent", "commit", "after"} => effects' = 1
    PROVE  ToolInv'
<1>1. ex'[p] = t /\ \A q \in Executors : q # p => ex'[q] = ex[q]
  BY DEF TypeOK
<1>2. ASSUME NEW q \in Executors, q # p PROVE ex[q].pc \notin Claimed
  BY <1>2 DEF ToolInv, CallInv
<1>3. \A q \in Executors : ex[q].answered => effects' = 1
  BY DEF ToolInv, CallInv
<1>4. ASSUME NEW q \in Executors PROVE CallInv(q)'
  BY <1>1, <1>2, <1>3 DEF CallInv, Claimed
<1> QED
  BY <1>4 DEF ToolInv

\* Every step preserves the latch.
LEMMA ToolInvStep == TypeOK /\ ToolInv /\ [Next]_vars => ToolInv'
<1> SUFFICES ASSUME TypeOK, ToolInv, [Next]_vars PROVE ToolInv'
  OBVIOUS
<1>0. tool \in ToolRows /\ \A p \in Executors : ex[p] \in Executions /\ CallInv(p)
  BY DEF TypeOK, ToolInv
<1>1. ASSUME NEW p \in Executors, NEW pc \in PCs \ Claimed,
             Goto(p, pc), UNCHANGED <<tool, effects>>
      PROVE  ToolInv'
  <2> DEFINE t == [ex[p] EXCEPT !.pc = pc]
  <2>1. t.pc = pc /\ t.answered = ex[p].answered
    BY <1>0 DEF Executions
  <2>2. ex' = [ex EXCEPT ![p] = t]
    BY <1>1 DEF Goto
  <2> HIDE DEF t
  <2> QED
    BY <1>1, <2>1, <2>2, UnclaimedMove
<1>2. /\ "start" \in PCs \ Claimed /\ "begin" \in PCs \ Claimed /\ "op" \in PCs \ Claimed
      /\ "tool" \in PCs \ Claimed /\ "claim" \in PCs \ Claimed
  BY DEF PCs, Claimed
<1>3. ASSUME NEW p \in Executors, StageStep(p) PROVE ToolInv'
  <2>0. UNCHANGED <<tool, effects>>
    BY <1>3 DEF StageStep, ClaimRun, EnterStage, EnterCancelled, BeginAttempt, SetCurrentStep,
                OperationFails, LeaveStage, SaveCheckpoint, OperationSucceeds
  <2> DEFINE Moves == \/ Over(p) \/ Goto(p, "start") \/ Goto(p, "op")
                      \/ \E t : /\ ex' = [ex EXCEPT ![p] = t]
                               /\ t.pc \notin Claimed /\ (t.answered => ex[p].answered)
  <2>1. Moves
    <3>1. CASE ClaimRun(p) \/ EnterCancelled(p) \/ SetCurrentStep(p)
               \/ OperationFails(p) \/ LeaveStage(p)
      BY <3>1 DEF ClaimRun, EnterCancelled, SetCurrentStep, OperationFails, LeaveStage
    <3>2. ASSUME NEW i \in Inputs, EnterStage(p, i) PROVE Moves
      <4> DEFINE d == [ex[p] EXCEPT !.pc = "done", !.input = i, !.out = stage'.output]
                 b == [ex[p] EXCEPT !.pc = "begin", !.input = i]
      <4>1. /\ d.pc = "done" /\ d.answered = ex[p].answered
            /\ b.pc = "begin" /\ b.answered = ex[p].answered
        BY <1>0 DEF Executions
      <4>2. \/ Over(p) \/ ex' = [ex EXCEPT ![p] = d] \/ ex' = [ex EXCEPT ![p] = b]
        BY <3>2 DEF EnterStage, Over
      <4> HIDE DEF d, b
      <4> QED
        BY <4>1, <4>2 DEF Claimed
    <3>3. CASE BeginAttempt(p)
      <4> DEFINE b == [ex[p] EXCEPT !.pc = "step", !.checkpoint = stage.checkpoint]
      <4>1. b.pc = "step" /\ b.answered = ex[p].answered
        BY <1>0 DEF Executions
      <4>2. Over(p) \/ ex' = [ex EXCEPT ![p] = b]
        BY <3>3 DEF BeginAttempt
      <4> HIDE DEF b
      <4> QED
        BY <4>1, <4>2 DEF Claimed
    <3>4. ASSUME NEW c \in Checkpoints, SaveCheckpoint(p, c) PROVE Moves
      <4> DEFINE b == [ex[p] EXCEPT !.checkpoint = c]
      <4>1. b.pc = "op" /\ b.answered = ex[p].answered
        BY <1>0, <3>4 DEF Executions, SaveCheckpoint
      <4>2. Over(p) \/ ex' = [ex EXCEPT ![p] = b]
        BY <3>4 DEF SaveCheckpoint, StopCancelled
      <4> HIDE DEF b
      <4> QED
        BY <4>1, <4>2 DEF Claimed
    <3>5. ASSUME NEW o \in Outputs, OperationSucceeds(p, o) PROVE Moves
      <4> DEFINE b == [ex[p] EXCEPT !.pc = "done", !.out = o]
      <4>1. b.pc = "done" /\ b.answered = ex[p].answered
        BY <1>0 DEF Executions
      <4>2. Over(p) \/ ex' = [ex EXCEPT ![p] = b]
        BY <3>5 DEF OperationSucceeds, StopCancelled
      <4> HIDE DEF b
      <4> QED
        BY <4>1, <4>2 DEF Claimed
    <3> QED
      BY <1>3, <3>1, <3>2, <3>3, <3>4, <3>5 DEF StageStep
  <2> QED
    BY <1>1, <1>2, <2>0, <2>1, UnclaimedOver, UnclaimedMove
<1>4. ASSUME NEW p \in Executors, ToolStep(p) PROVE ToolInv'
  <2>f. ASSUME StopUnknown(p) \/ StopCancelled(p), UNCHANGED <<tool, effects>> PROVE ToolInv'
    BY <2>f, UnclaimedOver DEF StopUnknown, StopCancelled
  <2>1. CASE CallTool(p)
    BY <1>1, <1>2, <2>f, <2>1 DEF CallTool
  <2>2. CASE PrepareSideEffect(p)
    <3>1. CASE tool.status = "ABSENT"
      <4> DEFINE t == [ex[p] EXCEPT !.pc = "claim"]
      <4>1. /\ tool'.status = "PENDING" /\ tool'.returned = tool.returned
            /\ UNCHANGED effects
        BY <1>0, <2>2, <3>1 DEF PrepareSideEffect, ToolRows
      <4>2. t.pc = "claim" /\ t.answered = ex[p].answered
        BY <1>0 DEF Executions
      <4>3. ex' = [ex EXCEPT ![p] = t]
        BY <2>2, <4>1 DEF PrepareSideEffect, Goto
      <4> HIDE DEF t
      <4>4. ex'[p] = t /\ \A q \in Executors : q # p => ex'[q] = ex[q]
        BY <4>3 DEF TypeOK
      <4>5. \A q \in Executors : ex[q].pc \notin Claimed
        BY <3>1 DEF ToolInv, CallInv
      <4>6. ASSUME NEW q \in Executors PROVE CallInv(q)'
        BY <1>0, <4>1, <4>2, <4>4, <4>5 DEF CallInv, Claimed
      <4> QED
        BY <3>1, <4>1, <4>6 DEF ToolInv
    <3>2. CASE tool.status = "SUCCEEDED"
      <4> DEFINE t == [ex[p] EXCEPT !.pc = "op", !.answered = TRUE]
      <4>1. UNCHANGED <<tool, effects>>
        BY <2>2, <3>2 DEF PrepareSideEffect
      <4>2. t.pc = "op"
        BY <1>0 DEF Executions
      <4>3. ex' = [ex EXCEPT ![p] = t]
        BY <2>2, <3>2, <4>1 DEF PrepareSideEffect
      <4> HIDE DEF t
      <4>4. ex'[p] = t /\ \A q \in Executors : q # p => ex'[q] = ex[q]
        BY <4>3 DEF TypeOK
      <4>5. effects = 1
        BY <3>2 DEF ToolInv
      <4>6. ASSUME NEW q \in Executors PROVE CallInv(q)'
        BY <1>0, <4>1, <4>2, <4>4, <4>5 DEF CallInv, Claimed
      <4> QED
        BY <4>1, <4>6 DEF ToolInv
    <3>3. CASE tool.status \notin {"ABSENT", "SUCCEEDED"}
      BY <1>1, <1>2, <2>f, <2>2, <3>3 DEF PrepareSideEffect
    <3> QED
      BY <3>1, <3>2, <3>3
  <2>3. CASE ClaimSideEffect(p)
    <3>1. CASE tool.status = "PENDING" /\ tool.attempts = 0
      <4> DEFINE t == [ex[p] EXCEPT !.pc = "mark"]
      <4>1. t.pc = "mark" /\ t.answered = ex[p].answered
        BY <1>0 DEF Executions
      <4>2. /\ tool'.status = "RUNNING" /\ tool'.owner = p /\ tool'.returned = tool.returned
            /\ effects' = effects
        BY <1>0, <2>3, <3>1 DEF ClaimSideEffect, ToolRows
      <4>3. ex' = [ex EXCEPT ![p] = t]
        BY <2>3, <3>1 DEF ClaimSideEffect, Goto
      <4>4. effects = 0 /\ ~tool.returned
        BY <3>1 DEF ToolInv
      <4> HIDE DEF t
      <4> QED
        BY <3>1, <4>1, <4>2, <4>3, <4>4, ClaimedMove
    <3>2. CASE ~(tool.status = "PENDING" /\ tool.attempts = 0)
      BY <2>f, <2>3, <3>2 DEF ClaimSideEffect
    <3> QED
      BY <3>1, <3>2
  <2>4. CASE DispatchSideEffect(p)
    <3>1. CASE tool.status = "RUNNING" /\ tool.owner = p
      <4> DEFINE t == [ex[p] EXCEPT !.pc = "invoke"]
      <4>1. t.pc = "invoke" /\ t.answered = ex[p].answered
        BY <1>0 DEF Executions
      <4>2. /\ tool'.status = "OUTCOME_UNKNOWN" /\ tool'.owner = p
            /\ tool'.returned = tool.returned /\ effects' = effects
        BY <1>0, <2>4, <3>1 DEF DispatchSideEffect, ToolRows
      <4>3. ex' = [ex EXCEPT ![p] = t] /\ ex[p].pc = "mark"
        BY <2>4, <3>1 DEF DispatchSideEffect, Goto
      <4>4. effects = 0 /\ ~tool.returned
        BY <1>0, <4>3 DEF CallInv
      <4> HIDE DEF t
      <4> QED
        BY <4>1, <4>2, <4>3, <4>4, ClaimedMove DEF Claimed
    <3>2. CASE ~(tool.status = "RUNNING" /\ tool.owner = p)
      BY <2>f, <2>4, <3>2 DEF DispatchSideEffect
    <3> QED
      BY <3>1, <3>2
  <2>5. CASE Invoke(p)
    <3> DEFINE t == [ex[p] EXCEPT !.pc = "sent"]
    <3>1. t.pc = "sent" /\ t.answered = ex[p].answered
      BY <1>0 DEF Executions
    <3>2. ex' = [ex EXCEPT ![p] = t] /\ ex[p].pc = "invoke" /\ UNCHANGED tool
      BY <2>5 DEF Invoke, Goto
    <3>3. effects = 0 /\ tool.owner = p /\ tool.status \notin {"ABSENT", "PENDING"}
      BY <1>0, <3>2 DEF CallInv, Claimed
    <3>4. effects' = 1
      BY <2>5, <3>3 DEF Invoke
    <3>5. tool.status \in {"RUNNING", "OUTCOME_UNKNOWN", "SUCCEEDED"}
      BY <1>0, <3>3 DEF ToolInv, ToolRows, StageStatuses
    <3> HIDE DEF t
    <3> QED
      BY <3>1, <3>2, <3>3, <3>4, <3>5, ClaimedMove DEF Claimed
  <2>6. CASE ToolRaises(p)
    BY <2>f, <2>6 DEF ToolRaises
  <2>7. CASE ResponseReturned(p)
    <3>1. CASE tool.status = "OUTCOME_UNKNOWN" /\ tool.owner = p
      <4> DEFINE t == [ex[p] EXCEPT !.pc = "commit"]
      <4>1. t.pc = "commit" /\ t.answered = ex[p].answered
        BY <1>0 DEF Executions
      <4>2. tool'.status = "OUTCOME_UNKNOWN" /\ tool'.owner = p /\ effects' = effects
        BY <1>0, <2>7, <3>1 DEF ResponseReturned, ToolRows
      <4>3. ex' = [ex EXCEPT ![p] = t] /\ ex[p].pc = "sent"
        BY <2>7, <3>1 DEF ResponseReturned, Goto
      <4>4. effects = 1
        BY <1>0, <4>3 DEF CallInv
      <4> HIDE DEF t
      <4> QED
        BY <4>1, <4>2, <4>3, <4>4, ClaimedMove DEF Claimed
    <3>2. CASE ~(tool.status = "OUTCOME_UNKNOWN" /\ tool.owner = p)
      BY <2>f, <2>7, <3>2 DEF ResponseReturned
    <3> QED
      BY <3>1, <3>2
  <2>8. CASE ResponseCommitted(p)
    <3> DEFINE match == /\ tool.owner = p
                        /\ tool.status = "RUNNING" \/ (tool.status = "OUTCOME_UNKNOWN" /\ tool.returned)
    <3>1. CASE match
      <4> DEFINE t == [ex[p] EXCEPT !.pc = "after"]
      <4>1. t.pc = "after" /\ t.answered = ex[p].answered
        BY <1>0 DEF Executions
      <4>2. tool'.status = "SUCCEEDED" /\ tool'.owner = p /\ effects' = effects
        BY <1>0, <2>8, <3>1 DEF ResponseCommitted, ToolRows
      <4>3. ex' = [ex EXCEPT ![p] = t] /\ ex[p].pc = "commit"
        BY <2>8, <3>1 DEF ResponseCommitted, Goto
      <4>4. effects = 1
        BY <1>0, <4>3 DEF CallInv
      <4> HIDE DEF t
      <4> QED
        BY <4>1, <4>2, <4>3, <4>4, ClaimedMove DEF Claimed
    <3>2. CASE ~match
      BY <2>f, <2>8, <3>2 DEF ResponseCommitted
    <3> QED
      BY <3>1, <3>2
  <2>9. CASE ToolReturns(p)
    <3> DEFINE t == [ex[p] EXCEPT !.pc = "op", !.answered = TRUE]
    <3>1. t.pc = "op"
      BY <1>0 DEF Executions
    <3>2. ex' = [ex EXCEPT ![p] = t] /\ ex[p].pc = "after" /\ UNCHANGED <<tool, effects>>
      BY <2>9 DEF ToolReturns
    <3> HIDE DEF t
    <3>3. ex'[p] = t /\ \A q \in Executors : q # p => ex'[q] = ex[q]
      BY <3>2 DEF TypeOK
    <3>4. effects = 1
      BY <1>0, <3>2 DEF CallInv
    <3>5. ASSUME NEW q \in Executors PROVE CallInv(q)'
      BY <1>0, <3>1, <3>2, <3>3, <3>4 DEF CallInv, Claimed
    <3> QED
      BY <3>2, <3>5 DEF ToolInv
  <2> QED
    BY <1>4, <2>1, <2>2, <2>3, <2>4, <2>5, <2>6, <2>7, <2>8, <2>9 DEF ToolStep
<1>5. ASSUME NEW p \in Executors, Lost(p) PROVE ToolInv'
  BY <1>5, UnclaimedOver DEF Lost
<1>6. ASSUME NEW p \in Executors, Shutdown(p) PROVE ToolInv'
  <2> DEFINE t == [ex[p] EXCEPT !.event = TRUE]
  <2>1. t.pc = ex[p].pc /\ t.answered = ex[p].answered
    BY <1>0 DEF Executions
  <2>2. ex' = [ex EXCEPT ![p] = t] /\ UNCHANGED <<tool, effects>>
    BY <1>6 DEF Shutdown
  <2> HIDE DEF t
  <2>3. ex'[p] = t /\ \A q \in Executors : q # p => ex'[q] = ex[q]
    BY <2>2 DEF TypeOK
  <2>4. ASSUME NEW q \in Executors PROVE CallInv(q)'
    BY <1>0, <2>1, <2>2, <2>3 DEF CallInv
  <2> QED
    BY <2>2, <2>4 DEF ToolInv
<1>7. CASE Cancel \/ Retry \/ UNCHANGED vars
  <2>1. UNCHANGED <<tool, ex, effects>>
    BY <1>7 DEF Cancel, Retry, ResetFailed, ToolInv, vars
  <2> QED
    BY <2>1 DEF ToolInv, CallInv
<1> QED
  BY <1>3, <1>4, <1>5, <1>6, <1>7 DEF Next

\* The initial state satisfies the invariant.
LEMMA ToolInvInit == Init => ToolInv
<1> SUFFICES ASSUME Init PROVE ToolInv
  OBVIOUS
<1>1. IdleExecution.pc = "idle" /\ ~IdleExecution.answered
  BY DEF IdleExecution
<1>2. ASSUME NEW p \in Executors PROVE CallInv(p)
  BY <1>1 DEF Init, CallInv, Claimed
<1>3. tool.status = "ABSENT" /\ ~tool.returned /\ effects = 0
  BY DEF Init
<1> QED
  BY <1>2, <1>3 DEF ToolInv

\* The latch holds in every reachable state.
LEMMA Latched == Spec => []ToolInv
BY ToolInvInit, ToolInvStep, TypeCorrect, PTL DEF Spec

\* However many executions of the run overlap, are lost, retried or shut down,
\* the endpoint of a side-effecting operation is reached at most once.
THEOREM EffectOnce == Spec => []AtMostOneEffect
<1>1. ToolInv => AtMostOneEffect
  BY DEF ToolInv, AtMostOneEffect
<1> QED
  BY <1>1, Latched, PTL

\* A tool output that is on record or was handed to an operation answers a call
\* that the endpoint received.
THEOREM ConfirmedOutput == Spec => []OutputIsConfirmed
<1>1. ToolInv => OutputIsConfirmed
  BY DEF ToolInv, CallInv, OutputIsConfirmed
<1> QED
  BY <1>1, Latched, PTL

(***************************************************************************)
(* The stage's row.  The execution_id fences it: what an execution knows   *)
(* of the row, its input and checkpoint, stays true while it holds the     *)
(* row, and what it returned stays on record.                              *)
(***************************************************************************)
Entered == PCs \ {"idle", "start"}

KnowsRow(t, r, p) ==
    /\ t.pc \in Entered => r.status # "ABSENT" /\ t.input = r.input
    /\ t.pc = "done" => r.status = "SUCCEEDED" /\ t.out = r.output
    /\ r.status = "RUNNING" /\ r.owner = p /\ t.pc \in InOperation \cup {"step"}
       => t.checkpoint = r.checkpoint

RowInv == \A p \in Executors : KnowsRow(ex[p], stage, p)

\* What a step may do to the row: leave it, create it, begin an attempt on it,
\* or change it as its owner or by an operator's retry.
RowChange(p) ==
    \/ stage' = stage
    \/ stage.status = "ABSENT"
    \/ /\ stage.status \in {"PENDING", "RUNNING", "FAILED"} /\ stage'.owner \in {p, None}
       /\ stage'.input = stage.input /\ stage'.status # "ABSENT"

\* If a step changes the row only so, the other executions' knowledge stays true.
LEMMA RowStep ==
    ASSUME TypeOK, RowInv, NEW p \in Executors, NEW t,
           ex' = [ex EXCEPT ![p] = t], RowChange(p), KnowsRow(t, stage', p)
    PROVE  RowInv'
<1>1. ex'[p] = t /\ \A q \in Executors : q # p => ex'[q] = ex[q]
  BY DEF TypeOK
<1>2. ASSUME NEW q \in Executors, q # p PROVE KnowsRow(ex[q], stage', q)
  <2>0. KnowsRow(ex[q], stage, q) /\ q # None
    BY ExecutorAssumption DEF RowInv
  <2>1. CASE stage' = stage
    BY <2>0, <2>1
  <2>2. CASE stage.status = "ABSENT"
    <3>1. ex[q].pc \notin Entered
      BY <2>0, <2>2 DEF KnowsRow
    <3> QED
      BY <3>1 DEF KnowsRow, Entered, InOperation, PCs
  <2>3. CASE /\ stage.status \in {"PENDING", "RUNNING", "FAILED"} /\ stage'.owner \in {p, None}
             /\ stage'.input = stage.input /\ stage'.status # "ABSENT"
    BY <1>2, <2>0, <2>3 DEF KnowsRow
  <2> QED
    BY <2>1, <2>2, <2>3 DEF RowChange
<1> QED
  BY <1>1, <1>2 DEF RowInv

\* An execution that ends knows nothing, so only the change of the row matters.
LEMMA RowOver ==
    ASSUME TypeOK, RowInv, NEW p \in Executors, Over(p), RowChange(p)
    PROVE  RowInv'
<1>1. IdleExecution.pc = "idle"
  BY DEF IdleExecution
<1>2. KnowsRow(IdleExecution, stage', p)
  BY <1>1 DEF KnowsRow, Entered, InOperation
<1> QED
  BY <1>2, RowStep DEF Over

\* Marking the stage is a change by its owner.
LEMMA MarkChange ==
    ASSUME TypeOK, NEW p \in Executors, NEW status \in StageStatuses, Mark(p, status)
    PROVE  RowChange(p)
<1>1. "ABSENT" \notin StageStatuses
  BY DEF StageStatuses
<1>2. CASE Active(p)
  <2>1. /\ stage'.status = status /\ stage'.owner = p /\ stage'.input = stage.input
    BY <1>2 DEF TypeOK, StageRows, Mark, Active
  <2> QED
    BY <1>1, <1>2, <2>1 DEF RowChange, Active
<1>3. CASE ~Active(p)
  BY <1>3 DEF Mark, RowChange
<1> QED
  BY <1>2, <1>3

\* Every step preserves what the executions know of the row.
LEMMA RowInvStep == TypeOK /\ RowInv /\ [Next]_vars => RowInv'
<1> SUFFICES ASSUME TypeOK, RowInv, [Next]_vars PROVE RowInv'
  OBVIOUS
<1>0. /\ stage \in StageRows
      /\ \A p \in Executors : ex[p] \in Executions /\ KnowsRow(ex[p], stage, p)
  BY DEF TypeOK, RowInv
<1>1. ASSUME NEW p \in Executors, StopCancelled(p) \/ StopUnknown(p) PROVE RowInv'
  BY <1>1, Members, MarkChange, RowOver DEF StopCancelled, StopUnknown
<1>2. ASSUME NEW p \in Executors, Over(p), UNCHANGED stage PROVE RowInv'
  BY <1>2, RowOver DEF RowChange
<1>3. ASSUME NEW p \in Executors, NEW t, ex' = [ex EXCEPT ![p] = t], UNCHANGED stage,
             t.input = ex[p].input, t.checkpoint = ex[p].checkpoint,
             \/ t.pc = "start"
             \/ ex[p].pc \in InOperation \cup {"step"} /\ t.pc \in InOperation
             \/ t.pc = ex[p].pc /\ t.out = ex[p].out
      PROVE  RowInv'
  <2>1. KnowsRow(t, stage', p)
    BY <1>0, <1>3 DEF KnowsRow, Entered, InOperation, PCs
  <2> QED
    BY <1>3, <2>1, RowStep DEF RowChange
<1>4. ASSUME NEW p \in Executors, NEW pc \in PCs, Goto(p, pc), UNCHANGED stage,
             \/ pc = "start"
             \/ ex[p].pc \in InOperation \cup {"step"} /\ pc \in InOperation
      PROVE  RowInv'
  <2> DEFINE t == [ex[p] EXCEPT !.pc = pc]
  <2>1. t.pc = pc /\ t.input = ex[p].input /\ t.checkpoint = ex[p].checkpoint
    BY <1>0 DEF Executions
  <2>2. ex' = [ex EXCEPT ![p] = t]
    BY <1>4 DEF Goto
  <2> HIDE DEF t
  <2> QED
    BY <1>3, <1>4, <2>1, <2>2
<1>5. ASSUME NEW p \in Executors, StageStep(p) PROVE RowInv'
  <2>1. CASE ClaimRun(p)
    BY <1>4, <2>1, Members DEF ClaimRun
  <2>2. ASSUME NEW i \in Inputs, EnterStage(p, i) PROVE RowInv'
    <3> DEFINE d == [ex[p] EXCEPT !.pc = "done", !.input = i, !.out = stage'.output]
               b == [ex[p] EXCEPT !.pc = "begin", !.input = i]
    <3>1. d.pc = "done" /\ d.input = i /\ d.out = stage'.output /\ b.pc = "begin" /\ b.input = i
      BY <1>0 DEF Executions
    <3>2. RowChange(p) /\ stage'.status # "ABSENT"
      BY <1>0, <2>2 DEF EnterStage, RowChange, StageRows
    <3>3. \/ Over(p)
          \/ /\ stage'.input = i
             /\ \/ ex' = [ex EXCEPT ![p] = d] /\ stage'.status = "SUCCEEDED"
                \/ ex' = [ex EXCEPT ![p] = b]
      BY <2>2 DEF EnterStage, Over
    <3> HIDE DEF d, b
    <3>4. stage'.input = i => KnowsRow(b, stage', p)
      BY <3>1, <3>2 DEF KnowsRow, InOperation
    <3>5. stage'.input = i /\ stage'.status = "SUCCEEDED" => KnowsRow(d, stage', p)
      BY <3>1, <3>2 DEF KnowsRow, InOperation
    <3> QED
      BY <3>2, <3>3, <3>4, <3>5, RowOver, RowStep
  <2>3. CASE EnterCancelled(p) \/ LeaveStage(p)
    BY <1>2, <2>3 DEF EnterCancelled, LeaveStage
  <2>4. CASE BeginAttempt(p)
    <3> DEFINE ok == \/ stage.status = "RUNNING"
                     \/ stage.status \in {"PENDING", "FAILED"} /\ stage.attempts < MaxAttempts
    <3>1. CASE ok
      <4> DEFINE b == [ex[p] EXCEPT !.pc = "step", !.checkpoint = stage.checkpoint]
                 n == IF stage.status = "RUNNING" THEN stage.attempts ELSE stage.attempts + 1
      <4>1. b.pc = "step" /\ b.input = ex[p].input /\ b.checkpoint = stage.checkpoint
        BY <1>0 DEF Executions
      <4>2. /\ stage' = [stage EXCEPT !.status = "RUNNING", !.owner = p, !.attempts = n]
            /\ ex' = [ex EXCEPT ![p] = b] /\ ex[p].pc = "begin"
        BY <2>4, <3>1 DEF BeginAttempt
      <4> HIDE DEF b, n
      <4>3. /\ stage'.status = "RUNNING" /\ stage'.owner = p
            /\ stage'.input = stage.input /\ stage'.checkpoint = stage.checkpoint
        BY <1>0, <4>2 DEF StageRows
      <4>4. ex[p].input = stage.input
        BY <1>0, <4>2 DEF KnowsRow, Entered, PCs
      <4>5. KnowsRow(b, stage', p)
        BY <4>1, <4>3, <4>4 DEF KnowsRow
      <4>6. RowChange(p)
        BY <3>1, <4>3 DEF RowChange
      <4> QED
        BY <4>2, <4>5, <4>6, RowStep
    <3>2. CASE ~ok
      BY <1>2, <2>4, <3>2 DEF BeginAttempt
    <3> QED
      BY <3>1, <3>2
  <2>5. CASE SetCurrentStep(p)
    BY <1>2, <1>4, <2>5, Members DEF SetCurrentStep, InOperation
  <2>6. CASE OperationFails(p)
    BY <2>6, Members, MarkChange, RowOver DEF OperationFails
  <2>7. ASSUME NEW c \in Checkpoints, SaveCheckpoint(p, c) PROVE RowInv'
    <3>1. CASE ~Cancelled(p) /\ Active(p)
      <4> DEFINE b == [ex[p] EXCEPT !.checkpoint = c]
      <4>1. b.pc = "op" /\ b.input = ex[p].input /\ b.checkpoint = c
        BY <1>0, <2>7 DEF Executions, SaveCheckpoint
      <4>2. /\ stage' = [stage EXCEPT !.checkpoint = c]
            /\ ex' = [ex EXCEPT ![p] = b] /\ ex[p].pc = "op"
        BY <2>7, <3>1 DEF SaveCheckpoint
      <4> HIDE DEF b
      <4>3. /\ stage'.status = "RUNNING" /\ stage'.owner = p
            /\ stage'.input = stage.input /\ stage'.checkpoint = c
        BY <1>0, <3>1, <4>2 DEF StageRows, Active
      <4>4. ex[p].input = stage.input
        BY <1>0, <4>2 DEF KnowsRow, Entered, PCs
      <4>5. KnowsRow(b, stage', p)
        BY <4>1, <4>3, <4>4 DEF KnowsRow
      <4>6. RowChange(p)
        BY <3>1, <4>3 DEF RowChange, Active
      <4> QED
        BY <4>2, <4>5, <4>6, RowStep
    <3>2. CASE ~(~Cancelled(p) /\ Active(p))
      BY <1>1, <1>2, <2>7, <3>2 DEF SaveCheckpoint
    <3> QED
      BY <3>1, <3>2
  <2>8. ASSUME NEW o \in Outputs, OperationSucceeds(p, o) PROVE RowInv'
    <3>1. CASE ~Cancelled(p) /\ Active(p)
      <4> DEFINE b == [ex[p] EXCEPT !.pc = "done", !.out = o]
      <4>1. b.pc = "done" /\ b.input = ex[p].input /\ b.out = o
        BY <1>0, <2>8 DEF Executions, OperationSucceeds
      <4>2. /\ stage' = [stage EXCEPT !.status = "SUCCEEDED", !.output = o, !.checkpoint = None]
            /\ ex' = [ex EXCEPT ![p] = b] /\ ex[p].pc = "op"
        BY <2>8, <3>1 DEF OperationSucceeds
      <4> HIDE DEF b
      <4>3. /\ stage'.status = "SUCCEEDED" /\ stage'.owner = p
            /\ stage'.input = stage.input /\ stage'.output = o
        BY <1>0, <3>1, <4>2 DEF StageRows, Active
      <4>4. ex[p].input = stage.input
        BY <1>0, <4>2 DEF KnowsRow, Entered, PCs
      <4>5. KnowsRow(b, stage', p)
        BY <4>1, <4>3, <4>4 DEF KnowsRow
      <4>6. RowChange(p)
        BY <3>1, <4>3 DEF RowChange, Active
      <4> QED
        BY <4>2, <4>5, <4>6, RowStep
    <3>2. CASE ~(~Cancelled(p) /\ Active(p))
      BY <1>1, <1>2, <2>8, <3>2 DEF OperationSucceeds
    <3> QED
      BY <3>1, <3>2
  <2> QED
    BY <1>5, <2>1, <2>2, <2>3, <2>4, <2>5, <2>6, <2>7, <2>8 DEF StageStep
<1>6. ASSUME NEW p \in Executors, ToolStep(p) PROVE RowInv'
  <2> DEFINE a == [ex[p] EXCEPT !.pc = "op", !.answered = TRUE]
  <2>1. a.pc = "op" /\ a.input = ex[p].input /\ a.checkpoint = ex[p].checkpoint
    BY <1>0 DEF Executions
  <2>2. /\ ex[p].pc \in InOperation
        /\ \/ StopCancelled(p) \/ StopUnknown(p)
           \/ /\ UNCHANGED stage
              /\ \/ \E pc \in InOperation : Goto(p, pc)
                 \/ ex' = [ex EXCEPT ![p] = a]
    BY <1>6 DEF ToolStep, CallTool, PrepareSideEffect, ClaimSideEffect, DispatchSideEffect,
                Invoke, ToolRaises, ResponseReturned, ResponseCommitted, ToolReturns, InOperation
  <2> HIDE DEF a
  <2>3. InOperation \subseteq PCs /\ "op" \in InOperation
    BY DEF InOperation, PCs
  <2> QED
    BY <1>1, <1>3, <1>4, <2>1, <2>2, <2>3
<1>7. ASSUME NEW p \in Executors, Lost(p) PROVE RowInv'
  BY <1>2, <1>7 DEF Lost
<1>8. ASSUME NEW p \in Executors, Shutdown(p) PROVE RowInv'
  <2> DEFINE t == [ex[p] EXCEPT !.event = TRUE]
  <2>1. /\ t.pc = ex[p].pc /\ t.input = ex[p].input /\ t.out = ex[p].out
        /\ t.checkpoint = ex[p].checkpoint
    BY <1>0 DEF Executions
  <2>2. ex' = [ex EXCEPT ![p] = t] /\ UNCHANGED stage
    BY <1>8 DEF Shutdown
  <2> HIDE DEF t
  <2> QED
    BY <1>3, <2>1, <2>2
<1>9. CASE Retry
  <2>1. UNCHANGED ex
    BY <1>9 DEF Retry
  <2>2. \/ stage' = stage
        \/ /\ stage.status = "FAILED" /\ stage'.status = "PENDING"
           /\ stage'.input = stage.input
    BY <1>0, <1>9 DEF Retry, ResetFailed, StageRows
  <2> QED
    BY <1>0, <2>1, <2>2 DEF RowInv, KnowsRow
<1>10. CASE Cancel \/ UNCHANGED vars
  BY <1>10 DEF Cancel, vars, RowInv
<1> QED
  BY <1>5, <1>6, <1>7, <1>8, <1>9, <1>10 DEF Next

\* The initial state satisfies the invariant.
LEMMA RowInvInit == Init => RowInv
<1> SUFFICES ASSUME Init PROVE RowInv
  OBVIOUS
<1>1. IdleExecution.pc = "idle"
  BY DEF IdleExecution
<1> QED
  BY <1>1 DEF Init, RowInv, KnowsRow, Entered, InOperation

\* The invariant holds in every reachable state.
LEMMA RowKnown == Spec => []RowInv
BY RowInvInit, RowInvStep, TypeCorrect, PTL DEF Spec

\* All executions that got through the stage hold the recorded output, for the
\* recorded input, however they overlapped.
THEOREM SameResult == Spec => []OneResult
<1>1. RowInv => OneResult
  BY DEF RowInv, KnowsRow, OneResult, Entered, PCs
<1> QED
  BY <1>1, RowKnown, PTL

\* The execution that holds the stage knows the checkpoint on record.
THEOREM OwnCheckpoint == Spec => []CheckpointIsOwners
<1>1. RowInv => CheckpointIsOwners
  BY DEF RowInv, KnowsRow, CheckpointIsOwners, Active
<1> QED
  BY <1>1, RowKnown, PTL

\* No process, however late, and no operator's retry changes a stage's row once it is
\* SUCCEEDED, CANCELED or OUTCOME_UNKNOWN: every write of the row is fenced by a status
\* before those (begin_attempt, _update_active, reset_failed_for_run).
THEOREM FinalStage == Spec => StageIsFinal
<1> DEFINE final == stage.status \in {"SUCCEEDED", "CANCELED", "OUTCOME_UNKNOWN"}
<1>1. ASSUME final, NEW p \in Executors, NEW status, Mark(p, status) PROVE stage' = stage
  BY <1>1 DEF Mark, Active
<1>2. ASSUME final, NEW p \in Executors, StopCancelled(p) \/ StopUnknown(p) PROVE stage' = stage
  BY <1>1, <1>2 DEF StopCancelled, StopUnknown
<1>3. ASSUME final, NEW p \in Executors, StageStep(p) PROVE stage' = stage
  <2>1. ASSUME NEW i \in Inputs, EnterStage(p, i) PROVE stage' = stage
    BY <1>3, <2>1 DEF EnterStage
  <2>2. CASE BeginAttempt(p)
    BY <1>3, <2>2 DEF BeginAttempt
  <2>3. ASSUME NEW c \in Checkpoints, SaveCheckpoint(p, c) PROVE stage' = stage
    BY <1>2, <1>3, <2>3 DEF SaveCheckpoint, Active
  <2>4. ASSUME NEW o \in Outputs, OperationSucceeds(p, o) PROVE stage' = stage
    BY <1>2, <1>3, <2>4 DEF OperationSucceeds, Active
  <2>5. CASE OperationFails(p)
    BY <1>1, <1>3, <2>5 DEF OperationFails
  <2> QED
    BY <1>3, <2>1, <2>2, <2>3, <2>4, <2>5
       DEF StageStep, ClaimRun, EnterCancelled, SetCurrentStep, LeaveStage
<1>4. ASSUME final, NEW p \in Executors, ToolStep(p) PROVE stage' = stage
  BY <1>2, <1>4 DEF ToolStep, CallTool, PrepareSideEffect, ClaimSideEffect, DispatchSideEffect,
                    Invoke, ToolRaises, ResponseReturned, ResponseCommitted, ToolReturns
<1>5. ASSUME final, Next PROVE stage' = stage
  BY <1>3, <1>4, <1>5 DEF Next, Lost, Shutdown, Cancel, Retry, ResetFailed
<1>6. [Next]_vars => [final => stage' = stage]_vars
  BY <1>5
<1> QED
  BY <1>6, PTL DEF Spec, StageIsFinal
=============================================================================
