--------------------------- MODULE ChildRunsProofs ---------------------------
(***************************************************************************)
(* Theorems about ChildRuns and Submission, for any number of workers and  *)
(* clients, any requests and conversations, any bounds on attempts,        *)
(* crashes and timeouts.                                                   *)
(***************************************************************************)
EXTENDS ChildRuns, TLAPS

(***************************************************************************)
(* Types                                                                   *)
(***************************************************************************)
Owners == Workers \cup {NoWorker}

RunRows == [status : RunStatuses, worker : Owners, attempts : Nat, out : Owners]

SubStates == [at : {"idle", "conv", "insert", "done", "raised"},
              status : Resolutions \cup {"none"}, try : {0, 1, 2}, new : BOOLEAN]

Results == [status : {"none", "SUCCEEDED", "FAILED", "TIMEOUT"}, out : Owners]

ParentStates == [at : {"idle", "stage", "submit", "await", "record", "ending"}, result : Results]

Stages == [status : {"none", "RUNNING", "SUCCEEDED", "CANCELED"}, by : Owners, result : Results]

ChildStates == [pc : {"idle", "admit", "begin", "commit", "agent", "prepare", "backoff"},
                n : Nat, seen : RunStatuses \cup {"none"}]

TypeInv ==
    /\ rows \in [DOMAIN rows -> RunRows]
    /\ spc \in [Submitters -> SubStates]
    /\ \A s \in Submitters : spc[s].at \in {"conv", "insert"} => spc[s].status \in Resolutions
    /\ up \in [Workers -> BOOLEAN]
    /\ ptask \in [Workers -> ParentStates]
    /\ stage \in Stages
    /\ ctask \in [Executors -> ChildStates]

\* The values that tasks, rows and stages start from are well typed.
LEMMA BlankTypes ==
    /\ NoTask \in ChildStates /\ NoTask.pc = "idle"
    /\ NoResult \in Results /\ IdleParent \in ParentStates /\ IdleParent.at = "idle"
    /\ FailedRecord \in ParentStates /\ FailedRecord.at = "record"
    /\ FailedRecord.result.status = "FAILED"
    /\ NotSubmitting \in SubStates /\ NotSubmitting.at = "idle"
    /\ \A status \in Resolutions : NewRow(status) \in RunRows
<1>1. NoTask \in ChildStates /\ NoTask.pc = "idle"
  BY DEF NoTask, ChildStates
<1>2. NoResult \in Results /\ IdleParent \in ParentStates /\ IdleParent.at = "idle"
  BY DEF NoResult, Results, IdleParent, ParentStates, Owners
<1>3. /\ FailedRecord \in ParentStates /\ FailedRecord.at = "record"
      /\ FailedRecord.result.status = "FAILED"
  BY DEF FailedRecord, NoResult, Results, ParentStates, Owners
<1>4. NotSubmitting \in SubStates /\ NotSubmitting.at = "idle"
  BY DEF NotSubmitting, SubStates
<1>5. \A status \in Resolutions : NewRow(status) \in RunRows
  BY DEF NewRow, RunRows, Resolutions, RunStatuses, Owners
<1> QED
  BY <1>1, <1>2, <1>3, <1>4, <1>5

\* Who the executors are, and under which id they write.
LEMMA ExecutorFacts ==
    /\ \A w \in Workers : /\ Inline(w) \in Executors /\ Claimed(w) \in Executors
                          /\ ProcOf(Inline(w)) = w /\ ProcOf(Claimed(w)) = w
                          /\ WorkerIdOf(Inline(w)) = NoWorker /\ WorkerIdOf(Claimed(w)) = w
                          /\ w # NoWorker /\ w \in Submitters
    /\ \A w, u \in Workers : Inline(w) # Claimed(u)
    /\ \A w, u \in Workers : Inline(w) = Inline(u) \/ Claimed(w) = Claimed(u) => w = u
    /\ \A e \in Executors : \E w \in Workers : e = Inline(w) \/ e = Claimed(w)
<1>1. /\ \A w \in Workers : /\ Inline(w) \in Executors /\ Claimed(w) \in Executors
                            /\ ProcOf(Inline(w)) = w /\ ProcOf(Claimed(w)) = w
                            /\ WorkerIdOf(Inline(w)) = NoWorker /\ WorkerIdOf(Claimed(w)) = w
  BY DEF Inline, Claimed, Executors, ProcOf, WorkerIdOf
<1>2. \A w \in Workers : w # NoWorker /\ w \in Submitters
  BY SubmitterAssumption
<1>3. \A w, u \in Workers : Inline(w) # Claimed(u)
  BY DEF Inline, Claimed
<1>4. \A w, u \in Workers : Inline(w) = Inline(u) \/ Claimed(w) = Claimed(u) => w = u
  BY <1>1
<1>5. \A e \in Executors : \E w \in Workers : e = Inline(w) \/ e = Claimed(w)
  BY DEF Inline, Claimed, Executors
<1> QED
  BY <1>1, <1>2, <1>3, <1>4, <1>5

\* What run_child_agent reads from a row is a result, and a success only if the
\* row has one.
LEMMA ResultTypes ==
    ASSUME NEW row \in RunRows
    PROVE  /\ ResultOf(row) \in Results
           /\ ResultOf(row).status = "SUCCEEDED" =>
                row.status \in {"SUCCEEDED", "AGENT_SUCCEEDED"} /\ ResultOf(row).out = row.out
BY DEF ResultOf, Results, RunRows, Owners

(***************************************************************************)
(* The moves that actions are made of                                      *)
(***************************************************************************)
ParentMoves(w, k) == k \in ParentStates /\ ptask' = [ptask EXCEPT ![w] = k]

ChildMoves(e, k) == k \in ChildStates /\ ctask' = [ctask EXCEPT ![e] = k]

RowMoves(r, v) == Stored(r) /\ v \in RunRows /\ rows' = [rows EXCEPT ![r] = v]

\* What moves do, point by point.
LEMMA Pointwise ==
    ASSUME TypeInv
    PROVE  /\ \A w \in Workers : \A k : ParentMoves(w, k) =>
                /\ ptask' \in [Workers -> ParentStates] /\ ptask'[w] = k
                /\ \A u \in Workers : u # w => ptask'[u] = ptask[u]
           /\ \A e \in Executors : \A k : ChildMoves(e, k) =>
                /\ ctask' \in [Executors -> ChildStates] /\ ctask'[e] = k
                /\ \A d \in Executors : d # e => ctask'[d] = ctask[d]
           /\ \A r : \A v : RowMoves(r, v) =>
                /\ rows' \in [DOMAIN rows' -> RunRows] /\ DOMAIN rows' = DOMAIN rows
                /\ rows'[r] = v /\ \A q \in DOMAIN rows : q # r => rows'[q] = rows[q]
<1>1. \A w \in Workers : \A k : ParentMoves(w, k) =>
        /\ ptask' \in [Workers -> ParentStates] /\ ptask'[w] = k
        /\ \A u \in Workers : u # w => ptask'[u] = ptask[u]
  BY DEF TypeInv, ParentMoves
<1>2. \A e \in Executors : \A k : ChildMoves(e, k) =>
        /\ ctask' \in [Executors -> ChildStates] /\ ctask'[e] = k
        /\ \A d \in Executors : d # e => ctask'[d] = ctask[d]
  BY DEF TypeInv, ChildMoves
<1>3. \A r : \A v : RowMoves(r, v) =>
        /\ rows' \in [DOMAIN rows' -> RunRows] /\ DOMAIN rows' = DOMAIN rows
        /\ rows'[r] = v /\ \A q \in DOMAIN rows : q # r => rows'[q] = rows[q]
  BY DEF TypeInv, RowMoves, Stored
<1> QED
  BY <1>1, <1>2, <1>3

\* A submission moves one call of submit and stores at most its own run.
LEMMA SubmitMoves ==
    ASSUME TypeInv, NEW s \in Submitters, NEW r, Submit(s, r)
    PROVE  /\ spc' \in [Submitters -> SubStates]
           /\ \A x \in Submitters : spc'[x].at \in {"conv", "insert"} => spc'[x].status \in Resolutions
           /\ \A x \in Submitters : x # s => spc'[x] = spc[x]
           /\ spc'[s].at = "done" => r \in DOMAIN rows'
           /\ rows' \in [DOMAIN rows' -> RunRows] /\ DOMAIN rows \subseteq DOMAIN rows'
           /\ \A q \in DOMAIN rows : rows'[q] = rows[q]
           /\ \A q \in DOMAIN rows' : q \notin DOMAIN rows =>
                q = r /\ rows'[q].status \in Resolutions /\ rows'[q].worker = NoWorker
<1>0. spc[s] \in SubStates
  BY DEF TypeInv
<1>1. ASSUME NEW k \in SubStates, spc' = [spc EXCEPT ![s] = k], k.at # "done" \/ Stored(r),
             k.at \in {"conv", "insert"} => k.status \in Resolutions, rows' = rows
      PROVE  /\ spc' \in [Submitters -> SubStates]
             /\ \A x \in Submitters : spc'[x].at \in {"conv", "insert"} => spc'[x].status \in Resolutions
             /\ \A x \in Submitters : x # s => spc'[x] = spc[x]
             /\ spc'[s].at = "done" => r \in DOMAIN rows'
             /\ rows' \in [DOMAIN rows' -> RunRows] /\ DOMAIN rows \subseteq DOMAIN rows'
             /\ \A q \in DOMAIN rows : rows'[q] = rows[q]
             /\ \A q \in DOMAIN rows' : q \notin DOMAIN rows =>
                  q = r /\ rows'[q].status \in Resolutions /\ rows'[q].worker = NoWorker
  BY <1>1 DEF TypeInv, Stored
<1>2. CASE SubmitLookup(s, r)
  <2>1. CASE Stored(r) /\ spc' = [spc EXCEPT ![s].at = "done"]
    <3> DEFINE k == [spc[s] EXCEPT !.at = "done"]
    <3>1. k \in SubStates /\ k.at = "done"
      BY <1>0 DEF SubStates
    <3>2. spc' = [spc EXCEPT ![s] = k] /\ rows' = rows
      BY <1>2, <2>1 DEF SubmitLookup
    <3> HIDE DEF k
    <3> QED
      BY <1>1, <2>1, <3>1, <3>2
  <2>2. ASSUME NEW status \in Resolutions,
               spc' = [spc EXCEPT ![s] = [at |-> "conv", status |-> status, try |-> 1, new |-> FALSE]]
        PROVE  \E k \in SubStates : /\ spc' = [spc EXCEPT ![s] = k] /\ k.at # "done"
                                    /\ k.status \in Resolutions
    <3> DEFINE k == [at |-> "conv", status |-> status, try |-> 1, new |-> FALSE]
    <3>1. k \in SubStates /\ k.at # "done" /\ k.status \in Resolutions
      BY DEF SubStates
    <3> QED
      BY <2>2, <3>1
  <2> QED
    BY <1>1, <1>2, <2>1, <2>2 DEF SubmitLookup
<1>3. CASE SubmitReadConversation(s, r)
  <2> DEFINE k == [spc[s] EXCEPT !.at = "insert", !.new = ConvOf[r] # Given /\ ConvOf[r] \notin convs]
  <2>1. k \in SubStates /\ k.at = "insert" /\ k.status = spc[s].status
    BY <1>0 DEF SubStates
  <2>2. spc[s].status \in Resolutions
    BY <1>3 DEF TypeInv, SubmitReadConversation
  <2>3. spc' = [spc EXCEPT ![s] = k] /\ rows' = rows
    BY <1>3 DEF SubmitReadConversation
  <2> HIDE DEF k
  <2> QED
    BY <1>1, <2>1, <2>2, <2>3
<1>4. CASE SubmitInsert(s, r)
  <2>0. spc[s].status \in Resolutions /\ spc[s].at = "insert"
    BY <1>4 DEF TypeInv, SubmitInsert
  <2>1. CASE /\ ~Stored(r)
             /\ rows' = [q \in DOMAIN rows \cup {r} |->
                             IF q = r THEN NewRow(spc[s].status) ELSE rows[q]]
             /\ spc' = [spc EXCEPT ![s].at = "done"]
    <3> DEFINE k == [spc[s] EXCEPT !.at = "done"]
    <3>1. k \in SubStates /\ k.at = "done"
      BY <1>0 DEF SubStates
    <3>2. spc' = [spc EXCEPT ![s] = k]
      BY <2>1
    <3> HIDE DEF k
    <3>3. /\ spc' \in [Submitters -> SubStates]
          /\ \A x \in Submitters : spc'[x].at \in {"conv", "insert"} => spc'[x].status \in Resolutions
          /\ \A x \in Submitters : x # s => spc'[x] = spc[x]
      BY <3>1, <3>2 DEF TypeInv
    <3>4. /\ r \in DOMAIN rows' /\ DOMAIN rows \subseteq DOMAIN rows' /\ DOMAIN rows' = DOMAIN rows \cup {r}
          /\ \A q \in DOMAIN rows : rows'[q] = rows[q]
          /\ rows'[r] = NewRow(spc[s].status)
      BY <2>1 DEF Stored
    <3>5. rows' \in [DOMAIN rows' -> RunRows]
      BY <2>0, <2>1, BlankTypes DEF TypeInv
    <3>6. NewRow(spc[s].status).status \in Resolutions /\ NewRow(spc[s].status).worker = NoWorker
      BY <2>0 DEF NewRow
    <3> QED
      BY <3>3, <3>4, <3>5, <3>6
  <2>2. CASE /\ rows' = rows
             /\ spc' = [spc EXCEPT ![s].at = IF Stored(r) THEN "done"
                                             ELSE IF spc[s].try = 2 THEN "raised" ELSE "conv",
                                   ![s].try = 2]
    <3> DEFINE k == [spc[s] EXCEPT !.at = IF Stored(r) THEN "done"
                                          ELSE IF spc[s].try = 2 THEN "raised" ELSE "conv",
                                   !.try = 2]
    <3>1. k \in SubStates /\ (k.at # "done" \/ Stored(r)) /\ k.status = spc[s].status
      BY <1>0 DEF SubStates
    <3>2. spc' = [spc EXCEPT ![s] = k]
      BY <2>2
    <3> HIDE DEF k
    <3> QED
      BY <1>1, <2>0, <2>2, <3>1, <3>2
  <2> QED
    BY <1>4, <2>1, <2>2 DEF SubmitInsert
<1> QED
  BY <1>2, <1>3, <1>4 DEF Submit
(***************************************************************************)
(* The steps of the child's executor, by what they do to the row           *)
(***************************************************************************)
OnlyParent(w) == \A u \in Workers : u # w => ptask'[u] = ptask[u]

OnlyChild(e) == \A d \in Executors : d # e => ctask'[d] = ctask[d]

OnlyRow(r) == DOMAIN rows' = DOMAIN rows /\ \A q \in DOMAIN rows : q # r => rows'[q] = rows[q]

Looks(e) ==
    /\ rows' = rows /\ ctask'[e].pc \in {"begin", "commit", "idle"}
    /\ ctask[e].pc = "prepare" => ~ Owned(e, {"AGENT_SUCCEEDED"})

Commits(e) ==
    /\ ctask[e].pc = "commit" /\ Owned(e, {ctask[e].seen}) /\ ctask'[e].pc = "agent"
    /\ rows'["child"].status \in {"RUNNING", "RETRYING"}
    /\ rows'["child"].worker = rows["child"].worker

Succeeds(e) ==
    /\ ctask[e].pc = "agent" /\ Owned(e, Executing) /\ ctask'[e].pc = "prepare"
    /\ rows'["child"].status = "AGENT_SUCCEEDED"
    /\ rows'["child"].worker = rows["child"].worker

Settles(e) ==
    /\ ctask[e].pc = "prepare" /\ Owned(e, {"AGENT_SUCCEEDED"}) /\ ctask'[e].pc = "idle"
    /\ rows'["child"].status = "SUCCEEDED" /\ rows'["child"].worker = NoWorker
    /\ rows'["child"].out = rows["child"].out

Fails(e) ==
    /\ ctask[e].pc = "agent" /\ Owned(e, Executing) /\ ctask'[e].pc = "idle"
    /\ rows'["child"].status \in {"FAILED", "TIMEOUT"} /\ rows'["child"].worker = NoWorker

Retries(e) ==
    /\ ctask[e].pc = "agent" /\ Owned(e, Executing) /\ ctask'[e].pc = "backoff"
    /\ rows'["child"].status \in {"FAILED", "TIMEOUT", "RETRYING"}
    /\ rows'["child"].worker = rows["child"].worker

\* the result goes to the parent's task when the inline execution returns
HandsOver(w, e) ==
    IF e = Inline(w) /\ ctask'[e].pc = "idle"
    THEN /\ ptask'[w].at = "record" /\ ptask'[w].result = ResultOf(rows'["child"])
         /\ OnlyParent(w)
    ELSE ptask' = ptask

ChildShape(w, e) ==
    /\ ctask[e].pc # "idle"
    /\ Looks(e) \/ Commits(e) \/ Succeeds(e) \/ Settles(e) \/ Fails(e) \/ Retries(e)
    /\ HandsOver(w, e) /\ OnlyChild(e) /\ OnlyRow("child")
    /\ UNCHANGED <<spc, up, stage>>

\* An execution returns: to the parent's task, or to the worker's loop.
LEMMA ReturnMoves ==
    ASSUME TypeInv, NEW w \in Workers, NEW e \in {Inline(w), Claimed(w)}, NEW row \in RunRows,
           Returns(e, row), rows'["child"] = row
    PROVE  /\ ctask' \in [Executors -> ChildStates] /\ ctask'[e].pc = "idle" /\ OnlyChild(e)
           /\ ptask' \in [Workers -> ParentStates] /\ HandsOver(w, e)
<1>1. e \in Executors /\ ProcOf(e) = w
  BY ExecutorFacts
<1>2. ChildMoves(e, NoTask)
  BY BlankTypes DEF Returns, ChildMoves
<1>3. ctask' \in [Executors -> ChildStates] /\ ctask'[e].pc = "idle" /\ OnlyChild(e)
  BY <1>1, <1>2, Pointwise, BlankTypes DEF OnlyChild
<1>4. CASE e = Inline(w)
  <2> DEFINE k == [at |-> "record", result |-> ResultOf(row)]
  <2>1. k \in ParentStates
    BY ResultTypes DEF ParentStates
  <2>2. ParentMoves(w, k)
    BY <1>1, <1>4, <2>1 DEF Returns, ToRecord, ParentMoves
  <2>3. k.at = "record" /\ k.result = ResultOf(row)
    OBVIOUS
  <2> HIDE DEF k
  <2>4. ptask' \in [Workers -> ParentStates] /\ ptask'[w] = k /\ OnlyParent(w)
    BY <2>2, Pointwise DEF OnlyParent
  <2> QED
    BY <1>3, <1>4, <2>3, <2>4 DEF HandsOver
<1>5. CASE e # Inline(w)
  BY <1>1, <1>3, <1>5 DEF Returns, HandsOver, TypeInv
<1> QED
  BY <1>4, <1>5

\* An execution goes on.
LEMMA GoMoves ==
    ASSUME TypeInv, NEW w \in Workers, NEW e \in {Inline(w), Claimed(w)}, NEW k \in ChildStates,
           Goes(e, k), k.pc # "idle" \/ e = Claimed(w)
    PROVE  /\ ctask' \in [Executors -> ChildStates] /\ ctask'[e] = k /\ OnlyChild(e)
           /\ ptask' \in [Workers -> ParentStates] /\ HandsOver(w, e)
<1>1. e \in Executors /\ (e = Claimed(w) => e # Inline(w))
  BY ExecutorFacts
<1>2. ChildMoves(e, k)
  BY DEF Goes, ChildMoves
<1>3. ctask' \in [Executors -> ChildStates] /\ ctask'[e] = k /\ OnlyChild(e)
  BY <1>1, <1>2, Pointwise DEF OnlyChild
<1> QED
  BY <1>1, <1>3 DEF Goes, HandsOver, TypeInv

\* The row of the child changes, and no other.
LEMMA ChildRowMoves ==
    ASSUME TypeInv, Stored("child"), NEW v \in RunRows, rows' = [rows EXCEPT !["child"] = v]
    PROVE  rows' \in [DOMAIN rows' -> RunRows] /\ rows'["child"] = v /\ OnlyRow("child")
BY Pointwise DEF RowMoves, OnlyRow

\* Every step of an executor has one of the shapes and keeps the types.
LEMMA ChildSteps ==
    ASSUME TypeInv, NEW w \in Workers, NEW e \in {Inline(w), Claimed(w)}, Stored("child"),
           ChildStep(e) \/ (e = Claimed(w) /\ ChildRenewalStops(w))
    PROVE  TypeInv' /\ ChildShape(w, e)
<1> DEFINE row == rows["child"]
           t == ctask[e]
<1>0. /\ row \in RunRows /\ t \in ChildStates /\ e \in Executors /\ ProcOf(e) = w
      /\ row.status \in RunStatuses /\ row.attempts \in Nat /\ t.n \in Nat
      /\ row.worker \in Owners /\ w \in Owners
  BY ExecutorFacts DEF TypeInv, Stored, RunRows, ChildStates, Owners
<1>a. /\ [t EXCEPT !.pc = "begin", !.n = row.attempts + 1] \in ChildStates
      /\ [t EXCEPT !.pc = "begin", !.n = row.attempts + 1].pc = "begin"
      /\ [t EXCEPT !.pc = "backoff", !.n = @ + 1] \in ChildStates
      /\ [t EXCEPT !.pc = "backoff", !.n = @ + 1].pc = "backoff"
  <2>1. ASSUME NEW m \in Nat, NEW pc \in {"begin", "backoff"}
        PROVE  /\ [t EXCEPT !.pc = pc, !.n = m] \in ChildStates
               /\ [t EXCEPT !.pc = pc, !.n = m].pc = pc
    BY <1>0 DEF ChildStates
  <2>2. row.attempts + 1 \in Nat /\ t.n + 1 \in Nat
    BY <1>0
  <2> QED
    BY <2>1, <2>2
<1>1. ASSUME UNCHANGED <<spc, up, stage>>, rows' \in [DOMAIN rows' -> RunRows],
             ptask' \in [Workers -> ParentStates], ctask' \in [Executors -> ChildStates]
      PROVE  TypeInv'
  BY <1>1 DEF TypeInv
<1>2. rows' = rows => OnlyRow("child") /\ rows' \in [DOMAIN rows' -> RunRows]
  BY DEF OnlyRow, TypeInv
<1>3. ASSUME Returns(e, row), rows' = rows, t.pc # "idle", UNCHANGED <<spc, up, stage>>,
             t.pc = "prepare" => ~ Owned(e, {"AGENT_SUCCEEDED"})
      PROVE  TypeInv' /\ ChildShape(w, e)
  BY <1>0, <1>1, <1>2, <1>3, ReturnMoves DEF ChildShape, Looks
<1>4. ASSUME NEW k \in ChildStates, Goes(e, k), rows' = rows, t.pc \notin {"idle", "prepare"},
             UNCHANGED <<spc, up, stage>>,
             k.pc \in {"begin", "commit"} \/ (k.pc = "idle" /\ e = Claimed(w))
      PROVE  TypeInv' /\ ChildShape(w, e)
  BY <1>1, <1>2, <1>4, GoMoves DEF ChildShape, Looks
<1>5. CASE Execute(e)
  <2>1. t.pc = "admit" /\ rows' = rows /\ UNCHANGED <<spc, up, stage>>
    BY <1>5 DEF Execute, ChildUnchanged
  <2>2. CASE row.attempts < MaxAttempts
    <3> DEFINE k == [t EXCEPT !.pc = "begin", !.n = row.attempts + 1]
    <3>1. k \in ChildStates /\ k.pc = "begin"
      BY <1>a
    <3>2. Goes(e, k)
      BY <1>5, <2>2 DEF Execute
    <3> QED
      BY <1>4, <2>1, <3>1, <3>2
  <2>3. CASE ~ row.attempts < MaxAttempts
    BY <1>3, <1>5, <2>1, <2>3 DEF Execute
  <2> QED
    BY <2>2, <2>3
<1>6. CASE BeginAttempt(e)
  <2>1. t.pc = "begin" /\ rows' = rows /\ UNCHANGED <<spc, up, stage>>
    BY <1>6 DEF BeginAttempt, ChildUnchanged
  <2>2. CASE ~ (row.status = "CANCELED" \/ Told(e))
    <3> DEFINE k == [t EXCEPT !.pc = "commit", !.seen = row.status]
    <3>1. k \in ChildStates /\ k.pc = "commit"
      BY <1>0 DEF ChildStates
    <3>2. Goes(e, k)
      BY <1>6, <2>2 DEF BeginAttempt
    <3> QED
      BY <1>4, <2>1, <3>1, <3>2
  <2>3. CASE row.status = "CANCELED" \/ Told(e)
    BY <1>3, <1>6, <2>1, <2>3 DEF BeginAttempt
  <2> QED
    BY <2>2, <2>3
<1>7. CASE CommitAttempt(e)
  <2>1. t.pc = "commit" /\ UNCHANGED <<spc, up, stage>>
    BY <1>7 DEF CommitAttempt, ChildUnchanged
  <2>2. CASE Owned(e, {t.seen})
    <3> DEFINE k == [t EXCEPT !.pc = "agent", !.seen = "none"]
               v == [row EXCEPT !.status = IF t.n = 1 THEN "RUNNING" ELSE "RETRYING", !.attempts = t.n]
    <3>1. k \in ChildStates /\ k.pc = "agent"
      BY <1>0 DEF ChildStates
    <3>2. v \in RunRows /\ v.status \in {"RUNNING", "RETRYING"} /\ v.worker = row.worker
      BY <1>0 DEF RunRows, RunStatuses
    <3>3. Goes(e, k) /\ rows' = [rows EXCEPT !["child"] = v]
      BY <1>7, <2>2 DEF CommitAttempt
    <3> HIDE DEF k, v
    <3>4. rows' \in [DOMAIN rows' -> RunRows] /\ rows'["child"] = v /\ OnlyRow("child")
      BY <3>2, <3>3, ChildRowMoves
    <3>5. /\ ctask' \in [Executors -> ChildStates] /\ ctask'[e] = k /\ OnlyChild(e)
          /\ ptask' \in [Workers -> ParentStates] /\ HandsOver(w, e)
      BY <3>1, <3>3, GoMoves
    <3>6. Commits(e)
      BY <2>1, <2>2, <3>1, <3>2, <3>4, <3>5 DEF Commits
    <3> QED
      BY <1>1, <2>1, <3>4, <3>5, <3>6 DEF ChildShape
  <2>3. CASE ~ Owned(e, {t.seen})
    BY <1>3, <1>7, <2>1, <2>3 DEF CommitAttempt
  <2> QED
    BY <2>2, <2>3
<1>8. CASE AgentSucceeds(e)
  <2>1. t.pc = "agent" /\ UNCHANGED <<spc, up, stage>>
    BY <1>8 DEF AgentSucceeds, ChildUnchanged
  <2>2. CASE Owned(e, Executing)
    <3> DEFINE k == [t EXCEPT !.pc = "prepare"]
               v == [row EXCEPT !.status = "AGENT_SUCCEEDED", !.out = w]
    <3>1. k \in ChildStates /\ k.pc = "prepare"
      BY <1>0 DEF ChildStates
    <3>2. v \in RunRows /\ v.status = "AGENT_SUCCEEDED" /\ v.worker = row.worker
      BY <1>0 DEF RunRows, RunStatuses
    <3>3. Goes(e, k) /\ rows' = [rows EXCEPT !["child"] = v]
      BY <1>0, <1>8, <2>2 DEF AgentSucceeds
    <3> HIDE DEF k, v
    <3>4. rows' \in [DOMAIN rows' -> RunRows] /\ rows'["child"] = v /\ OnlyRow("child")
      BY <3>2, <3>3, ChildRowMoves
    <3>5. /\ ctask' \in [Executors -> ChildStates] /\ ctask'[e] = k /\ OnlyChild(e)
          /\ ptask' \in [Workers -> ParentStates] /\ HandsOver(w, e)
      BY <3>1, <3>3, GoMoves
    <3>6. Succeeds(e)
      BY <2>1, <2>2, <3>1, <3>2, <3>4, <3>5 DEF Succeeds
    <3> QED
      BY <1>1, <2>1, <3>4, <3>5, <3>6 DEF ChildShape
  <2>3. CASE ~ Owned(e, Executing)
    BY <1>3, <1>8, <2>1, <2>3 DEF AgentSucceeds
  <2> QED
    BY <2>2, <2>3
<1>9. CASE PrepareCallback(e)
  <2>1. t.pc = "prepare" /\ UNCHANGED <<spc, up, stage>> /\ Returns(e, rows'["child"])
    BY <1>9 DEF PrepareCallback, ChildUnchanged
  <2>2. CASE Owned(e, {"AGENT_SUCCEEDED"})
    <3> DEFINE v == [row EXCEPT !.status = "SUCCEEDED", !.worker = NoWorker]
    <3>1. v \in RunRows /\ v.status = "SUCCEEDED" /\ v.worker = NoWorker /\ v.out = row.out
      BY <1>0 DEF RunRows, RunStatuses, Owners
    <3>2. rows' = [rows EXCEPT !["child"] = v]
      BY <1>9, <2>2 DEF PrepareCallback
    <3> HIDE DEF v
    <3>3. rows' \in [DOMAIN rows' -> RunRows] /\ rows'["child"] = v /\ OnlyRow("child")
      BY <3>1, <3>2, ChildRowMoves
    <3>4. /\ ctask' \in [Executors -> ChildStates] /\ ctask'[e].pc = "idle" /\ OnlyChild(e)
          /\ ptask' \in [Workers -> ParentStates] /\ HandsOver(w, e)
      BY <2>1, <3>1, <3>3, ReturnMoves
    <3>5. Settles(e)
      BY <2>1, <2>2, <3>1, <3>3, <3>4 DEF Settles
    <3> QED
      BY <1>1, <2>1, <3>3, <3>4, <3>5 DEF ChildShape
  <2>3. CASE ~ Owned(e, {"AGENT_SUCCEEDED"})
    BY <1>3, <1>9, <2>1, <2>3 DEF PrepareCallback
  <2> QED
    BY <2>2, <2>3
<1>10. CASE AgentFails(e)
  <2>1. t.pc = "agent" /\ UNCHANGED <<spc, up, stage>>
    BY <1>10 DEF AgentFails, ChildUnchanged
  <2>2. ASSUME Owned(e, Executing), NEW status \in {"FAILED", "TIMEOUT"}, Returns(e, rows'["child"]),
               rows' = [rows EXCEPT !["child"].status = status, !["child"].worker = NoWorker]
        PROVE  TypeInv' /\ ChildShape(w, e)
    <3> DEFINE v == [row EXCEPT !.status = status, !.worker = NoWorker]
    <3>1. v \in RunRows /\ v.status \in {"FAILED", "TIMEOUT"} /\ v.worker = NoWorker
      BY <1>0 DEF RunRows, RunStatuses, Owners
    <3>2. rows' = [rows EXCEPT !["child"] = v]
      BY <2>2
    <3> HIDE DEF v
    <3>3. rows' \in [DOMAIN rows' -> RunRows] /\ rows'["child"] = v /\ OnlyRow("child")
      BY <3>1, <3>2, ChildRowMoves
    <3>4. /\ ctask' \in [Executors -> ChildStates] /\ ctask'[e].pc = "idle" /\ OnlyChild(e)
          /\ ptask' \in [Workers -> ParentStates] /\ HandsOver(w, e)
      BY <2>2, <3>1, <3>3, ReturnMoves
    <3>5. Fails(e)
      BY <2>1, <2>2, <3>1, <3>3, <3>4 DEF Fails
    <3> QED
      BY <1>1, <2>1, <3>3, <3>4, <3>5 DEF ChildShape
  <2>3. ASSUME Owned(e, Executing), NEW status \in {"FAILED", "TIMEOUT", "RETRYING"},
               rows' = [rows EXCEPT !["child"].status = status],
               Goes(e, [t EXCEPT !.pc = "backoff", !.n = @ + 1])
        PROVE  TypeInv' /\ ChildShape(w, e)
    <3> DEFINE k == [t EXCEPT !.pc = "backoff", !.n = @ + 1]
               v == [row EXCEPT !.status = status]
    <3>1. k \in ChildStates /\ k.pc = "backoff"
      BY <1>a
    <3>2. v \in RunRows /\ v.status = status /\ v.worker = row.worker
      BY <1>0 DEF RunRows, RunStatuses
    <3>3. Goes(e, k) /\ rows' = [rows EXCEPT !["child"] = v]
      BY <2>3
    <3> HIDE DEF k, v
    <3>4. rows' \in [DOMAIN rows' -> RunRows] /\ rows'["child"] = v /\ OnlyRow("child")
      BY <3>2, <3>3, ChildRowMoves
    <3>5. /\ ctask' \in [Executors -> ChildStates] /\ ctask'[e] = k /\ OnlyChild(e)
          /\ ptask' \in [Workers -> ParentStates] /\ HandsOver(w, e)
      BY <3>1, <3>3, GoMoves
    <3>6. Retries(e)
      BY <2>1, <2>3, <3>1, <3>2, <3>4, <3>5 DEF Retries
    <3> QED
      BY <1>1, <2>1, <3>4, <3>5, <3>6 DEF ChildShape
  <2>4. CASE ~ Owned(e, Executing)
    BY <1>3, <1>10, <2>1, <2>4 DEF AgentFails
  <2> QED
    BY <1>10, <2>2, <2>3, <2>4 DEF AgentFails
<1>11. CASE BackoffEnds(e)
  <2> DEFINE k == [t EXCEPT !.pc = "begin"]
  <2>1. k \in ChildStates /\ k.pc = "begin"
    BY <1>0 DEF ChildStates
  <2>2. t.pc = "backoff" /\ Goes(e, k) /\ rows' = rows /\ UNCHANGED <<spc, up, stage>>
    BY <1>11 DEF BackoffEnds, ChildUnchanged
  <2> QED
    BY <1>4, <2>1, <2>2
<1>12. CASE e = Claimed(w) /\ ChildRenewalStops(w)
  <2>1. t.pc \notin {"idle", "prepare"} /\ Goes(e, NoTask) /\ rows' = rows /\ UNCHANGED <<spc, up, stage>>
    BY <1>12 DEF ChildRenewalStops, ChildUnchanged
  <2> QED
    BY <1>4, <1>12, <2>1, BlankTypes
<1>13. CASE AgentStops(e)
  <2>1. t.pc = "agent" /\ Returns(e, row) /\ rows' = rows /\ UNCHANGED <<spc, up, stage>>
    BY <1>13 DEF AgentStops, ChildUnchanged
  <2> QED
    BY <1>3, <2>1
<1> QED
  BY <1>5, <1>6, <1>7, <1>8, <1>9, <1>10, <1>11, <1>12, <1>13 DEF ChildStep

(***************************************************************************)
(* How the tasks hang together: a parent's task awaits its inline          *)
(* execution of the child and nothing else does; whoever works on a run    *)
(* is up and finds its row.                                                *)
(***************************************************************************)
WiringInv ==
    /\ \A w \in Workers : ptask[w].at # "idle" => up[w] /\ Stored("parent")
    /\ \A w \in Workers : ctask[Inline(w)].pc # "idle" => ptask[w].at = "await"
    /\ \A e \in Executors : ctask[e].pc # "idle" => up[ProcOf(e)] /\ Stored("child")
    /\ \A w \in Workers : spc[w].at = "done" => Stored("child")
    /\ \A r \in DOMAIN rows : rows[r].status \in {"SUCCEEDED", "CANCELED"} => rows[r].worker = NoWorker

(***************************************************************************)
(* The steps of a worker, by what they do                                  *)
(***************************************************************************)
ParentClaimed(w) ==
    /\ ptask[w].at = "idle" /\ up[w] /\ Claimable("parent")
    /\ ptask'[w].at = "stage" /\ OnlyParent(w)
    /\ rows'["parent"].status = "RUNNING" /\ rows'["parent"].worker = w /\ OnlyRow("parent")
    /\ UNCHANGED <<spc, up, stage, ctask>>

StageEntered(w) ==
    /\ ptask[w].at = "stage" /\ OnlyParent(w)
    /\ \/ ptask'[w].at \in {"ending", "idle"} /\ stage' = stage
       \/ ptask'[w].at = "submit" /\ stage.status # "SUCCEEDED" /\ stage'.status = "RUNNING"
    /\ UNCHANGED <<rows, spc, up, ctask>>

Refused(w) ==
    /\ ptask[w].at = "submit" /\ OnlyParent(w)
    /\ ptask'[w].at = "record" /\ ptask'[w].result.status = "FAILED"
    /\ UNCHANGED <<rows, spc, up, stage, ctask>>

Handed(w) ==
    /\ ptask[w].at = "submit" /\ spc[w].at = "done" /\ OnlyParent(w)
    /\ \/ /\ rows["child"].status \in Terminal /\ ctask' = ctask
          /\ ptask'[w].at = "record" /\ ptask'[w].result = ResultOf(rows["child"])
       \/ /\ rows["child"].status \notin Terminal
          /\ ptask'[w].at = "await" /\ ctask'[Inline(w)].pc = "admit" /\ OnlyChild(Inline(w))
    /\ spc' = [spc EXCEPT ![w] = NotSubmitting]
    /\ UNCHANGED <<rows, up, stage>>

Raised(w) ==
    /\ ptask[w].at = "await" /\ OnlyParent(w)
    /\ ptask'[w].at = "record" /\ ptask'[w].result.status = "FAILED"
    /\ ctask'[Inline(w)].pc = "idle" /\ OnlyChild(Inline(w))
    /\ UNCHANGED <<rows, spc, up, stage>>

ResultRecorded(w) ==
    /\ ptask[w].at = "record" /\ OnlyParent(w)
    /\ \/ ptask'[w].at = "idle" /\ (stage' = stage \/ stage'.status = "CANCELED")
       \/ /\ ptask'[w].at = "ending"
          /\ stage'.status = "SUCCEEDED" /\ stage'.result = ptask[w].result
    /\ UNCHANGED <<rows, spc, up, ctask>>

ParentEnded(w) ==
    /\ ptask[w].at = "ending" /\ ptask'[w].at = "idle" /\ OnlyParent(w)
    /\ \/ rows' = rows
       \/ /\ OwnsParent(w) /\ OnlyRow("parent")
          /\ rows'["parent"].status = "SUCCEEDED" /\ rows'["parent"].worker = NoWorker
    /\ UNCHANGED <<spc, up, stage, ctask>>

ChildCanceled ==
    /\ OnlyRow("child")
    /\ IF rows["child"].status \in Terminal
       THEN rows'["child"] = rows["child"]
       ELSE rows'["child"].status = "CANCELED" /\ rows'["child"].worker = NoWorker

Interrupted(w) ==
    /\ ptask[w].at = "await" /\ ptask'[w].at \in {"idle", "stage"} /\ OnlyParent(w)
    /\ ctask'[Inline(w)].pc = "idle" /\ OnlyChild(Inline(w)) /\ ChildCanceled
    /\ UNCHANGED <<spc, up, stage>>

ChildClaimed(w) ==
    /\ up[w] /\ ctask[Claimed(w)].pc = "idle" /\ Claimable("child")
    /\ ctask'[Claimed(w)].pc = "admit" /\ OnlyChild(Claimed(w))
    /\ rows'["child"].status = "RUNNING" /\ rows'["child"].worker = w /\ OnlyRow("child")
    /\ UNCHANGED <<spc, up, stage, ptask>>

\* a crash, or the end of a shutdown
Gone(w) ==
    /\ ptask'[w].at = "idle" /\ OnlyParent(w)
    /\ ctask'[Inline(w)].pc = "idle" /\ ctask'[Claimed(w)].pc = "idle"
    /\ \A e \in Executors : e \notin {Inline(w), Claimed(w)} => ctask'[e] = ctask[e]
    /\ ~up'[w] /\ \A u \in Workers : u # w => up'[u] = up[u]
    /\ spc' = [spc EXCEPT ![w] = NotSubmitting]
    /\ rows' = rows \/ (ptask[w].at = "await" /\ ChildCanceled)
    /\ UNCHANGED stage

\* A claim makes the row RUNNING for the worker.
LEMMA ClaimedRows ==
    ASSUME TypeInv, NEW r, Stored(r), NEW w \in Workers
    PROVE  /\ ClaimedRow(r, w) \in RunRows
           /\ ClaimedRow(r, w).status = "RUNNING" /\ ClaimedRow(r, w).worker = w
<1>1. rows[r] \in RunRows /\ rows[r].attempts \in Nat /\ w \in Owners
  BY DEF TypeInv, Stored, RunRows, Owners
<1>2. ASSUME NEW m \in Nat
      PROVE  /\ [rows[r] EXCEPT !.status = "RUNNING", !.worker = w, !.attempts = m] \in RunRows
             /\ [rows[r] EXCEPT !.status = "RUNNING", !.worker = w, !.attempts = m].status = "RUNNING"
             /\ [rows[r] EXCEPT !.status = "RUNNING", !.worker = w, !.attempts = m].worker = w
  BY <1>1 DEF RunRows, RunStatuses
<1> DEFINE m == IF rows[r].status \in Executing /\ rows[r].attempts > 0
                THEN rows[r].attempts - 1 ELSE rows[r].attempts
<1>3. m \in Nat
  BY <1>1
<1>4. ClaimedRow(r, w) = [rows[r] EXCEPT !.status = "RUNNING", !.worker = w, !.attempts = m]
  BY <1>1 DEF ClaimedRow, RunRows
<1> HIDE DEF m
<1> QED
  BY <1>2, <1>3, <1>4

\* Cancelling a row.
LEMMA CanceledRows ==
    ASSUME TypeInv, NEW r, Stored(r)
    PROVE  /\ CanceledRow(r) \in RunRows
           /\ rows[r].status \in Terminal => CanceledRow(r) = rows[r]
           /\ rows[r].status \notin Terminal =>
                CanceledRow(r).status = "CANCELED" /\ CanceledRow(r).worker = NoWorker
<1>1. rows[r] \in RunRows
  BY DEF TypeInv, Stored
<1> QED
  BY <1>1 DEF CanceledRow, RunRows, RunStatuses, Owners

\* run_child_agent cancels the child.
LEMMA CancelMoves ==
    ASSUME TypeInv, Stored("child"), rows' = [rows EXCEPT !["child"] = CanceledRow("child")]
    PROVE  rows' \in [DOMAIN rows' -> RunRows] /\ ChildCanceled
<1>1. /\ rows' \in [DOMAIN rows' -> RunRows] /\ OnlyRow("child")
      /\ rows'["child"] = CanceledRow("child")
  BY CanceledRows, ChildRowMoves
<1> QED
  BY <1>1, CanceledRows DEF ChildCanceled

\* The claims.
LEMMA ClaimSteps ==
    ASSUME TypeInv, NEW w \in Workers
    PROVE  /\ ClaimParent(w) => TypeInv' /\ ParentClaimed(w)
           /\ ClaimChild(w) => TypeInv' /\ ChildClaimed(w)
<1>1. ASSUME ClaimParent(w) PROVE TypeInv' /\ ParentClaimed(w)
  <2> DEFINE k == [ptask[w] EXCEPT !.at = "stage"]
  <2>1. Stored("parent") /\ ptask[w] \in ParentStates
    BY <1>1 DEF ClaimParent, Claimable, TypeInv
  <2>2. k \in ParentStates /\ k.at = "stage"
    BY <2>1 DEF ParentStates
  <2>3. ParentMoves(w, k)
    BY <1>1, <2>2 DEF ClaimParent, ParentMoves
  <2> HIDE DEF k
  <2>4. ptask' \in [Workers -> ParentStates] /\ ptask'[w].at = "stage" /\ OnlyParent(w)
    BY <2>2, <2>3, Pointwise DEF OnlyParent
  <2>5. RowMoves("parent", ClaimedRow("parent", w))
    BY <1>1, <2>1, ClaimedRows DEF ClaimParent, RowMoves
  <2>6. /\ rows' \in [DOMAIN rows' -> RunRows] /\ OnlyRow("parent")
        /\ rows'["parent"].status = "RUNNING" /\ rows'["parent"].worker = w
    BY <2>1, <2>5, Pointwise, ClaimedRows DEF OnlyRow
  <2> QED
    BY <1>1, <2>4, <2>6 DEF ClaimParent, ParentClaimed, TypeInv
<1>2. ASSUME ClaimChild(w) PROVE TypeInv' /\ ChildClaimed(w)
  <2> DEFINE e == Claimed(w)
             k == [ctask[e] EXCEPT !.pc = "admit"]
  <2>1. Stored("child") /\ ctask[e] \in ChildStates /\ e \in Executors
    BY <1>2, ExecutorFacts DEF ClaimChild, Claimable, TypeInv
  <2>2. k \in ChildStates /\ k.pc = "admit"
    BY <2>1 DEF ChildStates
  <2>3. ChildMoves(e, k)
    BY <1>2, <2>2 DEF ClaimChild, ChildMoves
  <2> HIDE DEF k
  <2>4. ctask' \in [Executors -> ChildStates] /\ ctask'[e].pc = "admit" /\ OnlyChild(e)
    BY <2>1, <2>2, <2>3, Pointwise DEF OnlyChild
  <2>5. RowMoves("child", ClaimedRow("child", w))
    BY <1>2, <2>1, ClaimedRows DEF ClaimChild, RowMoves
  <2>6. /\ rows' \in [DOMAIN rows' -> RunRows] /\ OnlyRow("child")
        /\ rows'["child"].status = "RUNNING" /\ rows'["child"].worker = w
    BY <2>1, <2>5, Pointwise, ClaimedRows DEF OnlyRow
  <2> QED
    BY <1>2, <2>4, <2>6 DEF ClaimChild, ChildClaimed, TypeInv
<1> QED
  BY <1>1, <1>2

\* The steps of the parent's task that leave the rows alone.
LEMMA StageSteps ==
    ASSUME TypeInv, NEW w \in Workers
    PROVE  /\ EnterStage(w) => TypeInv' /\ StageEntered(w)
           /\ ChildRefused(w) => TypeInv' /\ Refused(w)
           /\ RecordResult(w) => TypeInv' /\ ResultRecorded(w)
<1>0. /\ ptask[w] \in ParentStates /\ ptask[w].result \in Results /\ stage \in Stages
      /\ w \in Owners
  BY DEF TypeInv, ParentStates, Owners
<1>1. ASSUME NEW k \in ParentStates, ptask' = [ptask EXCEPT ![w] = k]
      PROVE  ptask' \in [Workers -> ParentStates] /\ ptask'[w] = k /\ OnlyParent(w)
  BY <1>1, Pointwise DEF ParentMoves, OnlyParent
<1>2. ASSUME NEW at \in {"ending", "submit"}
      PROVE  [ptask[w] EXCEPT !.at = at] \in ParentStates /\ [ptask[w] EXCEPT !.at = at].at = at
  BY <1>0 DEF ParentStates
<1>3. ASSUME EnterStage(w) PROVE TypeInv' /\ StageEntered(w)
  <2>1. ptask[w].at = "stage" /\ UNCHANGED <<rows, spc, up, ctask>>
    BY <1>3 DEF EnterStage, subVars
  <2>2. CASE ptask' = [ptask EXCEPT ![w].at = "ending"] /\ stage' = stage
    <3> DEFINE k == [ptask[w] EXCEPT !.at = "ending"]
    <3>1. ptask' = [ptask EXCEPT ![w] = k]
      BY <2>2
    <3>2. k \in ParentStates /\ k.at = "ending"
      BY <1>2
    <3> HIDE DEF k
    <3> QED
      BY <1>1, <2>1, <2>2, <3>1, <3>2 DEF TypeInv, StageEntered
  <2>3. CASE /\ stage.status \in {"none", "RUNNING"}
             /\ ptask' = [ptask EXCEPT ![w].at = "submit"]
             /\ stage' = [status |-> "RUNNING", by |-> w, result |-> NoResult]
    <3> DEFINE k == [ptask[w] EXCEPT !.at = "submit"]
    <3>1. ptask' = [ptask EXCEPT ![w] = k]
      BY <2>3
    <3>2. k \in ParentStates /\ k.at = "submit"
      BY <1>2
    <3>3. stage' \in Stages /\ stage'.status = "RUNNING"
      BY <1>0, <2>3, BlankTypes DEF Stages
    <3> HIDE DEF k
    <3> QED
      BY <1>1, <2>1, <2>3, <3>1, <3>2, <3>3 DEF TypeInv, StageEntered
  <2>4. CASE ptask' = [ptask EXCEPT ![w] = IdleParent] /\ stage' = stage
    BY <1>1, <2>1, <2>4, BlankTypes DEF TypeInv, StageEntered
  <2> QED
    BY <1>3, <2>2, <2>3, <2>4 DEF EnterStage
<1>4. ASSUME ChildRefused(w) PROVE TypeInv' /\ Refused(w)
  BY <1>1, <1>4, BlankTypes DEF ChildRefused, subVars, TypeInv, Refused
<1>5. ASSUME RecordResult(w) PROVE TypeInv' /\ ResultRecorded(w)
  <2>1. ptask[w].at = "record" /\ UNCHANGED <<rows, spc, up, ctask>>
    BY <1>5 DEF RecordResult, subVars
  <2>2. CASE /\ stage' = stage \/ stage' = [stage EXCEPT !.status = "CANCELED"]
             /\ ptask' = [ptask EXCEPT ![w] = IdleParent]
    <3>1. stage' \in Stages /\ (stage' = stage \/ stage'.status = "CANCELED")
      BY <1>0, <2>2 DEF Stages
    <3> QED
      BY <1>1, <2>1, <2>2, <3>1, BlankTypes DEF TypeInv, ResultRecorded
  <2>3. CASE /\ stage' = [stage EXCEPT !.status = "SUCCEEDED", !.result = ptask[w].result]
             /\ ptask' = [ptask EXCEPT ![w] = [IdleParent EXCEPT !.at = "ending"]]
    <3> DEFINE k == [IdleParent EXCEPT !.at = "ending"]
    <3>1. k \in ParentStates /\ k.at = "ending"
      BY BlankTypes DEF ParentStates
    <3>2. stage' \in Stages /\ stage'.status = "SUCCEEDED" /\ stage'.result = ptask[w].result
      BY <1>0, <2>3 DEF Stages
    <3> HIDE DEF k
    <3> QED
      BY <1>1, <2>1, <2>3, <3>1, <3>2 DEF TypeInv, ResultRecorded, k
  <2> QED
    BY <1>5, <2>2, <2>3 DEF RecordResult
<1> QED
  BY <1>3, <1>4, <1>5

\* Calls of submit that are over.
LEMMA SubmitOver ==
    ASSUME TypeInv, NEW w \in Workers, spc' = [spc EXCEPT ![w] = NotSubmitting]
    PROVE  /\ spc' \in [Submitters -> SubStates] /\ spc'[w].at = "idle"
           /\ \A s \in Submitters : s # w => spc'[s] = spc[s]
           /\ \A s \in Submitters : spc'[s].at \in {"conv", "insert"} => spc'[s].status \in Resolutions
BY BlankTypes, ExecutorFacts DEF TypeInv

\* The parent's task hands the child to its inline execution, and gets it back.
LEMMA HandSteps ==
    ASSUME TypeInv, WiringInv, NEW w \in Workers
    PROVE  /\ RunNow(w) => TypeInv' /\ Handed(w)
           /\ RunNowRaises(w) => TypeInv' /\ Raised(w)
           /\ ParentRenewalStops(w) => TypeInv' /\ Interrupted(w)
           /\ ParentTimesOut(w) => TypeInv' /\ Interrupted(w)
<1> DEFINE e == Inline(w)
<1>0. e \in Executors /\ ptask[w] \in ParentStates /\ ctask[e] \in ChildStates /\ w \in Submitters
  BY ExecutorFacts DEF TypeInv
<1>1. ASSUME NEW k \in ParentStates, ptask' = [ptask EXCEPT ![w] = k]
      PROVE  ptask' \in [Workers -> ParentStates] /\ ptask'[w] = k /\ OnlyParent(w)
  BY <1>1, Pointwise DEF ParentMoves, OnlyParent
<1>2. ASSUME NEW k \in ChildStates, ctask' = [ctask EXCEPT ![e] = k]
      PROVE  ctask' \in [Executors -> ChildStates] /\ ctask'[e] = k /\ OnlyChild(e)
  BY <1>0, <1>2, Pointwise DEF ChildMoves, OnlyChild
<1>3. ASSUME NEW at \in {"await", "stage"}
      PROVE  [ptask[w] EXCEPT !.at = at] \in ParentStates /\ [ptask[w] EXCEPT !.at = at].at = at
  BY <1>0 DEF ParentStates
<1>4. ASSUME RunNow(w) PROVE TypeInv' /\ Handed(w)
  <2>1. /\ ptask[w].at = "submit" /\ spc[w].at = "done" /\ UNCHANGED <<rows, up, stage>>
        /\ spc' = [spc EXCEPT ![w] = NotSubmitting]
    BY <1>4 DEF RunNow
  <2>2. /\ spc' \in [Submitters -> SubStates]
        /\ \A s \in Submitters : spc'[s].at \in {"conv", "insert"} => spc'[s].status \in Resolutions
    BY <2>1, SubmitOver
  <2>3. Stored("child") /\ rows["child"] \in RunRows
    BY <2>1 DEF WiringInv, TypeInv, Stored
  <2>4. CASE rows["child"].status \in Terminal
    <3> DEFINE k == [at |-> "record", result |-> ResultOf(rows["child"])]
    <3>1. k \in ParentStates /\ k.at = "record" /\ k.result = ResultOf(rows["child"])
      BY <2>3, ResultTypes DEF ParentStates
    <3>2. ptask' = [ptask EXCEPT ![w] = k] /\ ctask' = ctask
      BY <1>4, <2>4 DEF RunNow, ToRecord
    <3> HIDE DEF k
    <3> QED
      BY <1>1, <2>1, <2>2, <2>4, <3>1, <3>2 DEF TypeInv, Handed
  <2>5. CASE rows["child"].status \notin Terminal
    <3> DEFINE k == [ptask[w] EXCEPT !.at = "await"]
               c == [ctask[e] EXCEPT !.pc = "admit"]
    <3>1. k \in ParentStates /\ k.at = "await"
      BY <1>3
    <3>2. c \in ChildStates /\ c.pc = "admit"
      BY <1>0 DEF ChildStates
    <3>3. ptask' = [ptask EXCEPT ![w] = k] /\ ctask' = [ctask EXCEPT ![e] = c]
      BY <1>4, <2>5 DEF RunNow
    <3> HIDE DEF k, c
    <3> QED
      BY <1>1, <1>2, <2>1, <2>2, <2>5, <3>1, <3>2, <3>3 DEF TypeInv, Handed
  <2> QED
    BY <2>4, <2>5
<1>5. ASSUME RunNowRaises(w) PROVE TypeInv' /\ Raised(w)
  <2>1. /\ ptask[w].at = "await" /\ UNCHANGED <<rows, spc, up, stage>>
        /\ ptask' = [ptask EXCEPT ![w] = FailedRecord] /\ ctask' = [ctask EXCEPT ![e] = NoTask]
    BY <1>5 DEF RunNowRaises, subVars
  <2> QED
    BY <1>1, <1>2, <2>1, BlankTypes DEF TypeInv, Raised
<1>6. ASSUME NEW k \in ParentStates, k.at \in {"idle", "stage"}, ChildInterrupted(w),
             ptask' = [ptask EXCEPT ![w] = k], UNCHANGED <<spc, up, stage>>
      PROVE  TypeInv' /\ Interrupted(w)
  <2>1. /\ ptask[w].at = "await" /\ ctask[e].pc # "idle"
        /\ rows' = [rows EXCEPT !["child"] = CanceledRow("child")]
        /\ ctask' = [ctask EXCEPT ![e] = NoTask]
    BY <1>6 DEF ChildInterrupted
  <2>2. Stored("child")
    BY <1>0, <2>1 DEF WiringInv
  <2>3. rows' \in [DOMAIN rows' -> RunRows] /\ ChildCanceled
    BY <2>1, <2>2, CancelMoves
  <2>5. ctask' \in [Executors -> ChildStates] /\ ctask'[e].pc = "idle" /\ OnlyChild(e)
    BY <1>2, <2>1, BlankTypes
  <2>6. ptask' \in [Workers -> ParentStates] /\ ptask'[w] = k /\ OnlyParent(w)
    BY <1>1, <1>6
  <2>7. TypeInv'
    BY <1>6, <2>3, <2>5, <2>6 DEF TypeInv
  <2> QED
    BY <1>6, <2>1, <2>3, <2>5, <2>6, <2>7 DEF Interrupted
<1>7. ASSUME ParentRenewalStops(w) PROVE TypeInv' /\ Interrupted(w)
  BY <1>6, <1>7, BlankTypes DEF ParentRenewalStops
<1>8. ASSUME ParentTimesOut(w) PROVE TypeInv' /\ Interrupted(w)
  <2> DEFINE k == [ptask[w] EXCEPT !.at = "stage"]
  <2>1. k \in ParentStates /\ k.at = "stage"
    BY <1>3
  <2>2. ptask' = [ptask EXCEPT ![w] = k] /\ ChildInterrupted(w) /\ UNCHANGED <<spc, up, stage>>
    BY <1>8 DEF ParentTimesOut
  <2> HIDE DEF k
  <2> QED
    BY <1>6, <2>1, <2>2
<1> QED
  BY <1>4, <1>5, <1>7, <1>8

\* The parent ends, by its worker or by an operator.
LEMMA EndSteps ==
    ASSUME TypeInv, WiringInv
    PROVE  /\ \A w \in Workers : ParentEnds(w) \/ ParentStops(w) => TypeInv' /\ ParentEnded(w)
           /\ CancelParent =>
                /\ TypeInv' /\ Stored("parent") /\ OnlyRow("parent")
                /\ rows'["parent"].status = "CANCELED" /\ rows'["parent"].worker = NoWorker
<1>1. ASSUME NEW w \in Workers, ParentEnds(w) PROVE TypeInv' /\ ParentEnded(w)
  <2>1. /\ ptask[w].at = "ending" /\ UNCHANGED <<spc, up, stage, ctask>>
        /\ ptask' = [ptask EXCEPT ![w] = IdleParent]
    BY <1>1 DEF ParentEnds
  <2>2. ptask' \in [Workers -> ParentStates] /\ ptask'[w].at = "idle" /\ OnlyParent(w)
    BY <2>1, Pointwise, BlankTypes DEF ParentMoves, OnlyParent
  <2>3. CASE OwnsParent(w)
    <3> DEFINE v == [rows["parent"] EXCEPT !.status = "SUCCEEDED", !.worker = NoWorker]
    <3>1. Stored("parent") /\ rows["parent"] \in RunRows
      BY <2>1 DEF WiringInv, TypeInv, Stored
    <3>2. v \in RunRows /\ v.status = "SUCCEEDED" /\ v.worker = NoWorker
      BY <3>1 DEF RunRows, RunStatuses, Owners
    <3>3. rows' = [rows EXCEPT !["parent"] = v]
      BY <1>1, <2>3 DEF ParentEnds
    <3> HIDE DEF v
    <3>4. rows' \in [DOMAIN rows' -> RunRows] /\ rows'["parent"] = v /\ OnlyRow("parent")
      BY <3>1, <3>2, <3>3, Pointwise DEF RowMoves, OnlyRow
    <3> QED
      BY <2>1, <2>2, <2>3, <3>2, <3>4 DEF TypeInv, ParentEnded
  <2>4. CASE ~ OwnsParent(w)
    <3>1. rows' = rows
      BY <1>1, <2>4 DEF ParentEnds
    <3> QED
      BY <2>1, <2>2, <3>1 DEF TypeInv, ParentEnded
  <2> QED
    BY <2>3, <2>4
<1>3. ASSUME NEW w \in Workers, ParentStops(w) PROVE TypeInv' /\ ParentEnded(w)
  <2>1. /\ ptask[w].at = "ending" /\ UNCHANGED <<rows, spc, up, stage, ctask>>
        /\ ptask' = [ptask EXCEPT ![w] = IdleParent]
    BY <1>3 DEF ParentStops, subVars
  <2>2. ptask' \in [Workers -> ParentStates] /\ ptask'[w].at = "idle" /\ OnlyParent(w)
    BY <2>1, Pointwise, BlankTypes DEF ParentMoves, OnlyParent
  <2> QED
    BY <2>1, <2>2 DEF TypeInv, ParentEnded
<1>2. ASSUME CancelParent
      PROVE  /\ TypeInv' /\ Stored("parent") /\ OnlyRow("parent")
             /\ rows'["parent"].status = "CANCELED" /\ rows'["parent"].worker = NoWorker
  <2>1. /\ Stored("parent") /\ rows["parent"].status \notin Terminal
        /\ rows' = [rows EXCEPT !["parent"] = CanceledRow("parent")]
        /\ UNCHANGED <<spc, up, ptask, stage, ctask>>
    BY <1>2 DEF CancelParent
  <2>2. RowMoves("parent", CanceledRow("parent"))
    BY <2>1, CanceledRows DEF RowMoves
  <2>3. /\ rows' \in [DOMAIN rows' -> RunRows] /\ OnlyRow("parent")
        /\ rows'["parent"] = CanceledRow("parent")
    BY <2>2, Pointwise DEF OnlyRow
  <2> QED
    BY <2>1, <2>3, CanceledRows DEF TypeInv
<1> QED
  BY <1>1, <1>2, <1>3

\* A worker is lost or shut down, and comes back.
LEMMA ExitSteps ==
    ASSUME TypeInv, NEW w \in Workers
    PROVE  /\ Crash(w) \/ ShutdownOver(w) => TypeInv' /\ Gone(w)
           /\ Restart(w) => TypeInv' /\ up'[w] /\ \A u \in Workers : u # w => up'[u] = up[u]
<1>1. ASSUME Exit(w), rows' \in [DOMAIN rows' -> RunRows],
             rows' = rows \/ (ptask[w].at = "await" /\ ChildCanceled)
      PROVE  TypeInv' /\ Gone(w)
  <2>1. /\ UNCHANGED stage /\ up' = [up EXCEPT ![w] = FALSE]
        /\ ptask' = [ptask EXCEPT ![w] = IdleParent]
        /\ ctask' = [ctask EXCEPT ![Inline(w)] = NoTask, ![Claimed(w)] = NoTask]
        /\ spc' = [spc EXCEPT ![w] = NotSubmitting]
    BY <1>1 DEF Exit
  <2>2. ptask' \in [Workers -> ParentStates] /\ ptask'[w].at = "idle" /\ OnlyParent(w)
    BY <2>1, Pointwise, BlankTypes DEF ParentMoves, OnlyParent
  <2>3. /\ ctask' \in [Executors -> ChildStates]
        /\ ctask'[Inline(w)].pc = "idle" /\ ctask'[Claimed(w)].pc = "idle"
        /\ \A e \in Executors : e \notin {Inline(w), Claimed(w)} => ctask'[e] = ctask[e]
    BY <2>1, BlankTypes, ExecutorFacts DEF TypeInv
  <2>4. /\ up' \in [Workers -> BOOLEAN] /\ ~up'[w] /\ \A u \in Workers : u # w => up'[u] = up[u]
    BY <2>1 DEF TypeInv
  <2>5. TypeInv'
    BY <1>1, <2>1, <2>2, <2>3, <2>4, SubmitOver DEF TypeInv
  <2> QED
    BY <1>1, <2>1, <2>2, <2>3, <2>4, <2>5 DEF Gone
<1>2. rows \in [DOMAIN rows -> RunRows]
  BY DEF TypeInv
<1>3. ASSUME Crash(w) PROVE TypeInv' /\ Gone(w)
  BY <1>1, <1>2, <1>3 DEF Crash
<1>4. ASSUME ShutdownOver(w) PROVE TypeInv' /\ Gone(w)
  <2>1. CASE ptask[w].at = "await" /\ Stored("child")
    <3>1. rows' = [rows EXCEPT !["child"] = CanceledRow("child")]
      BY <1>4, <2>1 DEF ShutdownOver
    <3> QED
      BY <1>1, <1>4, <2>1, <3>1, CancelMoves DEF ShutdownOver
  <2>2. CASE ~ (ptask[w].at = "await" /\ Stored("child"))
    <3>1. rows' = rows
      BY <1>2, <1>4, <2>2 DEF ShutdownOver, Stored
    <3> QED
      BY <1>1, <1>2, <1>4, <3>1 DEF ShutdownOver
  <2> QED
    BY <2>1, <2>2
<1>5. ASSUME Restart(w) PROVE TypeInv' /\ up'[w] /\ \A u \in Workers : u # w => up'[u] = up[u]
  BY <1>5 DEF Restart, TypeInv, subVars
<1> QED
  BY <1>3, <1>4, <1>5

\* The shapes of all steps.
Submits(s, r) == Submit(s, r) /\ UNCHANGED <<up, ptask, stage, ctask>>

Canceled ==
    /\ Stored("parent") /\ OnlyRow("parent")
    /\ rows'["parent"].status = "CANCELED" /\ rows'["parent"].worker = NoWorker
    /\ UNCHANGED <<spc, up, ptask, stage, ctask>>

Restarted(w) ==
    /\ up'[w] /\ \A u \in Workers : u # w => up'[u] = up[u]
    /\ \A r \in DOMAIN rows : rows[r].worker # w
    /\ UNCHANGED <<rows, spc, ptask, stage, ctask>>

WorkerShape(w) ==
    \/ ParentClaimed(w) \/ StageEntered(w) \/ Refused(w) \/ Handed(w) \/ Raised(w)
    \/ ResultRecorded(w) \/ ParentEnded(w) \/ Interrupted(w) \/ ChildClaimed(w)
    \/ Gone(w) \/ Restarted(w) \/ Submits(w, "child")
    \/ \E e \in {Inline(w), Claimed(w)} : ChildShape(w, e)

\* Every step has a shape and keeps the types.
LEMMA Shapes ==
    ASSUME TypeInv, WiringInv, [Next]_vars
    PROVE  /\ TypeInv'
           /\ \/ \E c \in Clients : Submits(c, RequestOf[c])
              \/ \E w \in Workers : WorkerShape(w)
              \/ Canceled
              \/ UNCHANGED <<rows, spc, up, ptask, stage, ctask>>
<1>1. ASSUME NEW s \in Submitters, NEW r, Submits(s, r) PROVE TypeInv'
  BY <1>1, SubmitMoves DEF Submits, TypeInv
<1>2. ASSUME NEW c \in Clients, ClientSubmits(c) PROVE TypeInv' /\ Submits(c, RequestOf[c])
  BY <1>1, <1>2, SubmitterAssumption DEF ClientSubmits, Submits
<1>3. ASSUME NEW w \in Workers, ChildSubmitted(w) PROVE TypeInv' /\ Submits(w, "child")
  BY <1>1, <1>3, ExecutorFacts DEF ChildSubmitted, Submits
<1>4. ASSUME NEW w \in Workers, NEW e \in {Inline(w), Claimed(w)},
             ChildStep(e) \/ (e = Claimed(w) /\ ChildRenewalStops(w))
      PROVE  TypeInv' /\ ChildShape(w, e)
  <2>1. ctask[e].pc # "idle"
    BY <1>4 DEF ChildStep, ChildRenewalStops, Execute, BeginAttempt, CommitAttempt, AgentSucceeds,
                PrepareCallback, AgentStops, AgentFails, BackoffEnds
  <2>2. Stored("child")
    BY <2>1, ExecutorFacts DEF WiringInv
  <2> QED
    BY <1>4, <2>2, ChildSteps
<1>5. ASSUME NEW w \in Workers,
             WorkerStep(w) \/ ParentTimesOut(w) \/ Crash(w) \/ ShutdownOver(w) \/ Restart(w)
      PROVE  TypeInv' /\ WorkerShape(w)
  <2>1. CASE ClaimParent(w) \/ ClaimChild(w)
    BY <2>1, ClaimSteps DEF WorkerShape
  <2>2. CASE EnterStage(w) \/ ChildRefused(w) \/ RecordResult(w)
    BY <2>2, StageSteps DEF WorkerShape
  <2>3. CASE ChildSubmitted(w)
    BY <1>3, <2>3 DEF WorkerShape
  <2>4. CASE RunNow(w) \/ RunNowRaises(w) \/ ParentRenewalStops(w) \/ ParentTimesOut(w)
    BY <2>4, HandSteps DEF WorkerShape
  <2>5. CASE ParentEnds(w) \/ ParentStops(w)
    BY <2>5, EndSteps DEF WorkerShape
  <2>6. CASE ChildRenewalStops(w) \/ \E e \in {Inline(w), Claimed(w)} : ChildStep(e)
    BY <1>4, <2>6 DEF WorkerShape
  <2>7. CASE Crash(w) \/ ShutdownOver(w)
    BY <2>7, ExitSteps DEF WorkerShape
  <2>8. CASE Restart(w)
    BY <2>8, ExitSteps DEF WorkerShape, Restart, Restarted, subVars
  <2> QED
    BY <1>5, <2>1, <2>2, <2>3, <2>4, <2>5, <2>6, <2>7, <2>8 DEF WorkerStep
<1>6. CASE CancelParent
  BY <1>6, EndSteps DEF CancelParent, Canceled
<1>7. CASE UNCHANGED vars
  BY <1>7 DEF vars, subVars, TypeInv
<1>8. ASSUME NEW w \in Workers, Shutdown(w)
      PROVE  TypeInv' /\ UNCHANGED <<rows, spc, up, ptask, stage, ctask>>
  BY <1>8 DEF Shutdown, subVars, TypeInv
<1> QED
  BY <1>2, <1>5, <1>6, <1>7, <1>8 DEF Next

\* Initially nothing is stored and nobody does anything.
LEMMA TypeInit == Init => TypeInv /\ WiringInv
<1> SUFFICES ASSUME Init PROVE TypeInv /\ WiringInv
  OBVIOUS
<1>1. TypeInv
  <2>1. stage \in Stages
    BY BlankTypes DEF Init, Stages, Owners
  <2>2. DOMAIN rows = {} /\ rows \in [DOMAIN rows -> RunRows]
    BY DEF Init, SubmitInit
  <2> QED
    BY <2>1, <2>2, BlankTypes DEF Init, SubmitInit, TypeInv
<1>2. WiringInv
  BY BlankTypes, ExecutorFacts DEF Init, SubmitInit, WiringInv
<1> QED
  BY <1>1, <1>2

\* The tasks hang together after every step.
LEMMA WiringStep == TypeInv /\ WiringInv /\ [Next]_vars => WiringInv'
<1> SUFFICES ASSUME TypeInv, WiringInv, [Next]_vars PROVE WiringInv'
  OBVIOUS
<1> DEFINE A == \A w \in Workers : ptask'[w].at # "idle" => up'[w] /\ Stored("parent")'
           B == \A w \in Workers : ctask'[Inline(w)].pc # "idle" => ptask'[w].at = "await"
           C == \A e \in Executors : ctask'[e].pc # "idle" => up'[ProcOf(e)] /\ Stored("child")'
           D == \A w \in Workers : spc'[w].at = "done" => Stored("child")'
           E == \A r \in DOMAIN rows' :
                    rows'[r].status \in {"SUCCEEDED", "CANCELED"} => rows'[r].worker = NoWorker
<1>q. A /\ B /\ C /\ D /\ E => WiringInv'
  BY DEF WiringInv
<1> HIDE DEF A, B, C, D, E
<1>1. ASSUME NEW s \in Submitters, NEW r, Submits(s, r), s \in Workers => r = "child" PROVE WiringInv'
  <2>1. DOMAIN rows \subseteq DOMAIN rows' /\ UNCHANGED <<up, ptask, stage, ctask>>
    BY <1>1, SubmitMoves DEF Submits
  <2>2. A /\ B /\ C
    BY <2>1 DEF WiringInv, Stored, A, B, C
  <2>3. D
    BY <1>1, <2>1, SubmitMoves, ExecutorFacts DEF Submits, WiringInv, Stored, D
  <2>4. E
    BY <1>1, SubmitMoves DEF Submits, WiringInv, E
  <2> QED
    BY <1>q, <2>2, <2>3, <2>4
<1>2. ASSUME NEW w \in Workers, ParentClaimed(w) PROVE WiringInv'
  <2>1. Stored("parent")
    BY <1>2 DEF ParentClaimed, Claimable
  <2>2. A /\ B /\ C /\ D
    BY <1>2, <2>1 DEF ParentClaimed, WiringInv, Stored, OnlyParent, OnlyRow, A, B, C, D
  <2>3. E
    BY <1>2 DEF ParentClaimed, WiringInv, OnlyRow, Terminal, E
  <2> QED
    BY <1>q, <2>2, <2>3
<1>3. ASSUME NEW w \in Workers, StageEntered(w) \/ Refused(w) \/ ResultRecorded(w) PROVE WiringInv'
  <2>1. /\ ptask[w].at \notin {"idle", "await"} /\ OnlyParent(w) /\ UNCHANGED <<rows, spc, up, ctask>>
    BY <1>3 DEF StageEntered, Refused, ResultRecorded
  <2> QED
    BY <1>q, <2>1 DEF WiringInv, Stored, OnlyParent, A, B, C, D, E
<1>4. ASSUME NEW w \in Workers, Handed(w) PROVE WiringInv'
  <2>1. /\ ptask[w].at = "submit" /\ spc[w].at = "done" /\ OnlyParent(w) /\ UNCHANGED <<rows, up>>
        /\ \A u \in Workers : u # w => spc'[u] = spc[u]
        /\ spc'[w].at = "idle"
    BY <1>4, SubmitOver, ExecutorFacts DEF Handed
  <2>2. A /\ D /\ E
    BY <2>1 DEF WiringInv, Stored, OnlyParent, A, D, E
  <2>3. B
    BY <1>4, <2>1, ExecutorFacts DEF Handed, WiringInv, OnlyParent, OnlyChild, B
  <2>4. C
    BY <1>4, <2>1, ExecutorFacts DEF Handed, WiringInv, Stored, OnlyChild, C
  <2> QED
    BY <1>q, <2>2, <2>3, <2>4
<1>5. ASSUME NEW w \in Workers, Raised(w) PROVE WiringInv'
  <2>1. /\ ptask[w].at = "await" /\ OnlyParent(w) /\ UNCHANGED <<rows, spc, up>>
        /\ ctask'[Inline(w)].pc = "idle" /\ OnlyChild(Inline(w))
    BY <1>5 DEF Raised
  <2>2. A /\ D /\ E
    BY <2>1 DEF WiringInv, Stored, OnlyParent, A, D, E
  <2>3. B
    BY <2>1, ExecutorFacts DEF WiringInv, OnlyParent, OnlyChild, B
  <2>4. C
    BY <2>1 DEF WiringInv, Stored, OnlyChild, C
  <2> QED
    BY <1>q, <2>2, <2>3, <2>4
<1>6. ASSUME NEW w \in Workers, ParentEnded(w) PROVE WiringInv'
  <2>1. /\ ptask[w].at = "ending" /\ ptask'[w].at = "idle" /\ OnlyParent(w) /\ UNCHANGED <<spc, up, ctask>>
        /\ DOMAIN rows' = DOMAIN rows
    BY <1>6 DEF ParentEnded, OnlyRow
  <2>2. A /\ B /\ C /\ D
    BY <2>1 DEF WiringInv, Stored, OnlyParent, A, B, C, D
  <2>3. E
    BY <1>6 DEF ParentEnded, OnlyRow, WiringInv, E
  <2> QED
    BY <1>q, <2>2, <2>3
<1>7. ASSUME NEW w \in Workers, Interrupted(w) PROVE WiringInv'
  <2>1. /\ ptask[w].at = "await" /\ OnlyParent(w) /\ UNCHANGED <<spc, up>>
        /\ DOMAIN rows' = DOMAIN rows
        /\ ctask'[Inline(w)].pc = "idle" /\ OnlyChild(Inline(w))
    BY <1>7 DEF Interrupted, ChildCanceled, OnlyRow
  <2>2. A /\ D
    BY <2>1 DEF WiringInv, Stored, OnlyParent, A, D
  <2>3. B
    BY <2>1, ExecutorFacts DEF WiringInv, OnlyParent, OnlyChild, B
  <2>4. C
    BY <2>1 DEF WiringInv, Stored, OnlyChild, C
  <2>5. E
    BY <1>7 DEF Interrupted, ChildCanceled, OnlyRow, WiringInv, E
  <2> QED
    BY <1>q, <2>2, <2>3, <2>4, <2>5
<1>8. ASSUME NEW w \in Workers, ChildClaimed(w) PROVE WiringInv'
  <2>1. /\ Stored("child") /\ up[w] /\ OnlyChild(Claimed(w)) /\ UNCHANGED <<spc, up, ptask>>
        /\ DOMAIN rows' = DOMAIN rows
    BY <1>8 DEF ChildClaimed, Claimable, OnlyRow
  <2>2. A /\ D
    BY <2>1 DEF WiringInv, Stored, A, D
  <2>3. B
    BY <2>1, ExecutorFacts DEF WiringInv, OnlyChild, B
  <2>4. C
    BY <2>1, ExecutorFacts DEF WiringInv, Stored, OnlyChild, C
  <2>5. E
    BY <1>8 DEF ChildClaimed, OnlyRow, WiringInv, Terminal, E
  <2> QED
    BY <1>q, <2>2, <2>3, <2>4, <2>5
<1>9. ASSUME NEW w \in Workers, Gone(w) PROVE WiringInv'
  <2>1. /\ \A u \in Workers : u # w => spc'[u] = spc[u]
        /\ spc'[w].at = "idle"
    BY <1>9, SubmitOver, ExecutorFacts DEF Gone
  <2>a. DOMAIN rows' = DOMAIN rows
    BY <1>9 DEF Gone, ChildCanceled, OnlyRow
  <2>2. A /\ D
    BY <1>9, <2>1, <2>a DEF Gone, WiringInv, Stored, OnlyParent, A, D
  <2>5. E
    <3>1. CASE rows' = rows
      BY <3>1 DEF WiringInv, E
    <3>2. CASE ChildCanceled
      BY <3>2 DEF ChildCanceled, OnlyRow, WiringInv, E
    <3> QED
      BY <1>9, <3>1, <3>2 DEF Gone
  <2>3. B
    BY <1>9, ExecutorFacts DEF Gone, WiringInv, OnlyParent, B
  <2>4. C
    <3>1. \A e \in Executors : e \notin {Inline(w), Claimed(w)} => ProcOf(e) # w /\ ProcOf(e) \in Workers
      BY ExecutorFacts
    <3> QED
      BY <1>9, <2>a, <3>1 DEF Gone, WiringInv, Stored, C
  <2> QED
    BY <1>q, <2>2, <2>3, <2>4, <2>5
<1>10. ASSUME NEW w \in Workers, Restarted(w) PROVE WiringInv'
  <2>1. \A e \in Executors : ProcOf(e) \in Workers
    BY ExecutorFacts
  <2> QED
    BY <1>q, <1>10, <2>1 DEF Restarted, WiringInv, Stored, A, B, C, D, E
<1>11. ASSUME NEW w \in Workers, NEW e \in {Inline(w), Claimed(w)}, ChildShape(w, e) PROVE WiringInv'
  <2>1. /\ ctask[e].pc # "idle" /\ OnlyChild(e) /\ OnlyRow("child") /\ HandsOver(w, e)
        /\ UNCHANGED <<spc, up>>
    BY <1>11 DEF ChildShape
  <2>2. Stored("child") /\ up[w] /\ e \in Executors /\ (e = Inline(w) => ptask[w].at = "await")
    BY <2>1, ExecutorFacts DEF WiringInv
  <2>3. A
    BY <2>1, <2>2 DEF HandsOver, WiringInv, Stored, OnlyParent, OnlyRow, A
  <2>4. B
    BY <2>1, <2>2, ExecutorFacts DEF HandsOver, WiringInv, OnlyParent, OnlyChild, B
  <2>5. C /\ D
    BY <2>1, <2>2, ExecutorFacts DEF WiringInv, Stored, OnlyChild, OnlyRow, C, D
  <2>6. rows'["child"].status \in {"SUCCEEDED", "CANCELED"} => rows'["child"].worker = NoWorker
    BY <1>11, <2>2 DEF ChildShape, Looks, Commits, Succeeds, Settles, Fails, Retries, Terminal,
                       WiringInv, Stored
  <2>7. E
    BY <2>1, <2>6 DEF OnlyRow, WiringInv, E
  <2> QED
    BY <1>q, <2>3, <2>4, <2>5, <2>7
<1>12. CASE Canceled
  <2>1. A /\ B /\ C /\ D
    BY <1>12 DEF Canceled, OnlyRow, WiringInv, Stored, A, B, C, D
  <2>2. E
    BY <1>12 DEF Canceled, OnlyRow, WiringInv, E
  <2> QED
    BY <1>q, <2>1, <2>2
<1>13. CASE UNCHANGED <<rows, spc, up, ptask, stage, ctask>>
  BY <1>q, <1>13 DEF WiringInv, Stored, A, B, C, D, E
<1>14. \A c \in Clients : c \in Submitters /\ c \notin Workers
  BY SubmitterAssumption
<1>15. ASSUME NEW w \in Workers, WorkerShape(w) PROVE WiringInv'
  BY <1>1, <1>2, <1>3, <1>4, <1>5, <1>6, <1>7, <1>8, <1>9, <1>10, <1>11, <1>15, ExecutorFacts
     DEF WorkerShape
<1> QED
  BY <1>1, <1>12, <1>13, <1>14, <1>15, Shapes

\* Types and wiring hold in every behaviour.
LEMMA Wired == Spec => [](TypeInv /\ WiringInv)
<1>1. TypeInv /\ WiringInv /\ [Next]_vars => TypeInv' /\ WiringInv'
  BY Shapes, WiringStep
<1> QED
  BY <1>1, TypeInit, PTL DEF Spec

(***************************************************************************)
(* The parent.  While leases are renewed in time, the worker with a task   *)
(* for the parent owns it, or it is over; so there is only one.            *)
(***************************************************************************)
ParentInv ==
    /\ \A w \in Workers : ptask[w].at # "idle" => OwnsParent(w) \/ rows["parent"].status \in Terminal
    /\ \A w, u \in Workers : ptask[w].at # "idle" /\ ptask[u].at # "idle" => w = u

\* Nobody starts on the parent and its row does not change.
LEMMA ParentKept ==
    ASSUME ParentInv, \A u \in Workers : ptask'[u].at # "idle" => ptask[u].at # "idle",
           (\E u \in Workers : ptask'[u].at # "idle") => rows'["parent"] = rows["parent"]
    PROVE  ParentInv'
BY DEF ParentInv, OwnsParent

\* One worker at a time has a task for the parent, after every step.
LEMMA ParentStep ==
    ASSUME Timely PROVE TypeInv /\ WiringInv /\ ParentInv /\ [Next]_vars => ParentInv'
<1> SUFFICES ASSUME TypeInv, WiringInv, ParentInv, [Next]_vars PROVE ParentInv'
  OBVIOUS
<1>0. \A u \in Workers : ptask[u].at # "idle" => up[u] /\ Stored("parent")
  BY DEF WiringInv
<1>1. ASSUME NEW s \in Submitters, NEW r, Submits(s, r) PROVE ParentInv'
  BY <1>0, <1>1, SubmitMoves, ParentKept DEF Submits, Stored
<1>2. ASSUME NEW w \in Workers, ParentClaimed(w) PROVE ParentInv'
  <2>1. \A u \in Workers : ptask[u].at = "idle"
    <3>1. ASSUME NEW u \in Workers, ptask[u].at # "idle" PROVE FALSE
      <4>1. OwnsParent(u) \/ rows["parent"].status \in Terminal
        BY <3>1 DEF ParentInv
      <4>2. \/ rows["parent"].status = "QUEUED"
            \/ rows["parent"].status \in Executing /\ LeaseOver("parent")
        BY <1>2 DEF ParentClaimed, Claimable
      <4>3. LeaseOver("parent") => rows["parent"].worker # u
        BY <3>1 DEF LeaseOver, Attends
      <4> QED
        BY <4>1, <4>2, <4>3 DEF OwnsParent, Executing, Terminal
    <3> QED
      BY <3>1
  <2> QED
    BY <1>2, <2>1 DEF ParentClaimed, OnlyParent, ParentInv, OwnsParent, Executing
<1>3. ASSUME NEW w \in Workers,
             \/ StageEntered(w) \/ Refused(w) \/ ResultRecorded(w) \/ Handed(w) \/ Raised(w)
      PROVE  ParentInv'
  <2>1. ptask[w].at # "idle" /\ OnlyParent(w) /\ rows' = rows
    BY <1>3 DEF StageEntered, Refused, ResultRecorded, Handed, Raised
  <2> QED
    BY <2>1, ParentKept DEF OnlyParent
<1>4. ASSUME NEW w \in Workers, ParentEnded(w) PROVE ParentInv'
  <2>1. ptask[w].at # "idle" /\ ptask'[w].at = "idle" /\ OnlyParent(w)
    BY <1>4 DEF ParentEnded
  <2>2. \A u \in Workers : ptask'[u].at = "idle"
    BY <2>1 DEF OnlyParent, ParentInv
  <2> QED
    BY <2>2 DEF ParentInv
<1>5. ASSUME NEW w \in Workers, Interrupted(w) PROVE ParentInv'
  BY <1>0, <1>5, ParentKept DEF Interrupted, ChildCanceled, OnlyParent, OnlyRow, Stored
<1>6. ASSUME NEW w \in Workers, ChildClaimed(w) PROVE ParentInv'
  BY <1>0, <1>6, ParentKept DEF ChildClaimed, OnlyRow, Stored
<1>7. ASSUME NEW w \in Workers, Gone(w) \/ Restarted(w) PROVE ParentInv'
  <2>1. \A u \in Workers : ptask'[u].at # "idle" => ptask[u].at # "idle"
    BY <1>7 DEF Gone, Restarted, OnlyParent
  <2>2. Stored("parent") => rows'["parent"] = rows["parent"]
    BY <1>7 DEF Gone, Restarted, ChildCanceled, OnlyRow, Stored
  <2> QED
    BY <1>0, <2>1, <2>2, ParentKept
<1>8. ASSUME NEW w \in Workers, NEW e \in {Inline(w), Claimed(w)}, ChildShape(w, e) PROVE ParentInv'
  <2>1. /\ ctask[e].pc # "idle" /\ OnlyRow("child") /\ HandsOver(w, e)
        /\ e = Inline(w) => ptask[w].at = "await"
    BY <1>8, ExecutorFacts DEF ChildShape, WiringInv
  <2>2. \A u \in Workers : ptask'[u].at # "idle" => ptask[u].at # "idle"
    BY <2>1 DEF HandsOver, OnlyParent
  <2> QED
    BY <1>0, <2>1, <2>2, ParentKept DEF OnlyRow, Stored
<1>9. CASE Canceled
  BY <1>9 DEF Canceled, ParentInv, Terminal
<1>10. CASE UNCHANGED <<rows, spc, up, ptask, stage, ctask>>
  BY <1>10, ParentKept
<1>11. \A c \in Clients : c \in Submitters
  BY SubmitterAssumption
<1>12. ASSUME NEW w \in Workers, WorkerShape(w) PROVE ParentInv'
  BY <1>1, <1>2, <1>3, <1>4, <1>5, <1>6, <1>7, <1>8, <1>12, ExecutorFacts DEF WorkerShape
<1> QED
  BY <1>1, <1>9, <1>10, <1>11, <1>12, Shapes

(***************************************************************************)
(* The child.  An execution in the agent owns the row, or the row is       *)
(* CANCELED; a CANCELED row has no inline execution, the only one that     *)
(* could begin again on it.                                                *)
(***************************************************************************)
InAgent(e) == ctask[e].pc = "agent"

ChildInv ==
    /\ Stored("child") /\ rows["child"].status = "CANCELED" =>
          \A w \in Workers : ctask[Inline(w)].pc = "idle"
    /\ \A e \in Executors : InAgent(e) => Owned(e, Executing) \/ rows["child"].status = "CANCELED"
    /\ \A d, e \in Executors : InAgent(d) /\ InAgent(e) => d = e

\* No execution begins or gets to the agent, and the row does not change.
LEMMA ChildKept ==
    ASSUME ChildInv, \A e \in Executors : ctask'[e].pc \in {"idle", ctask[e].pc},
           Stored("child")' /\ rows'["child"].status = "CANCELED" => Stored("child"),
           Stored("child") => rows'["child"] = rows["child"],
           \A e \in Executors : InAgent(e) => Stored("child")
    PROVE  ChildInv'
<1>1. Stored("child")' /\ rows'["child"].status = "CANCELED" =>
          \A w \in Workers : ctask'[Inline(w)].pc = "idle"
  BY ExecutorFacts DEF ChildInv
<1>2. \A e \in Executors : InAgent(e)' => InAgent(e)
  BY DEF InAgent
<1>3. \A e \in Executors : InAgent(e)' => Owned(e, Executing)' \/ rows'["child"].status = "CANCELED"
  BY <1>2 DEF ChildInv, Owned
<1>4. \A d, e \in Executors : InAgent(d)' /\ InAgent(e)' => d = e
  BY <1>2 DEF ChildInv
<1> QED
  BY <1>1, <1>3, <1>4 DEF ChildInv, InAgent

\* Two executions under the same id are the same: there is one inline at a time.
LEMMA OneId ==
    ASSUME WiringInv, ParentInv, NEW d \in Executors, NEW e \in Executors,
           ctask[d].pc # "idle", ctask[e].pc # "idle", WorkerIdOf(d) = WorkerIdOf(e)
    PROVE  d = e
<1>1. PICK w \in Workers : d = Inline(w) \/ d = Claimed(w)
  BY ExecutorFacts
<1>2. PICK u \in Workers : e = Inline(u) \/ e = Claimed(u)
  BY ExecutorFacts
<1>3. CASE d = Inline(w) /\ e = Inline(u)
  BY <1>3 DEF WiringInv, ParentInv
<1>4. CASE d = Claimed(w) \/ e = Claimed(u)
  BY <1>1, <1>2, <1>4, ExecutorFacts
<1> QED
  BY <1>1, <1>2, <1>3, <1>4

\* What the executors of the child do keeps one of them in the agent.
LEMMA ChildShapeStep ==
    ASSUME TypeInv, WiringInv, ParentInv, ChildInv, NEW w \in Workers,
           NEW e \in {Inline(w), Claimed(w)}, ChildShape(w, e)
    PROVE  ChildInv'
<1>0. /\ e \in Executors /\ ctask[e].pc # "idle" /\ OnlyChild(e) /\ OnlyRow("child")
      /\ Stored("child") /\ Stored("child")'
  BY ExecutorFacts DEF ChildShape, WiringInv, OnlyRow, Stored
<1>1. rows["child"].status = "CANCELED" => ~ Owned(e, {ctask[e].seen}) /\ e # Inline(w)
  <2>1. rows["child"].status = "CANCELED" => e # Inline(w)
    BY <1>0 DEF ChildInv
  <2>2. rows["child"].status = "CANCELED" => rows["child"].worker = NoWorker
    BY <1>0 DEF WiringInv, Terminal, Stored
  <2> QED
    BY <2>1, <2>2, ExecutorFacts DEF Owned
<1>2. ASSUME \A d \in Executors : ~ InAgent(d)', rows'["child"].status # "CANCELED"
      PROVE  ChildInv'
  BY <1>2 DEF ChildInv, InAgent
<1>3. \A d \in Executors : d # e => (InAgent(d)' <=> InAgent(d))
  BY <1>0 DEF OnlyChild, InAgent
<1>4. CASE Looks(e)
  <2>1. ctask'[e].pc # "agent" /\ rows' = rows
    BY <1>4 DEF Looks
  <2>2. \A d \in Executors : InAgent(d)' => InAgent(d)
    BY <1>3, <2>1 DEF InAgent
  <2>3. rows'["child"].status = "CANCELED" => \A u \in Workers : ctask'[Inline(u)].pc = "idle"
    <3>1. rows["child"].status = "CANCELED" =>
            \A u \in Workers : Inline(u) # e /\ ctask[Inline(u)].pc = "idle" /\ Inline(u) \in Executors
      BY <1>0, ExecutorFacts DEF ChildInv
    <3> QED
      BY <1>0, <2>1, <3>1 DEF OnlyChild
  <2>4. \A d \in Executors : InAgent(d)' => Owned(d, Executing)' \/ rows'["child"].status = "CANCELED"
    BY <2>1, <2>2 DEF ChildInv, Owned
  <2>5. \A d, f \in Executors : InAgent(d)' /\ InAgent(f)' => d = f
    BY <2>2 DEF ChildInv
  <2> QED
    BY <2>3, <2>4, <2>5 DEF ChildInv, InAgent
<1>5. CASE Commits(e)
  <2>1. \A d \in Executors : d # e => ~ InAgent(d)'
    <3>1. ASSUME NEW d \in Executors, d # e, InAgent(d) PROVE FALSE
      <4>1. rows["child"].status # "CANCELED" /\ rows["child"].worker = WorkerIdOf(e)
        BY <1>1, <1>5 DEF Commits, Owned
      <4>2. rows["child"].worker = WorkerIdOf(d) /\ ctask[d].pc # "idle"
        BY <3>1, <4>1 DEF ChildInv, Owned, InAgent
      <4> QED
        BY <1>0, <3>1, <4>1, <4>2, OneId
    <3> QED
      BY <1>3, <3>1
  <2>2. Owned(e, Executing)' /\ rows'["child"].status # "CANCELED"
    BY <1>5 DEF Commits, Owned, Executing
  <2>3. \A d \in Executors : InAgent(d)' => Owned(d, Executing)'
    BY <2>1, <2>2
  <2>4. \A d, f \in Executors : InAgent(d)' /\ InAgent(f)' => d = f
    BY <2>1
  <2> QED
    BY <2>2, <2>3, <2>4 DEF ChildInv, InAgent
<1>6. CASE Succeeds(e) \/ Fails(e) \/ Retries(e)
  <2>1. InAgent(e) /\ ctask'[e].pc # "agent" /\ rows'["child"].status # "CANCELED"
    BY <1>6 DEF Succeeds, Fails, Retries, InAgent
  <2>2. \A d \in Executors : ~ InAgent(d)'
    BY <1>0, <1>3, <2>1 DEF ChildInv, InAgent
  <2> QED
    BY <1>2, <2>1, <2>2
<1>7. CASE Settles(e)
  <2>1. rows["child"].status = "AGENT_SUCCEEDED" /\ rows'["child"].status # "CANCELED"
    BY <1>7 DEF Settles, Owned
  <2>2. \A d \in Executors : ~ InAgent(d)
    BY <2>1 DEF ChildInv, Owned, Executing
  <2>3. \A d \in Executors : ~ InAgent(d)'
    BY <1>3, <1>7, <2>2 DEF Settles, InAgent
  <2> QED
    BY <1>2, <2>1, <2>3
<1> QED
  BY <1>4, <1>5, <1>6, <1>7 DEF ChildShape

\* One execution is in the agent after every step.
LEMMA ChildInvStep ==
    ASSUME Timely
    PROVE  TypeInv /\ WiringInv /\ ParentInv /\ ChildInv /\ [Next]_vars => ChildInv'
<1> SUFFICES ASSUME TypeInv, WiringInv, ParentInv, ChildInv, [Next]_vars PROVE ChildInv'
  OBVIOUS
<1>0. \A e \in Executors : InAgent(e) => Stored("child")
  BY DEF WiringInv, InAgent
<1>1. ASSUME \A e \in Executors : ctask'[e].pc \in {"idle", ctask[e].pc},
             Stored("child") => rows'["child"] = rows["child"], DOMAIN rows' = DOMAIN rows
      PROVE  ChildInv'
  BY <1>0, <1>1, ChildKept DEF Stored
<1>2. ASSUME NEW s \in Submitters, NEW r, Submits(s, r) PROVE ChildInv'
  <2>1. Stored("child")' /\ rows'["child"].status = "CANCELED" => Stored("child")
    BY <1>2, SubmitMoves DEF Submits, Stored, Resolutions
  <2>2. Stored("child") => rows'["child"] = rows["child"]
    BY <1>2, SubmitMoves DEF Submits, Stored
  <2> QED
    BY <1>0, <1>2, <2>1, <2>2, ChildKept DEF Submits
<1>3. ASSUME NEW w \in Workers,
             ParentClaimed(w) \/ StageEntered(w) \/ Refused(w) \/ ResultRecorded(w) \/ ParentEnded(w)
      PROVE  ChildInv'
  <2>1. /\ ctask' = ctask /\ DOMAIN rows' = DOMAIN rows
        /\ Stored("child") => rows'["child"] = rows["child"]
    BY <1>3 DEF ParentClaimed, StageEntered, Refused, ResultRecorded, ParentEnded, OnlyRow, Stored
  <2> QED
    BY <1>1, <2>1
<1>4. ASSUME NEW w \in Workers, Handed(w) PROVE ChildInv'
  <2>1. CASE ctask' = ctask
    BY <1>1, <1>4, <2>1 DEF Handed
  <2>2. CASE /\ rows["child"].status \notin Terminal /\ rows' = rows
             /\ ctask'[Inline(w)].pc = "admit" /\ OnlyChild(Inline(w))
    <3>1. rows'["child"].status # "CANCELED"
      BY <2>2 DEF Terminal
    <3>2. \A e \in Executors : InAgent(e)' => InAgent(e)
      BY <2>2 DEF OnlyChild, InAgent
    <3>3. \A e \in Executors : InAgent(e)' => Owned(e, Executing)'
      BY <2>2, <3>1, <3>2 DEF ChildInv, Owned
    <3>4. \A d, e \in Executors : InAgent(d)' /\ InAgent(e)' => d = e
      BY <3>2 DEF ChildInv
    <3> QED
      BY <3>1, <3>3, <3>4 DEF ChildInv, InAgent
  <2> QED
    BY <1>4, <2>1, <2>2 DEF Handed
<1>5. ASSUME NEW w \in Workers, Raised(w) \/ Gone(w) \/ Restarted(w), rows' = rows PROVE ChildInv'
  <2>1. \A e \in Executors : ctask'[e].pc \in {"idle", ctask[e].pc}
    BY <1>5 DEF Raised, Gone, Restarted, OnlyChild
  <2> QED
    BY <1>1, <1>5, <2>1
<1>6. ASSUME NEW w \in Workers, Interrupted(w) \/ Gone(w), ptask[w].at = "await", ChildCanceled
      PROVE  ChildInv'
  <2>1. \A u \in Workers : ctask'[Inline(u)].pc = "idle"
    <3>1. \A u \in Workers : u # w => ctask[Inline(u)].pc = "idle"
      BY <1>6 DEF WiringInv, ParentInv
    <3> QED
      BY <1>6, <3>1, ExecutorFacts DEF Interrupted, Gone, OnlyChild
  <2>2. \A e \in Executors : InAgent(e)' => InAgent(e)
    BY <1>6 DEF Interrupted, Gone, OnlyChild, InAgent
  <2>3. \A e \in Executors : InAgent(e)' => rows'["child"].status = "CANCELED"
    <3>1. CASE rows["child"].status \in Terminal
      BY <1>6, <2>2, <3>1 DEF ChildCanceled, ChildInv, Owned, Terminal, Executing
    <3>2. CASE rows["child"].status \notin Terminal
      BY <1>6, <3>2 DEF ChildCanceled
    <3> QED
      BY <3>1, <3>2
  <2>4. \A d, e \in Executors : InAgent(d)' /\ InAgent(e)' => d = e
    BY <2>2 DEF ChildInv
  <2> QED
    BY <2>1, <2>3, <2>4 DEF ChildInv, InAgent
<1>7. ASSUME NEW w \in Workers, ChildClaimed(w) PROVE ChildInv'
  <2>1. ASSUME NEW e \in Executors, InAgent(e) PROVE FALSE
    <3>1. \/ rows["child"].status = "QUEUED"
          \/ rows["child"].status \in Executing /\ LeaseOver("child")
      BY <1>7 DEF ChildClaimed, Claimable
    <3>2. LeaseOver("child") /\ rows["child"].worker = WorkerIdOf(e)
      BY <2>1, <3>1 DEF ChildInv, Owned, Executing
    <3>3. WorkerIdOf(e) # NoWorker /\ ctask[Claimed(WorkerIdOf(e))].pc = "idle"
      BY <3>2 DEF LeaseOver, Attends
    <3>4. e = Claimed(WorkerIdOf(e))
      BY <3>3, ExecutorFacts
    <3> QED
      BY <2>1, <3>3, <3>4 DEF InAgent
  <2>2. \A e \in Executors : ~ InAgent(e)'
    BY <1>7, <2>1 DEF ChildClaimed, OnlyChild, InAgent
  <2>3. rows'["child"].status # "CANCELED"
    BY <1>7 DEF ChildClaimed
  <2> QED
    BY <2>2, <2>3 DEF ChildInv, InAgent
<1>8. CASE Canceled \/ UNCHANGED <<rows, spc, up, ptask, stage, ctask>>
  <2>1. /\ ctask' = ctask /\ DOMAIN rows' = DOMAIN rows
        /\ Stored("child") => rows'["child"] = rows["child"]
    BY <1>8 DEF Canceled, OnlyRow, Stored
  <2> QED
    BY <1>1, <2>1
<1>9. \A c \in Clients : c \in Submitters
  BY SubmitterAssumption
<1>10. ASSUME NEW w \in Workers, Raised(w) \/ Gone(w) \/ Restarted(w) \/ Interrupted(w) PROVE ChildInv'
  BY <1>5, <1>6, <1>10 DEF Raised, Gone, Restarted, Interrupted
<1>11. ASSUME NEW w \in Workers, WorkerShape(w) PROVE ChildInv'
  BY <1>2, <1>3, <1>4, <1>7, <1>10, <1>11, ExecutorFacts, ChildShapeStep DEF WorkerShape
<1> QED
  BY <1>2, <1>8, <1>9, <1>11, Shapes

\* The invariants of the parent and of the child hold in every behaviour in which
\* leases are renewed in time.
LEMMA Executed == ASSUME Timely PROVE Spec => [](ParentInv /\ ChildInv)
<1>1. Init => ParentInv /\ ChildInv
  <2> SUFFICES ASSUME Init PROVE ParentInv /\ ChildInv
    OBVIOUS
  <2>1. \A w \in Workers : ptask[w].at = "idle"
    BY BlankTypes DEF Init
  <2>2. \A e \in Executors : ctask[e].pc = "idle"
    BY BlankTypes DEF Init
  <2> QED
    BY <2>1, <2>2, ExecutorFacts DEF ParentInv, ChildInv, InAgent
<1>2. /\ TypeInv /\ WiringInv /\ ParentInv /\ [Next]_vars => ParentInv'
      /\ TypeInv /\ WiringInv /\ ParentInv /\ ChildInv /\ [Next]_vars => ChildInv'
  BY ParentStep, ChildInvStep
<1> QED
  BY <1>1, <1>2, Wired, PTL DEF Spec

\* While leases are renewed in time, the child is executed by one process at a
\* time, whatever claims, cancellations, crashes and timeouts of the parent happen.
THEOREM OneAtATime == Spec => []OneExecutor
<1>1. CASE Timely
  <2>1. ChildInv => OneExecutor
    BY DEF ChildInv, InAgent, OneExecutor
  <2>2. Spec => [](ParentInv /\ ChildInv)
    BY <1>1, Executed
  <2> QED
    BY <2>1, <2>2, PTL
<1>2. CASE ~ Timely
  <2>1. OneExecutor
    BY <1>2 DEF OneExecutor
  <2> QED
    BY <2>1, PTL
<1> QED
  BY <1>1, <1>2

(***************************************************************************)
(* The result.  A success that the parent's task is about to record, or    *)
(* that the stage holds, is the row's.  It stays so because nobody awaits  *)
(* an inline execution then, and a worker that claimed the child and       *)
(* stored its success only has to settle it.                               *)
(***************************************************************************)
Good(result) ==
    result.status = "SUCCEEDED" =>
        /\ Stored("child") /\ rows["child"].status \in {"AGENT_SUCCEEDED", "SUCCEEDED"}
        /\ rows["child"].out = result.out

StageDone == stage.status = "SUCCEEDED" => \A w \in Workers : ptask[w].at \notin {"submit", "await", "record"}

SettlesNext ==
    \A w \in Workers :
        Stored("child") /\ rows["child"].status = "AGENT_SUCCEEDED" /\ rows["child"].worker = w
        => ctask[Claimed(w)].pc = "prepare" \/ ~up[w]

ResultInv ==
    /\ StageDone /\ SettlesNext
    /\ \A w \in Workers : ptask[w].at = "record" => Good(ptask[w].result)
    /\ stage.status = "SUCCEEDED" => Good(stage.result)

\* A success stays when nobody awaits the child.
LEMMA SuccessKept ==
    ASSUME TypeInv, WiringInv, ParentInv, SettlesNext, [Next]_vars,
           \A w \in Workers : ptask[w].at # "await", NEW result, Good(result)
    PROVE  Good(result)'
<1> SUFFICES ASSUME result.status = "SUCCEEDED"
             PROVE  /\ Stored("child")' /\ rows'["child"].status \in {"AGENT_SUCCEEDED", "SUCCEEDED"}
                    /\ rows'["child"].out = result.out
  BY DEF Good
<1>0. /\ Stored("child") /\ rows["child"].status \in {"AGENT_SUCCEEDED", "SUCCEEDED"}
      /\ rows["child"].out = result.out
  BY DEF Good
<1>1. ASSUME NEW s \in Submitters, NEW r, Submits(s, r) PROVE Stored("child")' /\ rows'["child"] = rows["child"]
  BY <1>0, <1>1, SubmitMoves DEF Submits, Stored
<1>2. CASE Canceled \/ UNCHANGED <<rows, spc, up, ptask, stage, ctask>>
  BY <1>0, <1>2 DEF Canceled, OnlyRow, Stored
<1>3. ASSUME NEW w \in Workers,
             \/ ParentClaimed(w) \/ StageEntered(w) \/ Refused(w) \/ Handed(w) \/ Raised(w)
             \/ ResultRecorded(w) \/ ParentEnded(w) \/ Gone(w) \/ Restarted(w)
      PROVE  Stored("child")' /\ rows'["child"] = rows["child"]
  BY <1>0, <1>3 DEF ParentClaimed, StageEntered, Refused, Handed, Raised, ResultRecorded,
                    ParentEnded, Gone, Restarted, OnlyRow, Stored
<1>4. ASSUME NEW w \in Workers, Interrupted(w) PROVE FALSE
  BY <1>4 DEF Interrupted
<1>5. ASSUME NEW w \in Workers, ChildClaimed(w) PROVE FALSE
  BY <1>0, <1>5 DEF ChildClaimed, Claimable, Executing
<1>6. ASSUME NEW w \in Workers, NEW e \in {Inline(w), Claimed(w)}, ChildShape(w, e)
      PROVE  /\ Stored("child")' /\ rows'["child"].status \in {"AGENT_SUCCEEDED", "SUCCEEDED"}
             /\ rows'["child"].out = result.out
  <2>1. ctask[e].pc # "idle" /\ OnlyRow("child") /\ e = Claimed(w) /\ up[w]
    BY <1>6, ExecutorFacts DEF ChildShape, WiringInv
  <2>2. Stored("child")'
    BY <1>0, <2>1 DEF OnlyRow, Stored
  <2>3. ~ Commits(e)
    <3>1. SUFFICES ASSUME Commits(e) PROVE FALSE
      OBVIOUS
    <3>2. rows["child"].worker = w /\ ctask[e].pc = "commit"
      BY <2>1, <3>1, ExecutorFacts DEF Commits, Owned
    <3>3. rows["child"].status = "AGENT_SUCCEEDED"
      BY <1>0, <3>2, ExecutorFacts DEF WiringInv, Terminal, Stored
    <3> QED
      BY <1>0, <2>1, <3>2, <3>3 DEF SettlesNext
  <2>4. ~ (Succeeds(e) \/ Fails(e) \/ Retries(e))
    BY <1>0 DEF Succeeds, Fails, Retries, Owned, Executing
  <2> QED
    BY <1>0, <1>6, <2>2, <2>3, <2>4 DEF ChildShape, Looks, Settles
<1>7. \A c \in Clients : c \in Submitters
  BY SubmitterAssumption
<1>8. ASSUME NEW w \in Workers, WorkerShape(w)
      PROVE  /\ Stored("child")' /\ rows'["child"].status \in {"AGENT_SUCCEEDED", "SUCCEEDED"}
             /\ rows'["child"].out = result.out
  BY <1>0, <1>1, <1>3, <1>4, <1>5, <1>6, <1>8, ExecutorFacts DEF WorkerShape
<1> QED
  BY <1>0, <1>1, <1>2, <1>7, <1>8, Shapes

\* The stored success of a claimed child is settled next by its worker.
LEMMA SettlesNextStep ==
    TypeInv /\ WiringInv /\ SettlesNext /\ [Next]_vars => SettlesNext'
<1> SUFFICES ASSUME TypeInv, WiringInv, SettlesNext, [Next]_vars, NEW w \in Workers,
                    Stored("child")', rows'["child"].status = "AGENT_SUCCEEDED",
                    rows'["child"].worker = w
             PROVE  ctask'[Claimed(w)].pc = "prepare" \/ ~up'[w]
  BY DEF SettlesNext
<1> DEFINE e == Claimed(w)
           Goal == ctask'[Claimed(w)].pc = "prepare" \/ ~up'[w]
<1>0. e \in Executors /\ w \in Submitters /\ w # NoWorker
  BY ExecutorFacts
<1>1. ASSUME Stored("child"), rows'["child"] = rows["child"], ctask'[e] = ctask[e], up'[w] = up[w]
      PROVE  Goal
  BY <1>1 DEF SettlesNext
<1>2. ASSUME NEW s \in Submitters, NEW r, Submits(s, r) PROVE Goal
  BY <1>1, <1>2, SubmitMoves DEF Submits, Stored, Resolutions
<1>3. CASE Canceled \/ UNCHANGED <<rows, spc, up, ptask, stage, ctask>>
  BY <1>1, <1>3 DEF Canceled, OnlyRow, Stored
<1>4. ASSUME NEW u \in Workers,
             \/ ParentClaimed(u) \/ StageEntered(u) \/ Refused(u) \/ ResultRecorded(u) \/ ParentEnded(u)
             \/ Handed(u) \/ Raised(u) \/ Interrupted(u)
      PROVE  Goal
  <2>1. Stored("child") /\ up' = up
    BY <1>4 DEF ParentClaimed, StageEntered, Refused, ResultRecorded, ParentEnded, Handed, Raised,
                Interrupted, ChildCanceled, OnlyRow, Stored
  <2>2. ctask'[e] = ctask[e]
    BY <1>0, <1>4, ExecutorFacts
       DEF ParentClaimed, StageEntered, Refused, ResultRecorded, ParentEnded, Handed, Raised,
           Interrupted, OnlyChild
  <2>3. rows'["child"] = rows["child"]
    BY <1>4, <2>1 DEF ParentClaimed, StageEntered, Refused, ResultRecorded, ParentEnded, Handed, Raised,
                Interrupted, ChildCanceled, OnlyRow, Stored
  <2> QED
    BY <1>1, <2>1, <2>2, <2>3
<1>5. ASSUME NEW u \in Workers, ChildClaimed(u) PROVE Goal
  BY <1>5 DEF ChildClaimed
<1>6. ASSUME NEW u \in Workers, Gone(u) PROVE Goal
  <2>1. CASE u = w
    BY <1>6, <2>1 DEF Gone
  <2>2. CASE u # w
    <3>1. ctask'[e] = ctask[e] /\ up'[w] = up[w]
      BY <1>0, <1>6, <2>2, ExecutorFacts DEF Gone
    <3>2. Stored("child") /\ rows'["child"] = rows["child"]
      BY <1>6 DEF Gone, ChildCanceled, OnlyRow, Stored
    <3> QED
      BY <1>1, <3>1, <3>2
  <2> QED
    BY <2>1, <2>2
<1>7. ASSUME NEW u \in Workers, Restarted(u) PROVE Goal
  BY <1>1, <1>7 DEF Restarted, Stored
<1>8. ASSUME NEW u \in Workers, NEW d \in {Inline(u), Claimed(u)}, ChildShape(u, d) PROVE Goal
  <2>0. d \in Executors /\ ctask[d].pc # "idle" /\ OnlyChild(d) /\ Stored("child") /\ up' = up
    BY <1>8, ExecutorFacts DEF ChildShape, OnlyRow, Stored
  <2>1. CASE Looks(d)
    <3>1. CASE d = e
      <4>1. ctask[e].pc = "prepare"
        BY <2>0, <2>1, <3>1, ExecutorFacts DEF Looks, SettlesNext, WiringInv
      <4>2. Owned(e, {"AGENT_SUCCEEDED"})
        BY <2>1, ExecutorFacts DEF Looks, Owned
      <4> QED
        BY <2>1, <3>1, <4>1, <4>2 DEF Looks
    <3>2. CASE d # e
      BY <1>0, <1>1, <2>0, <2>1, <3>2 DEF Looks, OnlyChild
    <3> QED
      BY <3>1, <3>2
  <2>2. CASE Succeeds(d)
    <3>1. d = e
      BY <1>8, <2>2, ExecutorFacts DEF Succeeds, Owned
    <3> QED
      BY <2>2, <3>1 DEF Succeeds
  <2> QED
    BY <1>8, <2>1, <2>2 DEF ChildShape, Commits, Settles, Fails, Retries
<1>9. \A c \in Clients : c \in Submitters
  BY SubmitterAssumption
<1>10. ASSUME NEW u \in Workers, WorkerShape(u) PROVE Goal
  BY <1>2, <1>4, <1>5, <1>6, <1>7, <1>8, <1>10, ExecutorFacts DEF WorkerShape
<1> QED
  BY <1>2, <1>3, <1>9, <1>10, Shapes

\* Where the parent's tasks get to, in a step.
LEMMA TaskChanges ==
    ASSUME TypeInv, WiringInv, [Next]_vars, NEW w \in Workers
    PROVE  /\ ptask'[w].at \in {"submit", "await", "record"} =>
                \/ ptask[w].at \in {"submit", "await", "record"}
                \/ stage'.status = "RUNNING"
           /\ ptask'[w].at = "record" =>
                \/ ptask'[w] = ptask[w]
                \/ ptask'[w].result.status # "SUCCEEDED"
                \/ /\ Stored("child")' /\ ptask'[w].result = ResultOf(rows'["child"])
                   /\ rows'["child"] \in RunRows
           /\ stage'.status = "SUCCEEDED" =>
                \/ stage' = stage
                \/ /\ rows' = rows /\ \E u \in Workers :
                        /\ ptask[u].at = "record" /\ stage'.result = ptask[u].result
                        /\ ptask'[u].at = "ending" /\ OnlyParent(u)
<1> DEFINE A == ptask'[w].at \in {"submit", "await", "record"} =>
                    \/ ptask[w].at \in {"submit", "await", "record"}
                    \/ stage'.status = "RUNNING"
           B == ptask'[w].at = "record" =>
                    \/ ptask'[w] = ptask[w]
                    \/ ptask'[w].result.status # "SUCCEEDED"
                    \/ /\ Stored("child")' /\ ptask'[w].result = ResultOf(rows'["child"])
                       /\ rows'["child"] \in RunRows
           C == stage'.status = "SUCCEEDED" =>
                    \/ stage' = stage
                    \/ /\ rows' = rows /\ \E u \in Workers :
                            /\ ptask[u].at = "record" /\ stage'.result = ptask[u].result
                            /\ ptask'[u].at = "ending" /\ OnlyParent(u)
<1>1. CASE \/ \E c \in Clients : Submits(c, RequestOf[c])
           \/ \E u \in Workers : Submits(u, "child") \/ ChildClaimed(u) \/ Restarted(u)
           \/ Canceled \/ UNCHANGED <<rows, spc, up, ptask, stage, ctask>>
  <2>1. ptask' = ptask /\ stage' = stage
    BY <1>1 DEF Submits, ChildClaimed, Restarted, Canceled
  <2> QED
    BY <2>1
<1>2. ASSUME NEW u \in Workers,
             \/ ParentClaimed(u) \/ ParentEnded(u) \/ Interrupted(u) \/ Gone(u)
             \/ Refused(u) \/ Raised(u)
      PROVE  A /\ B /\ C
  <2>1. /\ stage' = stage /\ OnlyParent(u)
        /\ \/ ptask'[u].at \in {"idle", "stage"}
           \/ /\ ptask'[u].at = "record" /\ ptask'[u].result.status = "FAILED"
              /\ ptask[u].at \in {"submit", "await"}
    BY <1>2 DEF ParentClaimed, ParentEnded, Interrupted, Gone, Refused, Raised
  <2>2. w = u \/ ptask'[w] = ptask[w]
    BY <2>1 DEF OnlyParent
  <2> QED
    BY <2>1, <2>2
<1>3. ASSUME NEW u \in Workers, StageEntered(u) PROVE A /\ B /\ C
  <2>1. /\ \/ ptask'[u].at \in {"ending", "idle"} /\ stage' = stage
           \/ ptask'[u].at = "submit" /\ stage'.status = "RUNNING"
        /\ w = u \/ ptask'[w] = ptask[w]
    BY <1>3 DEF StageEntered, OnlyParent
  <2> QED
    BY <2>1
<1>4. ASSUME NEW u \in Workers, ResultRecorded(u) PROVE A /\ B /\ C
  <2>1. /\ ptask'[u].at \in {"idle", "ending"} /\ ptask[u].at = "record" /\ OnlyParent(u) /\ rows' = rows
        /\ \/ stage' = stage \/ stage'.status = "CANCELED"
           \/ ptask'[u].at = "ending" /\ stage'.result = ptask[u].result
        /\ w = u \/ ptask'[w] = ptask[w]
    BY <1>4 DEF ResultRecorded, OnlyParent
  <2> QED
    BY <2>1
<1>5. ASSUME NEW u \in Workers, Handed(u) PROVE A /\ B /\ C
  <2>1. Stored("child") /\ rows["child"] \in RunRows /\ rows' = rows
    BY <1>5 DEF Handed, WiringInv, TypeInv, Stored
  <2>2. /\ stage' = stage /\ ptask[u].at = "submit" /\ ptask'[u].at \in {"await", "record"}
        /\ ptask'[u].at = "record" => ptask'[u].result = ResultOf(rows["child"])
        /\ w = u \/ ptask'[w] = ptask[w]
    BY <1>5 DEF Handed, OnlyParent
  <2>3. Stored("child")'
    BY <2>1 DEF Stored
  <2> QED
    BY <2>1, <2>2, <2>3
<1>6. ASSUME NEW u \in Workers, NEW e \in {Inline(u), Claimed(u)}, ChildShape(u, e)
      PROVE  A /\ B /\ C
  <2>1. /\ stage' = stage /\ HandsOver(u, e) /\ ctask[e].pc # "idle" /\ OnlyRow("child")
    BY <1>6 DEF ChildShape
  <2>2. Stored("child")'
    BY <2>1, ExecutorFacts DEF WiringInv, OnlyRow, Stored
  <2>3. rows'["child"] \in RunRows
    BY <2>2, Shapes DEF TypeInv, Stored
  <2>4. e = Inline(u) => ptask[u].at = "await"
    BY <2>1 DEF WiringInv
  <2>5. \/ ptask' = ptask
        \/ /\ ptask[u].at = "await" /\ ptask'[u].at = "record"
           /\ ptask'[u].result = ResultOf(rows'["child"]) /\ (w = u \/ ptask'[w] = ptask[w])
    BY <2>1, <2>4 DEF HandsOver, OnlyParent
  <2> QED
    BY <2>1, <2>2, <2>3, <2>5
<1>7. ASSUME NEW u \in Workers, WorkerShape(u) PROVE A /\ B /\ C
  BY <1>1, <1>2, <1>3, <1>4, <1>5, <1>6, <1>7 DEF WorkerShape
<1> QED
  BY <1>1, <1>7, Shapes

\* What is recorded as a success is the child's after every step.
LEMMA ResultStep ==
    ASSUME Timely
    PROVE  TypeInv /\ WiringInv /\ ParentInv /\ ResultInv /\ [Next]_vars => ResultInv'
<1> SUFFICES ASSUME TypeInv, WiringInv, ParentInv, ResultInv, [Next]_vars PROVE ResultInv'
  OBVIOUS
<1>1. SettlesNext'
  BY SettlesNextStep DEF ResultInv
<1>2. StageDone'
  <2> SUFFICES ASSUME stage'.status = "SUCCEEDED", NEW w \in Workers
               PROVE  ptask'[w].at \notin {"submit", "await", "record"}
    BY DEF StageDone
  <2>1. CASE stage' = stage
    <3>1. ptask[w].at \notin {"submit", "await", "record"}
      BY <2>1 DEF ResultInv, StageDone
    <3> QED
      BY <3>1, TaskChanges
  <2>2. ASSUME NEW u \in Workers, ptask[u].at = "record", ptask'[u].at = "ending", OnlyParent(u)
        PROVE  ptask'[w].at \notin {"submit", "await", "record"}
    <3>1. w # u => ptask[w].at = "idle" /\ ptask'[w] = ptask[w]
      BY <2>2 DEF ParentInv, OnlyParent
    <3> QED
      BY <2>2, <3>1
  <2> QED
    BY <2>1, <2>2, TaskChanges
<1>3. ASSUME NEW w \in Workers, ptask'[w].at = "record" PROVE Good(ptask[w].result)'
  <2>1. CASE ptask'[w] = ptask[w]
    <3>1. Good(ptask[w].result) /\ \A u \in Workers : ptask[u].at # "await"
      BY <1>3, <2>1 DEF ResultInv, ParentInv
    <3> DEFINE result == ptask[w].result
    <3>2. ptask'[w].result = result
      BY <2>1
    <3>3. Good(result) /\ SettlesNext
      BY <3>1 DEF ResultInv
    <3>4. ASSUME NEW r, r = result PROVE Good(r)'
      BY <3>1, <3>3, <3>4, SuccessKept
    <3> QED
      BY <3>2, <3>4 DEF Good
  <2>2. CASE ptask'[w].result.status # "SUCCEEDED"
    BY <2>2 DEF Good
  <2>3. CASE /\ Stored("child")' /\ ptask'[w].result = ResultOf(rows'["child"])
             /\ rows'["child"] \in RunRows
    <3>1. ResultOf(rows'["child"]).status = "SUCCEEDED" =>
            /\ rows'["child"].status \in {"SUCCEEDED", "AGENT_SUCCEEDED"}
            /\ ResultOf(rows'["child"]).out = rows'["child"].out
      BY <2>3, ResultTypes
    <3> QED
      BY <2>3, <3>1 DEF Good
  <2> QED
    BY <1>3, <2>1, <2>2, <2>3, TaskChanges
<1>4. ASSUME stage'.status = "SUCCEEDED" PROVE Good(stage.result)'
  <2>1. CASE stage' = stage
    <3>1. Good(stage.result) /\ SettlesNext /\ \A u \in Workers : ptask[u].at # "await"
      BY <1>4, <2>1 DEF ResultInv, StageDone
    <3>2. ASSUME NEW r, r = stage.result PROVE Good(r)'
      BY <3>1, <3>2, SuccessKept
    <3> QED
      BY <2>1, <3>2 DEF Good
  <2>2. ASSUME NEW u \in Workers, ptask[u].at = "record", stage'.result = ptask[u].result, rows' = rows
        PROVE  Good(stage.result)'
    BY <2>2 DEF ResultInv, Good, Stored
  <2>3. Workers = {} => stage' = stage
    BY Shapes DEF Submits, Canceled
  <2> QED
    BY <1>4, <2>1, <2>2, <2>3, TaskChanges
<1> QED
  BY <1>1, <1>2, <1>3, <1>4 DEF ResultInv, StageDone, Good

\* While leases are renewed in time, a success in the parent's stage is the child
\* run's own, with its output, for ever.
THEOREM RecordedSuccess == Spec => []SuccessIsChilds
<1>1. CASE Timely
  <2>1. Init => ResultInv
    <3> SUFFICES ASSUME Init PROVE ResultInv
      OBVIOUS
    <3>1. \A w \in Workers : ptask[w].at = "idle"
      BY BlankTypes DEF Init
    <3>2. stage.status = "none" /\ ~ Stored("child")
      BY DEF Init, SubmitInit, Stored
    <3> QED
      BY <3>1, <3>2 DEF ResultInv, StageDone, SettlesNext
  <2>2. TypeInv /\ WiringInv /\ ParentInv /\ ResultInv /\ [Next]_vars => ResultInv'
    BY <1>1, ResultStep
  <2>3. ResultInv => SuccessIsChilds
    BY DEF ResultInv, Good, SuccessIsChilds
  <2>4. Spec => [](ParentInv /\ ChildInv)
    BY <1>1, Executed
  <2> QED
    BY <2>1, <2>2, <2>3, <2>4, Wired, PTL DEF Spec
<1>2. CASE ~ Timely
  <2>1. SuccessIsChilds
    BY <1>2 DEF SuccessIsChilds
  <2> QED
    BY <2>1, PTL
<1> QED
  BY <1>1, <1>2

(***************************************************************************)
(* Submission.  A conflict that is not on the run key is on the            *)
(* conversation key, whose row stays: the second transaction reads it and  *)
(* inserts none, so it can only meet the run key again.                    *)
(***************************************************************************)
TurnInv ==
    \A s \in Submitters :
        /\ spc[s].at # "raised"
        /\ spc[s].at = "conv" /\ spc[s].try = 2 => ConvOf[RequestOf[s]] \in convs
        /\ spc[s].at = "insert" /\ spc[s].try = 2 => ~spc[s].new

\* A submission moves on without an error, and conversations stay.
LEMMA TurnMoves ==
    ASSUME TypeInv, TurnInv, NEW s \in Submitters, Submit(s, RequestOf[s])
    PROVE  TurnInv'
<1> DEFINE r == RequestOf[s]
<1>0. spc[s] \in SubStates
  BY DEF TypeInv
<1>1. ASSUME NEW k \in SubStates, spc' = [spc EXCEPT ![s] = k], convs \subseteq convs',
             /\ k.at # "raised"
             /\ k.at = "conv" /\ k.try = 2 => ConvOf[r] \in convs'
             /\ k.at = "insert" /\ k.try = 2 => ~k.new
      PROVE  TurnInv'
  <2>1. spc'[s] = k /\ \A x \in Submitters : x # s => spc'[x] = spc[x]
    BY <1>1 DEF TypeInv
  <2> QED
    BY <1>1, <2>1 DEF TurnInv
<1>2. CASE SubmitLookup(s, r)
  <2>1. CASE spc' = [spc EXCEPT ![s].at = "done"]
    <3> DEFINE k == [spc[s] EXCEPT !.at = "done"]
    <3>1. k \in SubStates /\ k.at = "done"
      BY <1>0 DEF SubStates
    <3>2. spc' = [spc EXCEPT ![s] = k] /\ convs' = convs
      BY <1>2, <2>1 DEF SubmitLookup
    <3> HIDE DEF k
    <3> QED
      BY <1>1, <3>1, <3>2
  <2>2. ASSUME NEW status \in Resolutions,
               spc' = [spc EXCEPT ![s] = [at |-> "conv", status |-> status, try |-> 1, new |-> FALSE]]
        PROVE  TurnInv'
    <3> DEFINE k == [at |-> "conv", status |-> status, try |-> 1, new |-> FALSE]
    <3>1. k \in SubStates /\ k.at = "conv" /\ k.try = 1 /\ k.try # 2
      BY DEF SubStates
    <3>2. spc' = [spc EXCEPT ![s] = k] /\ convs' = convs
      BY <1>2, <2>2 DEF SubmitLookup
    <3> HIDE DEF k
    <3> QED
      BY <1>1, <3>1, <3>2
  <2> QED
    BY <1>2, <2>1, <2>2 DEF SubmitLookup
<1>3. CASE SubmitReadConversation(s, r)
  <2> DEFINE k == [spc[s] EXCEPT !.at = "insert", !.new = ConvOf[r] # Given /\ ConvOf[r] \notin convs]
  <2>1. /\ k \in SubStates /\ k.at = "insert" /\ k.try = spc[s].try
        /\ k.new => ConvOf[r] \notin convs
    BY <1>0 DEF SubStates
  <2>2. spc[s].try = 2 => ConvOf[r] \in convs
    BY <1>3 DEF SubmitReadConversation, TurnInv
  <2>3. spc' = [spc EXCEPT ![s] = k] /\ convs' = convs
    BY <1>3 DEF SubmitReadConversation
  <2> HIDE DEF k
  <2> QED
    BY <1>1, <2>1, <2>2, <2>3
<1>4. CASE SubmitInsert(s, r)
  <2> DEFINE newConv == IF spc[s].new THEN {ConvOf[r]} ELSE {}
  <2>1. CASE spc' = [spc EXCEPT ![s].at = "done"] /\ convs' = convs \cup newConv
    <3> DEFINE k == [spc[s] EXCEPT !.at = "done"]
    <3>1. k \in SubStates /\ k.at = "done"
      BY <1>0 DEF SubStates
    <3>2. spc' = [spc EXCEPT ![s] = k]
      BY <2>1
    <3> HIDE DEF k
    <3> QED
      BY <1>1, <2>1, <3>1, <3>2
  <2>2. CASE /\ Stored(r) \/ newConv \cap convs # {}
             /\ spc' = [spc EXCEPT ![s].at = IF Stored(r) THEN "done"
                                             ELSE IF spc[s].try = 2 THEN "raised" ELSE "conv",
                                   ![s].try = 2]
             /\ convs' = convs
    <3> DEFINE k == [spc[s] EXCEPT !.at = IF Stored(r) THEN "done"
                                          ELSE IF spc[s].try = 2 THEN "raised" ELSE "conv",
                                   !.try = 2]
    <3>1. ~ Stored(r) => spc[s].new /\ ConvOf[r] \in convs
      BY <2>2
    <3>2. spc[s].try = 2 => ~ spc[s].new
      BY <1>4 DEF SubmitInsert, TurnInv
    <3>3. k \in SubStates /\ k.at \in {"done", "conv"} /\ (k.at = "conv" => ConvOf[r] \in convs)
      BY <1>0, <3>1, <3>2 DEF SubStates
    <3>4. spc' = [spc EXCEPT ![s] = k]
      BY <2>2
    <3> HIDE DEF k
    <3> QED
      BY <1>1, <2>2, <3>3, <3>4
  <2> QED
    BY <1>4, <2>1, <2>2 DEF SubmitInsert
<1> QED
  BY <1>2, <1>3, <1>4 DEF Submit

\* Submissions stay out of trouble, whatever the workers do.
LEMMA TurnStep == TypeInv /\ TurnInv /\ [Next]_vars => TurnInv'
<1> SUFFICES ASSUME TypeInv, TurnInv, [Next]_vars PROVE TurnInv'
  OBVIOUS
<1>1. ASSUME NEW c \in Clients, ClientSubmits(c) PROVE TurnInv'
  BY <1>1, TurnMoves, SubmitterAssumption DEF ClientSubmits
<1>2. ASSUME NEW w \in Workers, ChildSubmitted(w) PROVE TurnInv'
  BY <1>2, TurnMoves, SubmitterAssumption DEF ChildSubmitted
<1>3. ASSUME NEW w \in Workers, RunNow(w) \/ Crash(w) \/ ShutdownOver(w) PROVE TurnInv'
  <2>1. spc' = [spc EXCEPT ![w] = NotSubmitting] /\ convs' = convs
    BY <1>3 DEF RunNow, Crash, ShutdownOver, Exit
  <2>2. spc'[w].at = "idle" /\ \A s \in Submitters : s # w => spc'[s] = spc[s]
    BY <2>1, SubmitOver
  <2> QED
    BY <2>1, <2>2 DEF TurnInv
<1>4. ASSUME convs' = convs, spc' = spc PROVE TurnInv'
  BY <1>4 DEF TurnInv
<1>5. ASSUME NEW w \in Workers,
             \/ WorkerStep(w) \/ ParentTimesOut(w) \/ Shutdown(w) \/ Restart(w)
      PROVE  TurnInv'
  <2>1. CASE ChildSubmitted(w) \/ RunNow(w)
    BY <1>2, <1>3, <2>1
  <2>2. CASE \/ ClaimParent(w) \/ EnterStage(w) \/ ChildRefused(w) \/ RunNowRaises(w)
             \/ RecordResult(w) \/ ParentEnds(w) \/ ParentStops(w) \/ ParentRenewalStops(w)
             \/ ClaimChild(w) \/ ParentTimesOut(w) \/ Shutdown(w) \/ Restart(w)
    BY <1>4, <2>2 DEF ClaimParent, EnterStage, ChildRefused, RunNowRaises, RecordResult, ParentEnds,
                      ParentStops, ParentRenewalStops, ClaimChild, ParentTimesOut, Shutdown, Restart,
                      subVars
  <2>3. CASE ChildRenewalStops(w) \/ \E e \in {Inline(w), Claimed(w)} : ChildStep(e)
    <3>1. ChildUnchanged
      BY <2>3 DEF ChildRenewalStops, ChildStep, Execute, BeginAttempt, CommitAttempt, AgentSucceeds,
                  PrepareCallback, AgentStops, AgentFails, BackoffEnds
    <3> QED
      BY <1>4, <3>1 DEF ChildUnchanged
  <2> QED
    BY <1>5, <2>1, <2>2, <2>3 DEF WorkerStep
<1>6. CASE CancelParent \/ UNCHANGED vars
  BY <1>4, <1>6 DEF CancelParent, vars, subVars
<1> QED
  BY <1>1, <1>3, <1>5, <1>6 DEF Next

\* No submission fails on the unique keys: two transactions are enough for any
\* number of concurrent submitters and any sharing of conversations.
THEOREM TwoTransactions == Spec => []NobodyIsTurnedAway
<1>1. Init => TurnInv
  BY BlankTypes DEF Init, SubmitInit, TurnInv
<1>2. TurnInv => NobodyIsTurnedAway
  BY DEF TurnInv, NobodyIsTurnedAway
<1> QED
  BY <1>1, <1>2, TurnStep, Wired, PTL DEF Spec
=============================================================================
