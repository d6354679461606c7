--------------------------- MODULE SlotLocksProofs ---------------------------
(***************************************************************************)
(* Theorems about SlotLocks, for any number of processes, tasks, keys and  *)
(* limits, any size of the pool and any order of the keys of a task.       *)
(***************************************************************************)
EXTENDS SlotLocks, FiniteSetTheorems, TLAPS

PCs == {"idle", "check", "lock", "run", "unwind", "unlock"}

TaskStates == [pc : PCs, slot : Slots \cup {<<>>}, got : Seq(Slots)]

(***************************************************************************)
(* Where a task stands: the slots it took are of its keys, in their order, *)
(* and the slot it tries, or gives back, is of the key after them.         *)
(***************************************************************************)
InOrder(t, k) ==
    /\ Len(k.got) <= Len(Needs[t])
    /\ \A i \in 1..Len(k.got) : k.got[i][1] = Needs[t][i]
    /\ k.pc \in {"check", "lock", "unlock"} =>
          /\ k.slot \in Slots
          /\ Len(k.got) < Len(Needs[t])
          /\ k.slot[1] = Needs[t][Len(k.got) + 1]
    /\ k.pc = "run" => Len(k.got) = Len(Needs[t])

TaskInv ==
    /\ task \in [Tasks -> TaskStates]
    /\ \A t \in Tasks : InOrder(t, task[t])

TypeInv ==
    /\ TaskInv
    /\ lock \in [Slots -> Procs \cup {NoProc}]
    /\ held \in [Procs -> SUBSET Slots]
    /\ ghost \in [Procs -> SUBSET Slots]

\* The slots of a key; the loop over them stays with the key.
LEMMA SlotFacts ==
    /\ \A s \in Slots : s[1] \in DOMAIN Limit /\ Following(s) \in Slots /\ Following(s)[1] = s[1]
    /\ \A k \in DOMAIN Limit : <<k, 0>> \in Slots
    /\ \A s \in Slots : Limit[s[1]] = 1 => s = <<s[1], 0>>
<1>1. \A s \in Slots : \E k \in DOMAIN Limit : \E i \in 0..(Limit[k] - 1) : s = <<k, i>>
  BY DEF Slots
<1>2. \A k \in DOMAIN Limit : \A i \in 0..(Limit[k] - 1) : <<k, i>> \in Slots
  BY DEF Slots
<1>3. \A k \in DOMAIN Limit : Limit[k] \in Nat /\ Limit[k] > 0
  BY SlotAssumption
<1>4. ASSUME NEW s \in Slots
      PROVE  s[1] \in DOMAIN Limit /\ Following(s) \in Slots /\ Following(s)[1] = s[1]
  <2>0. PICK k \in DOMAIN Limit : \E i \in 0..(Limit[k] - 1) : s = <<k, i>>
    BY <1>1
  <2>1. PICK i \in 0..(Limit[k] - 1) : s = <<k, i>>
    BY <2>0
  <2>2. (i + 1) % Limit[k] \in 0..(Limit[k] - 1)
    BY <1>3, <2>1
  <2>3. Following(s) = <<k, (i + 1) % Limit[k]>>
    BY <2>1 DEF Following
  <2> QED
    BY <1>2, <2>1, <2>2, <2>3
<1>5. ASSUME NEW s \in Slots, Limit[s[1]] = 1 PROVE s = <<s[1], 0>>
  BY <1>1, <1>5
<1> QED
  BY <1>2, <1>3, <1>4, <1>5

\* A task moves to a state in order.
LEMMA TaskMoves ==
    ASSUME TaskInv, NEW t \in Tasks, NEW k \in TaskStates, InOrder(t, k),
           task' = [task EXCEPT ![t] = k]
    PROVE  /\ TaskInv'
           /\ task'[t] = k
           /\ \A u \in Tasks : u # t => task'[u] = task[u]
BY DEF TaskInv

\* Having acquired the slot it tried, a task moves in order: it tries the next
\* key or runs.
LEMMA AdvanceMoves ==
    ASSUME TaskInv, NEW t \in Tasks, task[t].pc \in {"check", "lock"},
           Advance(t, task[t].slot)
    PROVE  \E k \in TaskStates :
              /\ InOrder(t, k)
              /\ task' = [task EXCEPT ![t] = k]
              /\ k.pc \in {"check", "run"}
              /\ k.got = Append(task[t].got, task[t].slot)
<1> DEFINE got == Append(task[t].got, task[t].slot)
           n   == Len(task[t].got)
<1>1. /\ task[t] \in TaskStates /\ task[t].got \in Seq(Slots) /\ task[t].slot \in Slots
      /\ n \in Nat /\ n < Len(Needs[t]) /\ task[t].slot[1] = Needs[t][n + 1]
      /\ \A i \in 1..n : task[t].got[i][1] = Needs[t][i]
  BY SMTT(30) DEF TaskInv, InOrder, TaskStates
<1>2. /\ got \in Seq(Slots) /\ Len(got) = n + 1
      /\ \A i \in 1..n : got[i] = task[t].got[i]
      /\ got[n + 1] = task[t].slot
  BY <1>1
<1>3. Needs[t] \in Seq(DOMAIN Limit) /\ Len(Needs[t]) \in Nat
  BY SlotAssumption
<1>4. \A i \in 1..(n + 1) : got[i][1] = Needs[t][i]
  BY <1>1, <1>2
<1> HIDE DEF got
<1>5. CASE Len(got) < Len(Needs[t])
  <2> DEFINE k == [pc |-> "check", slot |-> <<Needs[t][n + 2], 0>>, got |-> got]
  <2>1. Needs[t][n + 2] \in DOMAIN Limit
    BY <1>1, <1>2, <1>3, <1>5
  <2>2. k \in TaskStates
    BY <1>2, <2>1, SlotFacts DEF TaskStates, PCs
  <2>3. InOrder(t, k)
    BY <1>1, <1>2, <1>3, <1>4, <1>5, <2>1, SlotFacts DEF InOrder
  <2>4. task' = [task EXCEPT ![t] = k]
    BY <1>1, <1>2, <1>5 DEF Advance, Step, got
  <2> QED
    BY <2>2, <2>3, <2>4 DEF got
<1>6. CASE ~ Len(got) < Len(Needs[t])
  <2> DEFINE k == [pc |-> "run", slot |-> <<>>, got |-> got]
  <2>1. k \in TaskStates
    BY <1>2 DEF TaskStates, PCs
  <2>2. InOrder(t, k)
    BY <1>1, <1>2, <1>3, <1>4, <1>6 DEF InOrder
  <2>3. task' = [task EXCEPT ![t] = k]
    BY <1>6 DEF Advance, Step, got
  <2> QED
    BY <2>1, <2>2, <2>3 DEF got
<1> QED
  BY <1>5, <1>6
(***************************************************************************)
(* The kinds of step.  A task moves without touching a lock, takes a lock, *)
(* drops a slot from _held_connections or frees its lock at the server; a  *)
(* ghost takes a lock for nobody.                                          *)
(***************************************************************************)
Live == {"check", "lock", "run"}

Moves(t, k) ==
    k \in TaskStates /\ InOrder(t, k) /\ task' = [task EXCEPT ![t] = k]

\* fewer than the limit of a key are here
Admitted(t) ==
    \A k \in KeysHere(t) \cap Kept :
        Cardinality({u \in Tasks : Home[u] = Home[t] /\ task[u].pc # "idle" /\ k \in KeysHere(u)})
        < Limit[k]

\* the slots of a live task are those it had, and at most one it now has
Keeps(t, k) ==
    k.pc \in Live =>
        \/ k.got = <<>>
        \/ /\ task[t].pc \in Live
           /\ \/ k.got = task[t].got
              \/ /\ k.got = Append(task[t].got, task[t].slot)
                 /\ task[t].slot \in held'[Home[t]]

Quiet(t) ==
    \E k \in TaskStates :
        /\ Moves(t, k) /\ Keeps(t, k)
        /\ task[t].pc # "unlock" /\ k.pc # "unlock"
        /\ task[t].pc = "idle" => Admitted(t)
        /\ UNCHANGED <<lock, held>>

Take(t) ==
    /\ task[t].pc = "lock" /\ Locked(Home[t], task[t].slot)
    /\ \E k \in TaskStates : Moves(t, k) /\ Keeps(t, k) /\ k.pc # "unlock"

Drop(t) ==
    /\ task[t].pc = "unwind"
    /\ \E i \in 1..Len(task[t].got) :
          /\ task[t].got[i] \in held[Home[t]]
          /\ held' = [held EXCEPT ![Home[t]] = @ \ {task[t].got[i]}]
          /\ \E k \in TaskStates : Moves(t, k) /\ k.pc = "unlock" /\ k.slot = task[t].got[i]
    /\ lock' = lock

Free(t) ==
    /\ task[t].pc = "unlock"
    /\ \E k \in TaskStates : Moves(t, k) /\ k.pc = "unwind"
    /\ lock' = [lock EXCEPT ![task[t].slot] = NoProc]
    /\ held' = held

\* Every action of a task is one of the kinds.
LEMMA TaskKinds ==
    ASSUME TypeInv, NEW t \in Tasks,
           \/ Enter(t) \/ LookUp(t) \/ TryLock(t) \/ GiveUp(t) \/ EndRun(t)
           \/ CancelInThread(t) \/ Pop(t) \/ Unlock(t)
    PROVE  Quiet(t) \/ Take(t) \/ Drop(t) \/ Free(t)
<1>0. /\ task[t] \in TaskStates /\ InOrder(t, task[t]) /\ Home[t] \in Procs
      /\ task[t].got \in Seq(Slots) /\ task[t].slot \in Slots \cup {<<>>}
      /\ Needs[t] \in Seq(DOMAIN Limit) /\ Len(Needs[t]) \in Nat /\ Len(Needs[t]) > 0
      /\ held[Home[t]] \subseteq Slots
  BY SlotAssumption DEF TypeInv, TaskInv, TaskStates
<1>1. ASSUME NEW pc \in PCs, NEW k, k = [pc |-> pc, slot |-> <<>>, got |-> task[t].got],
             pc \in {"unwind", "idle"}, Step(t, pc, <<>>, task[t].got)
      PROVE  k \in TaskStates /\ Moves(t, k) /\ Keeps(t, k) /\ k.pc = pc
  BY <1>0, <1>1 DEF TaskStates, PCs, Moves, InOrder, Keeps, Live, Step
<1>2. CASE Enter(t)
  <2> DEFINE k == [pc |-> "check", slot |-> <<Needs[t][1], 0>>, got |-> <<>>]
  <2>1. Needs[t][1] \in DOMAIN Limit
    BY <1>0
  <2>2. k \in TaskStates
    BY <2>1, SlotFacts DEF TaskStates, PCs
  <2>3. InOrder(t, k)
    BY <1>0, <2>1, SlotFacts DEF InOrder
  <2>4. Moves(t, k) /\ Keeps(t, k) /\ Admitted(t)
    BY <1>2, <2>2, <2>3 DEF Enter, Step, Moves, Keeps, Admitted
  <2> QED
    BY <1>2, <2>2, <2>4 DEF Enter, Quiet
<1>3. ASSUME task[t].pc \in {"check", "lock"}, NEW pc \in {"check", "lock"}, NEW s \in Slots,
             s[1] = task[t].slot[1], Step(t, pc, s, task[t].got)
      PROVE  \E k \in TaskStates : Moves(t, k) /\ Keeps(t, k) /\ k.pc # "unlock"
  <2> DEFINE k == [pc |-> pc, slot |-> s, got |-> task[t].got]
  <2>1. k \in TaskStates
    BY <1>0 DEF TaskStates, PCs
  <2>2. InOrder(t, k)
    BY <1>0, <1>3 DEF InOrder
  <2>3. Keeps(t, k) /\ k.pc # "unlock"
    BY <1>3 DEF Keeps, Live
  <2> QED
    BY <1>3, <2>1, <2>2, <2>3 DEF Moves, Step
<1>4. ASSUME task[t].pc \in {"check", "lock"}, task[t].slot \in held'[Home[t]],
             Advance(t, task[t].slot)
      PROVE  \E k \in TaskStates : Moves(t, k) /\ Keeps(t, k) /\ k.pc # "unlock"
  BY <1>4, AdvanceMoves DEF TypeInv, Moves, Keeps, Live
<1>5. CASE LookUp(t)
  <2>1. task[t].pc = "check" /\ task[t].slot \in Slots /\ UNCHANGED <<lock, held>>
    BY <1>0, <1>5 DEF LookUp, InOrder
  <2>2. \E k \in TaskStates : Moves(t, k) /\ Keeps(t, k) /\ k.pc # "unlock"
    <3>1. CASE task[t].slot \in held[Home[t]]
      BY <1>4, <1>5, <2>1, <3>1 DEF LookUp
    <3>2. CASE task[t].slot \notin held[Home[t]] /\ lent[Home[t]] = PoolMax
      BY <1>3, <1>5, <2>1, <3>2, SlotFacts DEF LookUp
    <3>3. CASE task[t].slot \notin held[Home[t]] /\ lent[Home[t]] # PoolMax
      BY <1>3, <1>5, <2>1, <3>3 DEF LookUp
    <3> QED
      BY <3>1, <3>2, <3>3
  <2> QED
    BY <2>1, <2>2 DEF Quiet
<1>6. CASE TryLock(t)
  <2>1. task[t].pc = "lock" /\ task[t].slot \in Slots
    BY <1>0, <1>6 DEF TryLock, InOrder
  <2>2. CASE Locked(Home[t], task[t].slot) /\ Advance(t, task[t].slot)
    <3>1. task[t].slot \in held'[Home[t]]
      BY <1>0, <2>2 DEF Locked, TypeInv
    <3> QED
      BY <1>4, <2>1, <2>2, <3>1 DEF Take
  <2>3. CASE /\ NotLocked(Home[t], task[t].slot) \/ LockRaised(Home[t], task[t].slot)
             /\ Step(t, "check", Following(task[t].slot), task[t].got)
    <3>1. \E k \in TaskStates : Moves(t, k) /\ Keeps(t, k) /\ k.pc # "unlock"
      BY <1>3, <2>1, <2>3, SlotFacts
    <3>2. UNCHANGED <<lock, held>>
      BY <2>3 DEF NotLocked, LockRaised
    <3> QED
      BY <2>1, <3>1, <3>2 DEF Quiet
  <2> QED
    BY <1>6, <2>2, <2>3 DEF TryLock
<1>7. CASE GiveUp(t) \/ EndRun(t) \/ CancelInThread(t)
  <2>1. /\ Step(t, "unwind", <<>>, task[t].got) /\ UNCHANGED <<lock, held>>
        /\ task[t].pc \in Live
    BY <1>7 DEF GiveUp, EndRun, CancelInThread, Live
  <2> QED
    BY <1>1, <2>1 DEF Quiet, PCs, Live
<1>8. CASE Pop(t)
  <2> DEFINE n == Len(task[t].got)
             s == task[t].got[n]
             rest == SubSeq(task[t].got, 1, n - 1)
  <2>1. task[t].pc = "unwind" /\ UNCHANGED <<lock, lent, ghost>>
    BY <1>8 DEF Pop
  <2>2. CASE task[t].got = <<>>
    <3>1. Step(t, "idle", <<>>, task[t].got) /\ held' = held
      BY <1>8, <2>2 DEF Pop
    <3> QED
      BY <1>1, <2>1, <3>1 DEF Quiet, PCs
  <2>3. CASE task[t].got # <<>>
    <3>1. n \in Nat \ {0} /\ s \in Slots
      BY <1>0, <2>3
    <3>2. /\ rest \in Seq(Slots) /\ Len(rest) = n - 1
          /\ \A i \in 1..(n - 1) : rest[i] = task[t].got[i]
      BY <1>0, <3>1
    <3>3. /\ n <= Len(Needs[t]) /\ s[1] = Needs[t][n]
          /\ \A i \in 1..(n - 1) : rest[i][1] = Needs[t][i]
      BY <1>0, <3>1, <3>2 DEF InOrder
    <3>4. /\ held' = [held EXCEPT ![Home[t]] = @ \ {s}]
          /\ IF s \in held[Home[t]] THEN Step(t, "unlock", s, rest)
                                     ELSE Step(t, "unwind", <<>>, rest)
      BY <1>8, <2>3 DEF Pop
    <3> HIDE DEF s, rest, n
    <3>5. CASE s \in held[Home[t]]
      <4> DEFINE k == [pc |-> "unlock", slot |-> s, got |-> rest]
      <4>1. k \in TaskStates
        BY <3>1, <3>2 DEF TaskStates, PCs
      <4>2. InOrder(t, k)
        BY <1>0, <3>1, <3>2, <3>3 DEF InOrder
      <4>3. Moves(t, k)
        BY <3>4, <3>5, <4>1, <4>2 DEF Moves, Step
      <4>4. n \in 1..Len(task[t].got) /\ s = task[t].got[n]
        BY <1>0, <3>1 DEF n, s
      <4> QED
        BY <2>1, <3>4, <3>5, <4>1, <4>3, <4>4 DEF Drop
    <3>6. CASE s \notin held[Home[t]]
      <4> DEFINE k == [pc |-> "unwind", slot |-> <<>>, got |-> rest]
      <4>1. k \in TaskStates
        BY <3>2 DEF TaskStates, PCs
      <4>2. InOrder(t, k)
        BY <1>0, <3>1, <3>2, <3>3 DEF InOrder
      <4>3. Moves(t, k) /\ Keeps(t, k)
        BY <3>4, <3>6, <4>1, <4>2 DEF Moves, Step, Keeps, Live
      <4>4. held' = held
        BY <1>0, <3>4, <3>6 DEF TypeInv
      <4> QED
        BY <2>1, <4>1, <4>3, <4>4 DEF Quiet
    <3> QED
      BY <3>5, <3>6
  <2> QED
    BY <2>2, <2>3
<1>9. CASE Unlock(t)
  <2>1. /\ task[t].pc = "unlock" /\ Step(t, "unwind", <<>>, task[t].got)
        /\ lock' = [lock EXCEPT ![task[t].slot] = NoProc] /\ held' = held
    BY <1>9 DEF Unlock
  <2> QED
    BY <1>1, <2>1 DEF Free, PCs
<1> QED
  BY <1>2, <1>5, <1>6, <1>7, <1>8, <1>9
\* A step of a ghost takes a lock, or changes neither locks nor tasks.
LEMMA GhostKind ==
    ASSUME TypeInv, NEW p \in Procs, GhostLock(p)
    PROVE  /\ task' = task
           /\ UNCHANGED <<lock, held>> \/ \E s \in Slots : Locked(p, s)
           /\ ghost' \in [Procs -> SUBSET Slots]
BY DEF TypeInv, GhostLock, NotLocked, LockRaised

\* The tasks stay in order, the variables keep their types.
LEMMA TypeStep == TypeInv /\ [Next]_vars => TypeInv'
<1> SUFFICES ASSUME TypeInv, [Next]_vars PROVE TypeInv'
  OBVIOUS
<1>0. \A t \in Tasks : Home[t] \in Procs
  BY SlotAssumption
<1>1. ASSUME NEW t \in Tasks, Quiet(t) \/ Take(t) \/ Drop(t) \/ Free(t)
      PROVE  TaskInv' /\ lock' \in [Slots -> Procs \cup {NoProc}] /\ held' \in [Procs -> SUBSET Slots]
  <2>1. \E k \in TaskStates : Moves(t, k)
    BY <1>1 DEF Quiet, Take, Drop, Free
  <2>2. TaskInv'
    BY <2>1, TaskMoves DEF TypeInv, Moves
  <2>3. task[t].pc \in {"lock", "unlock"} => task[t].slot \in Slots
    BY DEF TypeInv, TaskInv, InOrder
  <2>4. lock' \in [Slots -> Procs \cup {NoProc}] /\ held' \in [Procs -> SUBSET Slots]
    BY <1>0, <1>1, <2>3 DEF TypeInv, Quiet, Take, Drop, Free, Locked
  <2> QED
    BY <2>2, <2>4
<1>2. ASSUME NEW t \in Tasks,
             \/ Enter(t) \/ LookUp(t) \/ TryLock(t) \/ GiveUp(t) \/ EndRun(t)
             \/ CancelInThread(t) \/ Pop(t) \/ Unlock(t)
      PROVE  TypeInv'
  <2>1. task[t].pc = "lock" => task[t].slot \in Slots
    BY DEF TypeInv, TaskInv, InOrder
  <2>2. ghost' \in [Procs -> SUBSET Slots]
    BY <1>0, <1>2, <2>1
       DEF TypeInv, Enter, LookUp, TryLock, GiveUp, EndRun, CancelInThread, Pop, Unlock
  <2> QED
    BY <1>1, <1>2, <2>2, TaskKinds DEF TypeInv
<1>3. ASSUME NEW p \in Procs, GhostLock(p) PROVE TypeInv'
  BY <1>3, GhostKind DEF TypeInv, TaskInv, Locked
<1>4. CASE UNCHANGED vars
  BY <1>4 DEF vars, TypeInv, TaskInv
<1> QED
  BY <1>2, <1>3, <1>4 DEF Next

\* Initially every task is idle and no slot is taken.
LEMMA TypeInit == Init => TypeInv
<1> SUFFICES ASSUME Init PROVE TypeInv
  OBVIOUS
<1>1. IdleTask \in TaskStates /\ <<>> \in Seq(Slots)
  BY DEF IdleTask, TaskStates, PCs
<1>2. \A t \in Tasks : InOrder(t, IdleTask)
  BY SlotAssumption DEF InOrder, IdleTask
<1> QED
  BY <1>1, <1>2 DEF Init, TypeInv, TaskInv

\* The model is in order in every behaviour.
LEMMA InOrderHolds == Spec => []TypeInv
BY TypeInit, TypeStep, PTL DEF Spec

(***************************************************************************)
(* The locks.  LocksAreRecorded is not inductive: to give a lock back must *)
(* leave nobody else with it, so a slot that is being given back is in no  *)
(* _held_connections of its process, and only one task gives it back.      *)
(***************************************************************************)
GivesBack(t, s) == task[t].pc = "unlock" /\ task[t].slot = s

RecordInv ==
    /\ LocksAreRecorded
    /\ \A t \in Tasks, s \in Slots : GivesBack(t, s) => s \notin held[Home[t]]
    /\ \A t, u \in Tasks, s \in Slots : GivesBack(t, s) /\ GivesBack(u, s) => t = u

\* Taking a lock, whoever does it, records it.
LEMMA TakeRecorded ==
    ASSUME TypeInv, RecordInv, NEW p \in Procs, NEW s \in Slots, Locked(p, s),
           \A t \in Tasks, r \in Slots : GivesBack(t, r)' <=> GivesBack(t, r)
    PROVE  RecordInv'
<1>1. NoProc \notin Procs /\ \A t \in Tasks : Home[t] \in Procs
  BY SlotAssumption
<1>2. /\ \A r \in Slots : lock'[r] = IF r = s THEN p ELSE lock[r]
      /\ \A q \in Procs, r \in Slots : r \in held'[q] <=> (r \in held[q] \/ (q = p /\ r = s))
      /\ lock[s] = NoProc
  BY DEF TypeInv, Locked
<1>3. (\A t \in Tasks : ~ GivesBack(t, s)) /\ \A q \in Procs : s \notin held[q]
  BY <1>1, <1>2 DEF RecordInv, LocksAreRecorded, GivesBack
<1>4. \A q \in Procs, r \in Slots :
        lock'[r] = q <=> r \in held'[q] \/ \E t \in Tasks : Home[t] = q /\ GivesBack(t, r)'
  <2>1. \A q \in Procs, r \in Slots :
          lock[r] = q <=> r \in held[q] \/ \E t \in Tasks : Home[t] = q /\ GivesBack(t, r)
    BY DEF RecordInv, LocksAreRecorded, GivesBack
  <2>2. ASSUME NEW q \in Procs, NEW r \in Slots
        PROVE  lock'[r] = q <=> r \in held'[q] \/ \E t \in Tasks : Home[t] = q /\ GivesBack(t, r)'
    <3>1. CASE r = s
      BY <1>1, <1>2, <1>3, <3>1
    <3>2. CASE r # s
      BY <1>2, <2>1, <3>2
    <3> QED
      BY <3>1, <3>2
  <2> QED
    BY <2>2
<1>5. LocksAreRecorded'
  BY <1>4 DEF LocksAreRecorded, GivesBack
<1>6. \A t \in Tasks, r \in Slots : GivesBack(t, r)' => r \notin held'[Home[t]]
  BY <1>1, <1>2, <1>3 DEF RecordInv
<1>7. \A t, u \in Tasks, r \in Slots : GivesBack(t, r)' /\ GivesBack(u, r)' => t = u
  BY DEF RecordInv
<1> QED
  BY <1>5, <1>6, <1>7 DEF RecordInv, GivesBack

\* Nothing changes for the locks.
LEMMA QuietRecorded ==
    ASSUME RecordInv, UNCHANGED <<lock, held>>,
           \A t \in Tasks, r \in Slots : GivesBack(t, r)' <=> GivesBack(t, r)
    PROVE  RecordInv'
<1>1. LocksAreRecorded'
  <2>1. \A q \in Procs, r \in Slots :
          lock[r] = q <=> r \in held[q] \/ \E t \in Tasks : Home[t] = q /\ GivesBack(t, r)
    BY DEF RecordInv, LocksAreRecorded, GivesBack
  <2>2. \A q \in Procs, r \in Slots :
          lock'[r] = q <=> r \in held'[q] \/ \E t \in Tasks : Home[t] = q /\ GivesBack(t, r)'
    BY <2>1
  <2> QED
    BY <2>2 DEF LocksAreRecorded, GivesBack
<1>2. \A t \in Tasks, r \in Slots : GivesBack(t, r)' => r \notin held'[Home[t]]
  BY DEF RecordInv
<1>3. \A t, u \in Tasks, r \in Slots : GivesBack(t, r)' /\ GivesBack(u, r)' => t = u
  BY DEF RecordInv
<1> QED
  BY <1>1, <1>2, <1>3 DEF RecordInv, GivesBack

\* A slot leaves _held_connections for the task that gives it back.
LEMMA DropRecorded ==
    ASSUME TypeInv, RecordInv, NEW t \in Tasks, Drop(t)
    PROVE  RecordInv'
<1>1. NoProc \notin Procs /\ \A u \in Tasks : Home[u] \in Procs
  BY SlotAssumption
<1>2. PICK i \in 1..Len(task[t].got) :
          /\ task[t].got[i] \in held[Home[t]]
          /\ held' = [held EXCEPT ![Home[t]] = @ \ {task[t].got[i]}]
          /\ \E k \in TaskStates : Moves(t, k) /\ k.pc = "unlock" /\ k.slot = task[t].got[i]
  BY DEF Drop
<1> DEFINE s == task[t].got[i]
<1>3. s \in Slots /\ s \in held[Home[t]]
  BY <1>1, <1>2 DEF TypeInv
<1>4. \A q \in Procs, r \in Slots : r \in held'[q] <=> (r \in held[q] /\ ~ (q = Home[t] /\ r = s))
  BY <1>1, <1>2 DEF TypeInv
<1>5. /\ task'[t].pc = "unlock" /\ task'[t].slot = s
      /\ \A u \in Tasks : u # t => task'[u] = task[u]
  BY <1>2 DEF TypeInv, TaskInv, Moves
<1>6. task[t].pc = "unwind" /\ lock' = lock
  BY DEF Drop
<1> HIDE DEF s
<1>7. \A u \in Tasks, r \in Slots : GivesBack(u, r)' <=> (GivesBack(u, r) \/ (u = t /\ r = s))
  BY <1>5, <1>6 DEF GivesBack
<1>8. lock[s] = Home[t] /\ \A u \in Tasks : ~ GivesBack(u, s)
  <2>1. lock[s] = Home[t]
    BY <1>1, <1>3 DEF RecordInv, LocksAreRecorded
  <2>2. ASSUME NEW u \in Tasks, GivesBack(u, s) PROVE FALSE
    <3>1. lock[s] = Home[u]
      BY <1>1, <1>3, <2>2 DEF RecordInv, LocksAreRecorded, GivesBack
    <3> QED
      BY <1>3, <2>1, <2>2, <3>1 DEF RecordInv
  <2> QED
    BY <2>1, <2>2
<1>9. LocksAreRecorded'
  <2>1. \A q \in Procs, r \in Slots :
          lock[r] = q <=> r \in held[q] \/ \E u \in Tasks : Home[u] = q /\ GivesBack(u, r)
    BY DEF RecordInv, LocksAreRecorded, GivesBack
  <2>2. ASSUME NEW q \in Procs, NEW r \in Slots
        PROVE  lock'[r] = q <=> r \in held'[q] \/ \E u \in Tasks : Home[u] = q /\ GivesBack(u, r)'
    <3>1. CASE r = s
      BY <1>1, <1>4, <1>6, <1>7, <1>8, <2>1, <3>1
    <3>2. CASE r # s
      BY <1>4, <1>6, <1>7, <2>1, <3>2
    <3> QED
      BY <3>1, <3>2
  <2> QED
    BY <2>2 DEF LocksAreRecorded, GivesBack
<1>10. \A u \in Tasks, r \in Slots : GivesBack(u, r)' => r \notin held'[Home[u]]
  BY <1>1, <1>4, <1>7 DEF RecordInv
<1>11. \A u, v \in Tasks, r \in Slots : GivesBack(u, r)' /\ GivesBack(v, r)' => u = v
  BY <1>7, <1>8 DEF RecordInv
<1> QED
  BY <1>9, <1>10, <1>11 DEF RecordInv, GivesBack

\* The lock that was given back is nobody's.
LEMMA FreeRecorded ==
    ASSUME TypeInv, RecordInv, NEW t \in Tasks, Free(t)
    PROVE  RecordInv'
<1>1. NoProc \notin Procs /\ \A u \in Tasks : Home[u] \in Procs
  BY SlotAssumption
<1> DEFINE s == task[t].slot
<1>2. s \in Slots /\ GivesBack(t, s)
  BY DEF Free, TypeInv, TaskInv, InOrder, GivesBack
<1>3. /\ task'[t].pc = "unwind"
      /\ \A u \in Tasks : u # t => task'[u] = task[u]
      /\ held' = held
      /\ \A r \in Slots : lock'[r] = IF r = s THEN NoProc ELSE lock[r]
  BY DEF Free, TypeInv, TaskInv, Moves
<1>4. task[t].pc = "unlock"
  BY DEF Free
<1>5. \A u \in Tasks, r \in Slots : GivesBack(u, r)' <=> (GivesBack(u, r) /\ u # t)
  BY <1>3 DEF GivesBack
<1>6. lock[s] = Home[t]
  BY <1>1, <1>2 DEF RecordInv, LocksAreRecorded, GivesBack
<1>7. \A r \in Slots : GivesBack(t, r) => r = s
  BY DEF GivesBack
<1> HIDE DEF s
<1>8. LocksAreRecorded'
  <2>1. \A q \in Procs, r \in Slots :
          lock[r] = q <=> r \in held[q] \/ \E u \in Tasks : Home[u] = q /\ GivesBack(u, r)
    BY DEF RecordInv, LocksAreRecorded, GivesBack
  <2>2. \A q \in Procs : s \notin held[q]
    BY <1>2, <1>6, <2>1 DEF RecordInv
  <2>3. \A u \in Tasks : GivesBack(u, s) => u = t
    BY <1>2 DEF RecordInv
  <2>4. ASSUME NEW q \in Procs, NEW r \in Slots
        PROVE  lock'[r] = q <=> r \in held'[q] \/ \E u \in Tasks : Home[u] = q /\ GivesBack(u, r)'
    <3>1. CASE r = s
      BY <1>1, <1>3, <1>5, <2>2, <2>3, <3>1
    <3>2. CASE r # s
      BY <1>3, <1>5, <1>7, <2>1, <3>2
    <3> QED
      BY <3>1, <3>2
  <2> QED
    BY <2>4 DEF LocksAreRecorded, GivesBack
<1>9. \A u \in Tasks, r \in Slots : GivesBack(u, r)' => r \notin held'[Home[u]]
  BY <1>3, <1>5 DEF RecordInv
<1>10. \A u, v \in Tasks, r \in Slots : GivesBack(u, r)' /\ GivesBack(v, r)' => u = v
  BY <1>5 DEF RecordInv
<1> QED
  BY <1>8, <1>9, <1>10 DEF RecordInv, GivesBack
\* What is given back by whom changes with a step of a task only if it drops or
\* frees a slot.
LEMMA QuietTask ==
    ASSUME TypeInv, NEW t \in Tasks, Quiet(t) \/ Take(t)
    PROVE  \A u \in Tasks, r \in Slots : GivesBack(u, r)' <=> GivesBack(u, r)
<1>1. task[t].pc # "unlock" /\ \E k \in TaskStates : Moves(t, k) /\ k.pc # "unlock"
  BY DEF Quiet, Take
<1>2. task'[t].pc # "unlock" /\ \A u \in Tasks : u # t => task'[u] = task[u]
  BY <1>1 DEF Moves, TypeInv, TaskInv
<1> QED
  BY <1>1, <1>2 DEF GivesBack

\* The records and the locks agree after every step.
LEMMA RecordStep == TypeInv /\ RecordInv /\ [Next]_vars => RecordInv'
<1> SUFFICES ASSUME TypeInv, RecordInv, [Next]_vars PROVE RecordInv'
  OBVIOUS
<1>1. ASSUME NEW t \in Tasks, Quiet(t) \/ Take(t) \/ Drop(t) \/ Free(t) PROVE RecordInv'
  <2>1. CASE Quiet(t)
    BY <2>1, QuietTask, QuietRecorded DEF Quiet
  <2>2. CASE Take(t)
    <3>1. Home[t] \in Procs /\ task[t].slot \in Slots
      BY <2>2, SlotAssumption DEF Take, TypeInv, TaskInv, InOrder
    <3>2. Locked(Home[t], task[t].slot)
      BY <2>2 DEF Take
    <3> QED
      BY <2>2, <3>1, <3>2, QuietTask, TakeRecorded
  <2> QED
    BY <1>1, <2>1, <2>2, DropRecorded, FreeRecorded
<1>2. ASSUME NEW p \in Procs, GhostLock(p) PROVE RecordInv'
  <2>1. task' = task /\ (UNCHANGED <<lock, held>> \/ \E s \in Slots : Locked(p, s))
    BY <1>2, GhostKind
  <2>2. \A u \in Tasks, r \in Slots : GivesBack(u, r)' <=> GivesBack(u, r)
    BY <2>1 DEF GivesBack
  <2> QED
    BY <2>1, <2>2, TakeRecorded, QuietRecorded
<1>3. CASE UNCHANGED vars
  <2>1. \A u \in Tasks, r \in Slots : GivesBack(u, r)' <=> GivesBack(u, r)
    BY <1>3 DEF vars, GivesBack
  <2> QED
    BY <1>3, <2>1, QuietRecorded DEF vars
<1> QED
  BY <1>1, <1>2, <1>3, TaskKinds DEF Next

\* Initially nothing is locked and nothing recorded.
LEMMA RecordInit == Init => RecordInv
BY SlotAssumption DEF Init, RecordInv, LocksAreRecorded, GivesBack, IdleTask

\* The records agree with the locks in every behaviour.
LEMMA RecordHolds == Spec => []RecordInv
BY InOrderHolds, RecordInit, RecordStep, PTL DEF Spec

\* A lock at the server is in the _held_connections of its process, or a task of
\* that process is giving it back, whatever tasks were cancelled and whichever
\* of their threads went on.
THEOREM Recorded == Spec => []LocksAreRecorded
<1>1. RecordInv => LocksAreRecorded
  BY DEF RecordInv
<1> QED
  BY <1>1, RecordHolds, PTL

(***************************************************************************)
(* Exclusive keys.  A semaphore that is kept lets one task of its process  *)
(* at a time have a key of limit 1, so nobody else in the process drops    *)
(* the slot that a live task has; and the lock keeps the other processes   *)
(* out.                                                                    *)
(***************************************************************************)
Alone(t) ==
    \A u \in Tasks, k \in KeysHere(t) :
        /\ k \in Kept /\ Limit[k] = 1 /\ k \in KeysHere(u) /\ Home[u] = Home[t]
        /\ task[t].pc # "idle" /\ task[u].pc # "idle"
        => u = t

\* the slot of an agent with max_concurrency 1
Exclusively(s) == s[1] \in Kept /\ Limit[s[1]] = 1

Has(t) ==
    task[t].pc \in Live =>
        \A i \in 1..Len(task[t].got) :
            Exclusively(task[t].got[i]) => task[t].got[i] \in held[Home[t]]

ExclusiveInv == \A t \in Tasks : Alone(t) /\ Has(t)

\* The keys of a task are keys with a limit; the slots it has are of its keys.
LEMMA OwnKeys ==
    ASSUME TypeInv, NEW t \in Tasks
    PROVE  /\ KeysHere(t) \subseteq DOMAIN Limit
           /\ \A i \in 1..Len(task[t].got) : task[t].got[i] \in Slots /\ task[t].got[i][1] \in KeysHere(t)
<1>1. Needs[t] \in Seq(DOMAIN Limit) /\ Len(Needs[t]) \in Nat
  BY SlotAssumption
<1>2. /\ task[t].got \in Seq(Slots) /\ Len(task[t].got) <= Len(Needs[t])
      /\ \A i \in 1..Len(task[t].got) : task[t].got[i][1] = Needs[t][i]
  BY DEF TypeInv, TaskInv, TaskStates, InOrder
<1>3. \A i \in 1..Len(Needs[t]) : Needs[t][i] \in DOMAIN Limit
  BY <1>1
<1> QED
  BY <1>1, <1>2, <1>3 DEF KeysHere

\* A task that leaves idle finds nobody in its process with an exclusive key of
\* its own.
LEMMA AdmittedAlone ==
    ASSUME TypeInv, NEW t \in Tasks, Admitted(t), NEW u \in Tasks, NEW k \in KeysHere(t) \cap Kept,
           Limit[k] = 1, k \in KeysHere(u), Home[u] = Home[t]
    PROVE  task[u].pc = "idle"
<1> DEFINE here == {v \in Tasks : Home[v] = Home[t] /\ task[v].pc # "idle" /\ k \in KeysHere(v)}
<1>1. IsFiniteSet(here)
  BY SlotAssumption, FS_Subset
<1>2. Cardinality(here) < 1
  BY DEF Admitted
<1>3. Cardinality(here) = 0
  BY <1>1, <1>2, FS_CardinalityType
<1>4. here = {}
  BY <1>1, <1>3, FS_EmptySet
<1> QED
  BY <1>4

\* A task stays alone with its exclusive keys.
LEMMA AloneStep ==
    ASSUME TypeInv, ExclusiveInv, NEW t \in Tasks,
           Quiet(t) \/ Take(t) \/ Drop(t) \/ Free(t)
    PROVE  \A u \in Tasks : Alone(u)'
<1>1. \A u \in Tasks : u # t => task'[u] = task[u]
  BY DEF Quiet, Take, Drop, Free, Moves, TypeInv, TaskInv
<1>2. task[t].pc # "idle" \/ Admitted(t)
  BY DEF Quiet, Take, Drop, Free
<1>3. CASE task[t].pc # "idle"
  BY <1>1, <1>3 DEF ExclusiveInv, Alone
<1>4. CASE Admitted(t)
  <2>1. \A u \in Tasks, k \in KeysHere(t) \cap Kept :
          Limit[k] = 1 /\ k \in KeysHere(u) /\ Home[u] = Home[t] => task[u].pc = "idle"
    BY <1>4, AdmittedAlone
  <2> QED
    BY <1>1, <2>1 DEF ExclusiveInv, Alone
<1> QED
  BY <1>2, <1>3, <1>4

\* Where no record is lost, the tasks other than t have what they had.
LEMMA OthersHave ==
    ASSUME TypeInv, ExclusiveInv, NEW t \in Tasks,
           \A u \in Tasks : u # t => task'[u] = task[u],
           \A q \in Procs : held[q] \subseteq held'[q]
    PROVE  \A u \in Tasks : u # t => Has(u)'
<1>1. \A u \in Tasks : Home[u] \in Procs
  BY SlotAssumption
<1> QED
  BY <1>1 DEF ExclusiveInv, Has

\* A task that keeps its slots, or adds one it now has, has them all.
LEMMA KeeperHas ==
    ASSUME TypeInv, ExclusiveInv, NEW t \in Tasks, NEW k \in TaskStates,
           Moves(t, k), Keeps(t, k), held[Home[t]] \subseteq held'[Home[t]]
    PROVE  Has(t)'
<1>1. task'[t] = k
  BY DEF Moves, TypeInv, TaskInv
<1>2. SUFFICES ASSUME k.pc \in Live, NEW i \in 1..Len(k.got), Exclusively(k.got[i])
               PROVE  k.got[i] \in held'[Home[t]]
  BY <1>1 DEF Has
<1>3. \A j \in 1..Len(task[t].got) :
        task[t].pc \in Live /\ Exclusively(task[t].got[j]) => task[t].got[j] \in held'[Home[t]]
  BY DEF ExclusiveInv, Has
<1>4. CASE k.got = <<>>
  BY <1>2, <1>4
<1>5. CASE task[t].pc \in Live /\ k.got = task[t].got
  BY <1>2, <1>3, <1>5
<1>6. CASE /\ task[t].pc \in Live /\ k.got = Append(task[t].got, task[t].slot)
           /\ task[t].slot \in held'[Home[t]]
  <2>1. task[t].got \in Seq(Slots)
    BY DEF TypeInv, TaskInv, TaskStates
  <2>2. i = Len(task[t].got) + 1 \/ i \in 1..Len(task[t].got)
    BY <1>2, <1>6, <2>1
  <2>3. CASE i = Len(task[t].got) + 1
    BY <1>6, <2>1, <2>3
  <2>4. CASE i \in 1..Len(task[t].got)
    <3>1. k.got[i] = task[t].got[i]
      BY <1>6, <2>1, <2>4
    <3> QED
      BY <1>2, <1>3, <1>6, <2>4, <3>1
  <2> QED
    BY <2>2, <2>3, <2>4
<1> QED
  BY <1>2, <1>4, <1>5, <1>6 DEF Keeps

\* Every live task has the slots of its exclusive keys after every step.
LEMMA ExclusiveStep == TypeInv /\ ExclusiveInv /\ [Next]_vars => ExclusiveInv'
<1> SUFFICES ASSUME TypeInv, ExclusiveInv, [Next]_vars PROVE ExclusiveInv'
  OBVIOUS
<1>0. \A t \in Tasks : Home[t] \in Procs
  BY SlotAssumption
<1>1. ASSUME NEW t \in Tasks, Quiet(t) \/ Take(t) \/ Drop(t) \/ Free(t) PROVE ExclusiveInv'
  <2>1. \A u \in Tasks : u # t => task'[u] = task[u]
    BY <1>1 DEF Quiet, Take, Drop, Free, Moves, TypeInv, TaskInv
  <2>2. CASE Quiet(t) \/ Take(t)
    <3>1. \A q \in Procs : held[q] \subseteq held'[q]
      BY <1>0, <2>2 DEF Quiet, Take, Locked, TypeInv
    <3>2. Has(t)'
      BY <1>0, <2>2, <3>1, KeeperHas DEF Quiet, Take
    <3> QED
      BY <1>1, <2>1, <3>1, <3>2, AloneStep, OthersHave DEF ExclusiveInv
  <2>3. CASE Free(t)
    <3>1. held' = held /\ task'[t].pc \notin Live
      BY <2>3 DEF Free, Moves, TypeInv, TaskInv, Live
    <3>2. Has(t)'
      BY <3>1 DEF Has
    <3> QED
      BY <1>1, <2>1, <3>1, <3>2, AloneStep, OthersHave DEF ExclusiveInv
  <2>4. CASE Drop(t)
    <3>1. PICK i \in 1..Len(task[t].got) :
              held' = [held EXCEPT ![Home[t]] = @ \ {task[t].got[i]}]
      BY <2>4 DEF Drop
    <3>2. task'[t].pc \notin Live /\ task[t].pc # "idle"
      BY <2>4 DEF Drop, Moves, TypeInv, TaskInv, Live
    <3>3. ASSUME NEW u \in Tasks, u # t PROVE Has(u)'
      <4>1. SUFFICES ASSUME task[u].pc \in Live, NEW j \in 1..Len(task[u].got),
                            Exclusively(task[u].got[j])
                     PROVE  task[u].got[j] \in held'[Home[u]]
        BY <2>1, <3>3 DEF Has
      <4>2. task[u].got[j] \in held[Home[u]] /\ task[u].pc # "idle"
        BY <4>1 DEF ExclusiveInv, Has, Live
      <4>3. task[u].got[j] = task[t].got[i] => Home[u] # Home[t]
        <5>1. task[u].got[j][1] \in KeysHere(u) /\ task[t].got[i][1] \in KeysHere(t)
          BY OwnKeys
        <5> QED
          BY <3>2, <3>3, <4>1, <4>2, <5>1 DEF ExclusiveInv, Alone, Exclusively
      <4> QED
        BY <1>0, <3>1, <4>2, <4>3 DEF TypeInv
    <3>4. Has(t)'
      BY <3>2 DEF Has
    <3> QED
      BY <1>1, <3>3, <3>4, AloneStep DEF ExclusiveInv
  <2> QED
    BY <1>1, <2>2, <2>3, <2>4
<1>2. ASSUME NEW p \in Procs, GhostLock(p) PROVE ExclusiveInv'
  <2>1. task' = task /\ \A q \in Procs : held[q] \subseteq held'[q]
    BY <1>2, GhostKind DEF Locked, TypeInv
  <2> QED
    BY <1>0, <2>1 DEF ExclusiveInv, Alone, Has
<1>3. CASE UNCHANGED vars
  BY <1>3 DEF vars, ExclusiveInv, Alone, Has
<1> QED
  BY <1>1, <1>2, <1>3, TaskKinds DEF Next

\* Initially nobody has anything.
LEMMA ExclusiveInit == Init => ExclusiveInv
BY DEF Init, ExclusiveInv, Alone, Has, IdleTask, Live

\* Of the runs that need a key of limit 1 at most one executes in the cluster.
THEOREM Exclusive == Spec => []ExclusiveKeys
<1>1. TypeInv /\ RecordInv /\ ExclusiveInv => ExclusiveKeys
  <2> SUFFICES ASSUME TypeInv, RecordInv, ExclusiveInv,
                      NEW k \in Kept, Limit[k] = 1,
                      NEW t \in Tasks, NEW u \in Tasks,
                      task[t].pc = "run", task[u].pc = "run", k \in KeysHere(t), k \in KeysHere(u)
               PROVE  t = u
    BY DEF ExclusiveKeys
  <2>1. ASSUME NEW v \in Tasks, task[v].pc = "run", k \in KeysHere(v)
        PROVE  lock[<<k, 0>>] = Home[v]
    <3>1. PICK i \in 1..Len(Needs[v]) : k = Needs[v][i]
      BY <2>1 DEF KeysHere
    <3>2. /\ i \in 1..Len(task[v].got) /\ task[v].got[i][1] = k
      BY <2>1, <3>1 DEF TypeInv, TaskInv, InOrder
    <3>3. task[v].got[i] \in Slots /\ task[v].got[i] = <<k, 0>>
      BY <3>2, OwnKeys, SlotFacts
    <3>4. <<k, 0>> \in held[Home[v]]
      BY <2>1, <3>2, <3>3 DEF ExclusiveInv, Has, Live, Exclusively
    <3> QED
      BY <3>3, <3>4, SlotAssumption DEF RecordInv, LocksAreRecorded
  <2>2. Home[t] = Home[u]
    BY <2>1
  <2> QED
    BY <2>2 DEF ExclusiveInv, Alone
<1>2. Spec => []ExclusiveInv
  BY InOrderHolds, ExclusiveInit, ExclusiveStep, PTL DEF Spec
<1> QED
  BY <1>1, <1>2, InOrderHolds, RecordHolds, PTL
=============================================================================
