------------------------------ MODULE SlotLocks ------------------------------
(***************************************************************************)
(* The cluster's concurrency slots: RunScheduler._run_with_distributed_    *)
(* limits and infra/coordination.py with PostgreSQL advisory locks.        *)
(*                                                                         *)
(* A key with limit n is n slots, each an advisory lock.  A process keeps  *)
(* the connection of every lock it took in _held_connections and answers   *)
(* "acquired" for a slot that is in there.  An acquisition runs in a pool  *)
(* thread: it looks the slot up, borrows a connection, tries the lock.  A  *)
(* cancelled task leaves its thread behind, which goes on (a ghost).       *)
(*                                                                         *)
(* A task gets here after the semaphores of its own process (Admission).   *)
(* They bound its tasks per key where the semaphore is never replaced,     *)
(* which is so of the agents' (Kept); a reload drops the global, route and *)
(* caller ones, the end of a root those of its tree, and the tasks of the  *)
(* old and the new semaphore are then here together.                       *)
(***************************************************************************)
EXTENDS Integers, Sequences, FiniteSets

CONSTANTS
    Procs, NoProc,
    Tasks,     \* runs
    Home,      \* the process of a task
    Needs,     \* per task: the keys it needs, in the order of the code
    Limit,     \* per key: max(1, limit)
    Kept,      \* the keys whose semaphore a process never replaces
    PoolMax    \* coordination_pool_max_size

ASSUME SlotAssumption ==
    /\ NoProc \notin Procs
    /\ IsFiniteSet(Tasks)
    /\ \A t \in Tasks : Home[t] \in Procs
    /\ \A k \in DOMAIN Limit : Limit[k] \in Nat \ {0}
    /\ Kept \subseteq DOMAIN Limit
    /\ \A t \in Tasks : Needs[t] \in Seq(DOMAIN Limit) /\ Needs[t] # <<>>
    /\ PoolMax \in Nat

VARIABLES
    task,   \* per task: pc, the slot being tried, the slots on its exit stack
    lock,   \* the server: the process whose session holds the advisory lock
    held,   \* per process: the slots in _held_connections
    lent,   \* per process: connections out of the pool
    ghost   \* per process: slots whose thread goes on without its task

vars == <<task, lock, held, lent, ghost>>

Slots == UNION {{<<k, i>> : i \in 0..(Limit[k] - 1)} : k \in DOMAIN Limit}

\* the keys the task has, or is about to take
KeysHere(t) == {Needs[t][i] : i \in 1..Len(Needs[t])}

IdleTask == [pc |-> "idle", slot |-> <<>>, got |-> <<>>]

Init ==
    /\ task = [t \in Tasks |-> IdleTask]
    /\ lock = [s \in Slots |-> NoProc]
    /\ held = [p \in Procs |-> {}]
    /\ lent = [p \in Procs |-> 0]
    /\ ghost = [p \in Procs |-> {}]

Step(t, pc, slot, got) == task' = [task EXCEPT ![t] = [pc |-> pc, slot |-> slot, got |-> got]]

\* the slot after s in the loop over range(limit), or the first one again
Following(s) == <<s[1], (s[2] + 1) % Limit[s[1]]>>

\* the slot was acquired: try the next key, or execute
Advance(t, s) ==
    LET got == Append(task[t].got, s)
    IN  IF Len(got) < Len(Needs[t])
        THEN Step(t, "check", <<Needs[t][Len(got) + 1], 0>>, got)
        ELSE Step(t, "run", <<>>, got)

Enter(t) ==
    /\ task[t].pc = "idle"
    /\ \A k \in KeysHere(t) \cap Kept :
          Cardinality({u \in Tasks : Home[u] = Home[t] /\ task[u].pc # "idle" /\ k \in KeysHere(u)})
          < Limit[k]
    /\ Step(t, "check", <<Needs[t][1], 0>>, <<>>)
    /\ UNCHANGED <<lock, held, lent, ghost>>

\* _blocking_acquire: the process has the slot already, or borrows a connection;
\* an empty pool raises, which try_acquire() turns into False
LookUp(t) ==
    LET p == Home[t]
        s == task[t].slot
    IN  /\ task[t].pc = "check"
        /\ IF s \in held[p]
           THEN Advance(t, s) /\ UNCHANGED lent
           ELSE IF lent[p] = PoolMax
                THEN Step(t, "check", Following(s), task[t].got) /\ UNCHANGED lent
                ELSE Step(t, "lock", s, task[t].got) /\ lent' = [lent EXCEPT ![p] = @ + 1]
        /\ UNCHANGED <<lock, held, ghost>>

\* variant: the slot is not recorded in _held_connections
LockedUnrecorded(p, s) ==
    /\ lock[s] = NoProc
    /\ lock' = [lock EXCEPT ![s] = p]
    /\ UNCHANGED <<held, lent>>

\* variant: the lock is taken for granted
LockedAnyway(p, s) ==
    /\ lock' = [lock EXCEPT ![s] = p]
    /\ held' = [held EXCEPT ![p] = @ \cup {s}]
    /\ UNCHANGED lent

\* pg_try_advisory_lock answered yes
Locked(p, s) ==
    /\ lock[s] = NoProc
    /\ lock' = [lock EXCEPT ![s] = p]
    /\ held' = [held EXCEPT ![p] = @ \cup {s}]
    /\ UNCHANGED lent

\* no: the connection goes back, unless another thread of the process has
\* recorded the slot meanwhile (then nobody returns it)
NotLocked(p, s) ==
    /\ lock[s] # NoProc
    /\ lent' = IF s \in held[p] THEN lent ELSE [lent EXCEPT ![p] = @ - 1]
    /\ UNCHANGED <<lock, held>>

\* the statement raised: the connection is returned (a second putconn of it
\* raises PoolError), and try_acquire() answers False
LockRaised(p, s) ==
    /\ lent' = [lent EXCEPT ![p] = @ - 1]
    /\ UNCHANGED <<lock, held>>

TryLock(t) ==
    LET p == Home[t]
        s == task[t].slot
    IN  /\ task[t].pc = "lock"
        /\ \/ Locked(p, s) /\ Advance(t, s)
           \/ (NotLocked(p, s) \/ LockRaised(p, s)) /\ Step(t, "check", Following(s), task[t].got)
        /\ UNCHANGED ghost

\* the same thread after its task was cancelled
GhostLock(p) ==
    \E s \in ghost[p] :
        /\ Locked(p, s) \/ NotLocked(p, s) \/ LockRaised(p, s)
        /\ ghost' = [ghost EXCEPT ![p] = @ \ {s}]
        /\ UNCHANGED task

\* the deadline passed: "Scheduler coordination slot unavailable"
GiveUp(t) ==
    /\ task[t].pc = "check" /\ task[t].slot[2] = 0
    /\ Step(t, "unwind", <<>>, task[t].got)
    /\ UNCHANGED <<lock, held, lent, ghost>>

\* the execution ended, or CancelledError arrived in it
EndRun(t) ==
    /\ task[t].pc = "run"
    /\ Step(t, "unwind", <<>>, task[t].got)
    /\ UNCHANGED <<lock, held, lent, ghost>>

\* cancellation while the thread tries the lock
CancelInThread(t) ==
    /\ task[t].pc = "lock"
    /\ task[t].slot \notin ghost[Home[t]]
    /\ ghost' = [ghost EXCEPT ![Home[t]] = @ \cup {task[t].slot}]
    /\ Step(t, "unwind", <<>>, task[t].got)
    /\ UNCHANGED <<lock, held, lent>>

\* _blocking_release, first half: the connection is popped; nothing more to do
\* when the process no longer has the slot
Pop(t) ==
    LET s    == task[t].got[Len(task[t].got)]
        rest == SubSeq(task[t].got, 1, Len(task[t].got) - 1)
    IN  /\ task[t].pc = "unwind"
        /\ IF task[t].got = <<>>
           THEN Step(t, "idle", <<>>, <<>>) /\ UNCHANGED held
           ELSE /\ held' = [held EXCEPT ![Home[t]] = @ \ {s}]
                /\ IF s \in held[Home[t]] THEN Step(t, "unlock", s, rest)
                                          ELSE Step(t, "unwind", <<>>, rest)
        /\ UNCHANGED <<lock, lent, ghost>>

\* second half: pg_advisory_unlock, putconn
Unlock(t) ==
    /\ task[t].pc = "unlock"
    /\ lock' = [lock EXCEPT ![task[t].slot] = NoProc]
    /\ lent' = [lent EXCEPT ![Home[t]] = @ - 1]
    /\ Step(t, "unwind", <<>>, task[t].got)
    /\ UNCHANGED <<held, ghost>>

Next ==
    \/ \E t \in Tasks : \/ Enter(t) \/ LookUp(t) \/ TryLock(t) \/ GiveUp(t) \/ EndRun(t)
                        \/ CancelInThread(t) \/ Pop(t) \/ Unlock(t)
    \/ \E p \in Procs : GhostLock(p)

Spec == Init /\ [][Next]_vars

-----------------------------------------------------------------------------
TypeOK ==
    /\ \A t \in Tasks : /\ task[t].pc \in {"idle", "check", "lock", "run", "unwind", "unlock"}
                        /\ task[t].slot \in Slots \cup {<<>>}
                        /\ task[t].got \in Seq(Slots)
    /\ lock \in [Slots -> Procs \cup {NoProc}]
    /\ held \in [Procs -> SUBSET Slots]
    /\ lent \in [Procs -> 0..PoolMax]
    /\ ghost \in [Procs -> SUBSET Slots]

\* A lock that a process holds at the server is in its _held_connections, or is
\* being given back: no thread, cancelled or not, leaves a lock that the next
\* user of the slot in that process could not find and release.
LocksAreRecorded ==
    \A p \in Procs : \A s \in Slots :
        lock[s] = p <=> \/ s \in held[p]
                        \/ \E t \in Tasks : Home[t] = p /\ task[t].pc = "unlock" /\ task[t].slot = s

\* An agent with max_concurrency 1 is exclusive in the whole cluster: through shared
\* slots of its other keys, cancelled acquisitions and statements that raise, at most
\* one run that needs its key executes (as long as no session is lost while it holds
\* a lock).  Not so of a key of limit 1 whose semaphore was replaced in a process:
\* there two runs are told that they have the one slot.
ExclusiveKeys ==
    \A k \in Kept :
        Limit[k] = 1 => \A t, u \in {x \in Tasks : task[x].pc = "run" /\ k \in KeysHere(x)} : t = u

\* scheduler.py:1-3: "applying global / per-route-tag / per-caller limits via
\* local semaphores or a distributed coordination backend": in the cluster, no
\* more runs execute than the limit says.
ClusterLimit ==
    \A k \in DOMAIN Limit :
        Cardinality({t \in Tasks : task[t].pc = "run" /\ k \in KeysHere(t)}) <= Limit[k]
=============================================================================
