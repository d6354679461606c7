------------------------------ MODULE Admission ------------------------------
(***************************************************************************)
(* RunScheduler (orchestration/scheduler.py) in ONE process whose          *)
(* coordination scope is the process: the semaphores a run takes before it *)
(* executes, the exemptions of child runs, cancellation at every await,    *)
(* and reconfigure().  The cluster slots are module SlotLocks.             *)
(*                                                                         *)
(* The runs form fixed trees (parent_run_id in the metadata).  A task      *)
(* admits one run: a child is normally executed and awaited by a task of   *)
(* its parent (run_child_agent); recovery, a worker's claim or an          *)
(* operator's retry start it in a background task.  run_now enters         *)
(* run_with_limits before the executor looks at the ownership, and a       *)
(* claim does not see the children that run inline, so one run may have    *)
(* both tasks: they share its entry in _active_run_holders and its lanes.  *)
(*                                                                         *)
(* Semaphores are objects: reconfigure() and the end of a run drop them    *)
(* from the dictionaries while tasks may still hold or await them.  The    *)
(* value of one is its capacity less the runs that hold it, since the      *)
(* exit stack releases what it entered; an entry nobody uses is dropped    *)
(* from the model, since a lookup makes an equal one.  A task takes free   *)
(* semaphores in a row and is suspended at the first one that is not free. *)
(***************************************************************************)
EXTENDS Integers, Sequences, FiniteSets

CONSTANTS
    Runs,         \* run ids
    NoRun,        \* no parent, no ancestor
    Lineage,      \* per run: parent, agent, route, caller
    Tasks,        \* the asyncio tasks that call run_now, each for one run
    NoTask,
    RunOf,        \* per task: its run
    By,           \* per task: the task that awaits it, or NoTask: a background task
    AgentMax,     \* agent.max_concurrency, per agent
    RouteMax,     \* queue.route_tags, per route tag
    CallerMax,    \* queue.callers, per caller
    LimitChoices, \* the queue settings a reload may bring: global, children, depth
    MaxReloads    \* bound: accepted reloads

ASSUME LineageAssumption ==
    /\ NoRun \notin Runs /\ IsFiniteSet(Runs)
    /\ \A a \in DOMAIN AgentMax : AgentMax[a] \in Nat
    /\ \A r \in Runs : Lineage[r].parent \in Runs \cup {NoRun}
    \* a run exists before its children do
    /\ \E age \in [Runs -> 0..Cardinality(Runs)] :
          \A r \in Runs : Lineage[r].parent # NoRun => age[Lineage[r].parent] < age[r]
    /\ NoTask \notin Tasks /\ IsFiniteSet(Tasks)
    /\ RunOf \in [Tasks -> Runs] /\ By \in [Tasks -> Tasks \cup {NoTask}]
    \* run_child_agent makes the awaiting run the parent
    /\ \A t \in Tasks : By[t] # NoTask => Lineage[RunOf[t]].parent = RunOf[By[t]]
    /\ MaxReloads \in Nat
    /\ \A l \in LimitChoices : l.global \in Nat \ {0} /\ l.children \in Nat /\ l.depth \in Nat

VARIABLES
    pc,         \* per task: idle, wait (on a semaphore), running
    plan,       \* per task: the keys it has to take after the one it waits for
    want,       \* per task: the semaphore object it waits for
    held,       \* per task: the semaphore objects on its exit stack
    holders,    \* _active_run_holders: run ids
    dict,       \* the dictionaries: the current semaphore object of a key
    cancelled,  \* tasks with a cancellation on the way
    limits,     \* self.limits
    reloads

vars == <<pc, plan, want, held, holders, dict, cancelled, limits, reloads>>

NoSem == [key |-> <<"none">>, cap |-> 0, gen |-> 0]

Parent(r) == Lineage[r].parent

Root(r) ==
    LET up[q \in Runs] == IF Parent(q) = NoRun THEN q ELSE up[Parent(q)]
    IN  up[r]

Depth(r) ==
    LET level[q \in Runs] == IF Parent(q) = NoRun THEN 0 ELSE level[Parent(q)] + 1
    IN  level[r]

Active == {t \in Tasks : pc[t] # "idle"}

\* the tasks above t that are reached through tasks of S
Above(t, S) ==
    LET above[q \in Tasks] == IF By[q] \in S THEN {By[q]} \cup above[By[q]] ELSE {}
    IN  above[t]

Below(h, S) == {t \in Active : h \in Above(t, S)}

\* the tasks that h awaits, and those that they await
TaskTree(h) == Below(h, Tasks)

-----------------------------------------------------------------------------
(* The dictionaries of semaphores *)

Capacity(k) ==
    CASE k[1] = "global" -> limits.global
      [] k[1] = "nested" -> limits.children
      [] k[1] = "lane"   -> 1
      [] k[1] = "agent"  -> AgentMax[k[2]]
      [] k[1] = "route"  -> RouteMax[k[2]]
      [] k[1] = "caller" -> CallerMax[k[2]]

InUse == UNION {held[t] : t \in Tasks} \cup {want[t] : t \in Tasks}

\* an object distinct from every object of the key that some task still has
FreshSemaphore(k) ==
    [key |-> k, cap |-> Capacity(k),
     gen |-> CHOOSE n \in 0..Cardinality(Tasks) : \A s \in InUse : s.key = k => s.gen # n]

\* semaphore_for_agent, _route_tag, _caller, _nested_children, _ancestor_lane
SemaphoreFor(k) == IF k \in DOMAIN dict THEN dict[k] ELSE FreshSemaphore(k)

WithEntries(K) == [j \in DOMAIN dict \cup K |-> SemaphoreFor(j)]

WithoutEntries(K) == [j \in DOMAIN dict \ K |-> dict[j]]

Value(s) == s.cap - Cardinality({t \in Tasks : s \in held[t]})

\* asyncio.Semaphore: nobody is let in before those who wait
Free(s) == Value(s) > 0 /\ \A t \in Tasks : want[t] # s

-----------------------------------------------------------------------------
(* run_with_limits *)

\* step 2: the chain of active ancestors, the nearest first
ActiveChain(r) ==
    LET chain[q \in Runs \cup {NoRun}] ==
            IF q \in holders THEN <<q>> \o chain[Parent(q)] ELSE <<>>
    IN  chain[Parent(r)]

\* the nearest active ancestor with the same agent (route tag), if there is one
NearestHolder(r, field) ==
    LET chain == ActiveChain(r)
        same  == {i \in 1..Len(chain) : Lineage[chain[i]][field] = Lineage[r][field]}
    IN  IF same = {} THEN NoRun ELSE chain[CHOOSE i \in same : \A j \in same : i <= j]

Reentrant(r, field) ==
    LET a == NearestHolder(r, field)
    IN  IF a # NoRun THEN <<"lane", a, field, Lineage[r][field]>>
                     ELSE <<field, Lineage[r][field]>>

CallerExempt(r) ==
    \E i \in 1..Len(ActiveChain(r)) : Lineage[ActiveChain(r)[i]].caller = Lineage[r].caller

\* variant: a child of an active ancestor with the same agent takes no lane
KeysWithoutLane(r) ==
    << IF Parent(r) = NoRun THEN <<"global">> ELSE <<"nested", Root(r)>> >>
    \o (IF NearestHolder(r, "agent") # NoRun THEN <<>> ELSE << <<"agent", Lineage[r].agent>> >>)
    \o (IF NearestHolder(r, "route") # NoRun THEN <<>> ELSE << <<"route", Lineage[r].route>> >>)

\* steps 3 to 6: what the run will take, in this order
Keys(r) ==
    << IF Parent(r) = NoRun THEN <<"global">> ELSE <<"nested", Root(r)>>,
       Reentrant(r, "agent"), Reentrant(r, "route") >>
    \o IF CallerExempt(r) THEN <<>> ELSE << <<"caller", Lineage[r].caller>> >>

Init ==
    /\ pc = [t \in Tasks |-> "idle"]
    /\ plan = [t \in Tasks |-> <<>>]
    /\ want = [t \in Tasks |-> NoSem]
    /\ held = [t \in Tasks |-> {}]
    /\ holders = {} /\ cancelled = {}
    /\ dict = [k \in {} |-> NoSem]
    /\ limits \in LimitChoices
    /\ reloads = 0

\* the semaphores of keys, on top of those in got: all of them, and the run is
\* registered as a holder and admitted, or up to the first that is not free
TakeInARow(t, keys, got) ==
    \E n \in 0..Len(keys) :
        /\ \A j \in 1..n : Free(SemaphoreFor(keys[j]))
        /\ held' = [held EXCEPT ![t] = got \cup {SemaphoreFor(keys[i]) : i \in 1..n}]
        /\ plan' = [plan EXCEPT ![t] = SubSeq(keys, n + 2, Len(keys))]
        /\ dict' = WithEntries({keys[i] : i \in {j \in 1..Len(keys) : j <= n + 1}})
        /\ \/ /\ n < Len(keys) /\ ~Free(SemaphoreFor(keys[n + 1]))
              /\ want' = [want EXCEPT ![t] = SemaphoreFor(keys[n + 1])]
              /\ pc' = [pc EXCEPT ![t] = "wait"]
              /\ UNCHANGED holders
           \/ /\ n = Len(keys)
              /\ want' = [want EXCEPT ![t] = NoSem]
              /\ pc' = [pc EXCEPT ![t] = "running"]
              /\ holders' = holders \cup {RunOf[t]}

\* no cancellation is on its way through the task or the attempt it makes
CanStartChildren(t) ==
    /\ pc[t] = "running" /\ t \notin cancelled
    /\ ~\E c \in cancelled : By[c] = t

\* the depth limit refuses the run before it takes anything; otherwise the keys
\* are decided here
RunWithLimits(t) ==
    /\ pc[t] = "idle"
    /\ By[t] # NoTask => CanStartChildren(By[t])
    /\ Depth(RunOf[t]) <= limits.depth
    /\ TakeInARow(t, Keys(RunOf[t]), {})
    /\ UNCHANGED <<cancelled, limits, reloads>>

\* the awaited semaphore is taken, and those after it
Acquire(t) ==
    /\ pc[t] = "wait" /\ t \notin cancelled
    /\ Value(want[t]) > 0
    /\ TakeInARow(t, plan[t], held[t] \cup {want[t]})
    /\ UNCHANGED <<cancelled, limits, reloads>>

\* the finally clauses of _run_admitted and run_with_limits drop the lanes of
\* the run and the root's semaphore, whoever else has the run; entries of which
\* t was the only user go too
Dropped(t) ==
    {k \in DOMAIN dict : \/ /\ pc[t] = "running"
                            /\ \/ k[1] = "lane" /\ k[2] = RunOf[t]
                               \/ k[1] = "nested" /\ k[2] = RunOf[t] /\ Parent(RunOf[t]) = NoRun
                         \/ ~\E q \in Tasks \ {t} : dict[k] \in held[q] \cup {want[q]}}

\* the same clauses take the run out of _active_run_holders
HoldersWithout(t) == IF pc[t] = "running" THEN holders \ {RunOf[t]} ELSE holders

\* variant: the agent's semaphore is dropped with its last running run
LeaveDroppingAgent(t) ==
    /\ pc' = [pc EXCEPT ![t] = "idle"]
    /\ plan' = [plan EXCEPT ![t] = <<>>]
    /\ want' = [want EXCEPT ![t] = NoSem]
    /\ held' = [held EXCEPT ![t] = {}]
    /\ holders' = HoldersWithout(t)
    /\ cancelled' = cancelled \ {t}
    /\ dict' = WithoutEntries(Dropped(t) \cup {<<"agent", Lineage[RunOf[t]].agent>>})
    /\ UNCHANGED <<limits, reloads>>

Leave(t) ==
    /\ pc' = [pc EXCEPT ![t] = "idle"]
    /\ plan' = [plan EXCEPT ![t] = <<>>]
    /\ want' = [want EXCEPT ![t] = NoSem]
    /\ held' = [held EXCEPT ![t] = {}]
    /\ holders' = HoldersWithout(t)
    /\ cancelled' = cancelled \ {t}
    /\ dict' = WithoutEntries(Dropped(t))
    /\ UNCHANGED <<limits, reloads>>

\* a task goes on only when the children it awaits have ended
NoAwaitedChild(t) == ~\E c \in Active : By[c] = t

\* the executor returned: an outcome, or nothing left to do
Return(t) ==
    /\ pc[t] = "running" /\ t \notin cancelled
    /\ NoAwaitedChild(t)
    /\ Leave(t)

\* variant: only the children that execute already are cancelled
AttemptTimesOutAdmitted(t) ==
    /\ pc[t] = "running" /\ t \notin cancelled
    /\ {q \in TaskTree(t) : pc[q] = "running"} \ cancelled # {}
    /\ cancelled' = cancelled \cup {q \in TaskTree(t) : pc[q] = "running"}
    /\ UNCHANGED <<pc, plan, want, held, holders, dict, limits, reloads>>

\* asyncio.wait_for in the executor: the attempt's children are cancelled, the
\* executor itself goes on (next attempt or outcome)
AttemptTimesOut(t) ==
    /\ pc[t] = "running" /\ t \notin cancelled
    /\ TaskTree(t) \ cancelled # {}
    /\ cancelled' = cancelled \cup TaskTree(t)
    /\ UNCHANGED <<pc, plan, want, held, holders, dict, limits, reloads>>

\* a background task is cancelled: lease lost, or shutdown
CancelTask(t) ==
    /\ t \in Active /\ By[t] = NoTask /\ t \notin cancelled
    /\ cancelled' = cancelled \cup {t} \cup TaskTree(t)
    /\ UNCHANGED <<pc, plan, want, held, holders, dict, limits, reloads>>

\* CancelledError leaves run_with_limits, innermost task first
Unwind(t) ==
    /\ t \in cancelled
    /\ NoAwaitedChild(t)
    /\ Leave(t)

\* reconfigure(): refused while a run is registered as a holder
Reconfigure(l) ==
    /\ reloads < MaxReloads
    /\ holders = {}
    /\ reloads' = reloads + 1
    /\ limits' = l
    /\ dict' = WithoutEntries({k \in DOMAIN dict : k[1] # "agent"})
    /\ UNCHANGED <<pc, plan, want, held, holders, cancelled>>

Next ==
    \/ \E t \in Tasks : \/ RunWithLimits(t) \/ Acquire(t) \/ Return(t)
                        \/ AttemptTimesOut(t) \/ CancelTask(t) \/ Unwind(t)
    \/ \E l \in LimitChoices : Reconfigure(l)

Spec == Init /\ [][Next]_vars

(***************************************************************************)
(* asyncio.Semaphore wakes its waiters in order, so a waiter whose         *)
(* semaphore is released again and again gets it (strong fairness); every  *)
(* attempt is under wait_for; an agent starts finitely many children, so a *)
(* run that can return again and again does; a cancelled task unwinds.     *)
(* The steps joined below are never enabled together.                      *)
(***************************************************************************)
Fairness ==
    \A t \in Tasks : /\ SF_vars(Acquire(t) \/ Return(t))
                     /\ WF_vars(AttemptTimesOut(t) \/ Unwind(t))

FairSpec == Spec /\ Fairness

-----------------------------------------------------------------------------
Executing == {t \in Tasks : pc[t] = "running"}

AgentOf(t) == Lineage[RunOf[t]].agent

\* it executes in the lane of an active ancestor of its agent
Exempt(t) == \E s \in held[t] : s.key[1] = "lane" /\ s.key[3] = "agent"

\* An agent's max_concurrency bounds the tasks of its runs that execute, those in an
\* ancestor's lane aside: through reloads, cancellations, restarts, children and runs
\* that are admitted twice no dropped or replaced semaphore lets one more in
\* (scheduler.py keeps the semaphores in dictionaries that reconfigure and the end of a
\* run change under the waiters).
AgentLimitHolds ==
    \A a \in DOMAIN AgentMax :
        Cardinality({t \in Executing : AgentOf(t) = a /\ ~Exempt(t)}) <= AgentMax[a]

\* the tasks whose run no other task of the process admits
Singles == {t \in Tasks : \A u \in Tasks : RunOf[u] = RunOf[t] => u = t}

\* The re-entrant lane is single: of the tasks of h's agent in the tree that h awaits,
\* down through runs that one task has, whose nearest executing ancestor of that agent
\* is h's run, at most one executes, so a fan-out of a run into its own agent is
\* serialized, whatever twins and background tasks of other runs come and go.  (Where
\* h's run has a second task the end of either drops the lane: FanOutIsSerialized.)
LaneIsSingle ==
    \A h \in Executing : \A r, q \in Executing \cap Below(h, Singles) :
        /\ AgentOf(r) = AgentOf(h) /\ NearestHolder(RunOf[r], "agent") = RunOf[h]
        /\ AgentOf(q) = AgentOf(h) /\ NearestHolder(RunOf[q], "agent") = RunOf[h]
        => r = q

\* "serialize on the ancestor's single reentrant lane" (scheduler.py): two children that
\* one task awaits, of the agent of the task's own run, never execute together.
FanOutIsSerialized ==
    \A r, q \in Executing :
        By[r] = By[q] /\ By[r] # NoTask /\ AgentOf(r) = AgentOf(By[r]) /\ AgentOf(q) = AgentOf(By[r])
        => r = q

\* "queue settings cannot reload while runs are active" (reconfigure in scheduler.py):
\* whenever a reload is accepted, no task executes a run.
ReloadsWhenIdle == [][reloads' # reloads => Executing = {}]_vars

\* Nobody waits for ever.  Parents hold slots while they await children that
\* need slots, and trees wait for one another in circles (two trees, or two
\* branches of one tree); the time limit of the attempts opens every circle.
NobodyWaitsForEver == \A t \in Tasks : pc[t] = "wait" ~> pc[t] # "wait"
=============================================================================
