---- MODULE MCAdmission ----
\* One process.  The tree of the run admission: a parent, a child of
\* another agent that has a child of the parent's agent, and a child of the parent's
\* agent, which a second, background task may admit as well.
EXTENDS Admission, TLC

CONSTANTS p, c, g, d,         \* runs
          tp, tc, tg, td, tb  \* their tasks, and a second, background task

Entry(parent, agent, caller) ==
    [parent |-> parent, agent |-> agent, route |-> agent, caller |-> caller]

MCLineage ==
    p :> Entry(NoRun, "A", "user") @@ c :> Entry(p, "B", "A") @@ g :> Entry(c, "A", "B")
    @@ d :> Entry(p, "A", "A")
MCRunOf == [t \in Tasks |-> (tp :> p @@ tc :> c @@ tg :> g @@ td :> d @@ tb :> d)[t]]
MCBy == [t \in Tasks |-> (tp :> NoTask @@ tc :> tp @@ tg :> tc @@ td :> tp @@ tb :> NoTask)[t]]

\* The tree of Admission_fanout.cfg: a child that has two children of its own agent, and
\* that the background task admits as well.
FanLineage ==
    p :> Entry(NoRun, "A", "user") @@ c :> Entry(p, "B", "A") @@ g :> Entry(c, "B", "B")
    @@ d :> Entry(c, "B", "B")
FanRunOf == tp :> p @@ tc :> c @@ tg :> g @@ td :> d @@ tb :> c
FanBy == tp :> NoTask @@ tc :> tp @@ tg :> tc @@ td :> tc @@ tb :> NoTask

MCAgentMax == [a \in {"A", "B"} |-> 1]
FanAgentMax == [a \in {"A", "B"} |-> 2]
MCRouteMax == [a \in {"A", "B"} |-> 2]
MCCallerMax == [a \in {"A", "B", "user"} |-> 2]
Queue(global, children) == [global |-> global, children |-> children, depth |-> 2]
MCLimits == {Queue(2, 3), Queue(1, 1)}
WideLimits == {Queue(2, 4)}
====
