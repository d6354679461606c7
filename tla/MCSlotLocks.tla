---- MODULE MCSlotLocks ----
\* Two processes; "g" is the global key with limit 2, whose semaphore a reload replaces,
\* so that three tasks of a process may have it; "x" is an agent's with limit 1, kept.
EXTENDS SlotLocks, TLC

CONSTANTS P, Q, t1, t2, t3, t4

MCHome == t1 :> P @@ t2 :> P @@ t3 :> Q @@ t4 :> P
MCNeeds == t1 :> <<"g", "x">> @@ t2 :> <<"g">> @@ t3 :> <<"g", "x">> @@ t4 :> <<"g", "x">>
MCNeedsGlobal == [t \in {t1, t2, t3} |-> <<"g">>]
MCLimit == "g" :> 2 @@ "x" :> 1
====
