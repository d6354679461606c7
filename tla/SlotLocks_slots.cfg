SPECIFICATION Spec
CONSTANTS
    P = P  Q = Q  NoProc = NoProc
    t1 = t1  t2 = t2  t3 = t3  t4 = t4
    Procs = {P, Q}
    Tasks = {t1, t2, t3, t4}
    Home <- MCHome
    Needs <- MCNeeds
    Limit <- MCLimit
    Kept = {"x"}
    PoolMax = 2
INVARIANTS LocksAreRecorded 
