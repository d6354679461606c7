CONSTANTS
    s1 = s1  s2 = s2  w1 = w1  w2 = w2  NoWorker = NoWorker
    Servers = {s1}
    ApiOnly = {s1}
    Workers = {w1, w2}
    MaxAttempts = 2
    LeaseTicks = 2
    Requests = {"cancel", "resend"}
    Staged = TRUE
    Timely = FALSE
    MaxOutages = 1
SPECIFICATION Spec
SYMMETRY WorkerSymmetry
INVARIANTS TypeOK QueuedHasBudget OwnerRunsRecordedAttempt
PROPERTIES SettledIsFinal FollowsLifecycle
