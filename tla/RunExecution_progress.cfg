CONSTANTS
    s1 = s1  s2 = s2  w1 = w1  w2 = w2  NoWorker = NoWorker
    Servers = {s1}
    ApiOnly = {}
    Workers = {w1}
    MaxAttempts = 2
    LeaseTicks = 2
    Requests = {"cancel", "retry", "resend"}
    Staged = FALSE
    Timely = TRUE
    MaxOutages = 2
SPECIFICATION FairSpec
INVARIANT QueuedHasBudget
PROPERTIES ReachesOutcome LostRunIsExecutedAgain
