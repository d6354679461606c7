SPECIFICATION FairSpec
CONSTANTS
    w1 = w1  w2 = w2  c1 = c1  k1 = k1  k2 = k2
    NoWorker = NoWorker  Given = Given
    Workers = {w1, w2}
    Clients = {c1}
    Submitters = {w1, w2, c1}
    Requests = {"parent", "child"}
    ConvOf <- MCConvOf
    RequestOf <- MCRequestOf
    Timely = TRUE
    MaxAttempts = 2
    MaxExits = 2
    MaxTimeouts = 1
INVARIANTS OneExecutor SuccessIsChilds
 
CHECK_DEADLOCK FALSE
