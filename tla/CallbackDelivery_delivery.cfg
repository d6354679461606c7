CONSTANTS
    t1 = t1  t2 = t2  t3 = t3  NoWorker = NoWorker
    Tasks = {t1, t2}
    MaxAttempts = 2
    LeaseTicks = 1
    Requested = {"succeeded", "failed"}
    Requests = {"retry", "resend"}
    MaxOutcomes = 2
    MaxEvents = 1
    MaxLosses = 0
SPECIFICATION Spec
INVARIANTS TypeOK DeliveredWasAcknowledged
PROPERTIES PayloadIsFrozen FailureIsKept
SYMMETRY TaskSymmetry
