CONSTANTS
    t1 = t1  t2 = t2  t3 = t3  NoWorker = NoWorker
    Tasks = {t1, t2}
    MaxAttempts = 1
    LeaseTicks = 1
    Requested = {"succeeded", "failed"}
    Requests = {"retry"}
    MaxOutcomes = 2
    MaxEvents = 1
    MaxLosses = 0
SPECIFICATION Spec
PROPERTY OutcomeIsNotErased
