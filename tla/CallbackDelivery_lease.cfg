CONSTANTS
    t1 = t1  t2 = t2  t3 = t3  NoWorker = NoWorker
    Tasks = {t1, t2}
    MaxAttempts = 2
    LeaseTicks = 1
    Requested = {"succeeded"}
    Requests = {"cancel"}
    MaxOutcomes = 1
    MaxEvents = 1
    MaxLosses = 2
SPECIFICATION FairSpec
PROPERTIES SettledStays EveryDeliveryEnds
