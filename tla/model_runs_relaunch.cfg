SPECIFICATION Spec
CONSTANTS
    t1 = t1
    t2 = t2
    t3 = t3
    Threads = {t1, t2}
    Host <- Replicas
    Owns <- OwnAll
    NStages = 3
    ChecksInTry = {t2}
    WritingOrds = {3}
    Creator = creator
    Requests = {q1}
    Reapers = {}
    MaxFaults = 1
INVARIANTS
    TypeOK
    OneExecutorPerAttempt
    QueuedRunHasWork
CHECK_DEADLOCK FALSE
