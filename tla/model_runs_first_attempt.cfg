SPECIFICATION Spec
CONSTANTS
    t1 = t1
    t2 = t2
    t3 = t3
    Threads = {t1, t2, t3}
    Host <- BothAndOther
    Owns <- OwnAll
    NStages = 3
    ChecksInTry = {}
    WritingOrds = {3}
    Creator = creator
    Requests = {}
    Reapers = {k1}
    MaxFaults = 2
INVARIANTS
    OneStagePerProcess
    
    
CHECK_DEADLOCK FALSE
