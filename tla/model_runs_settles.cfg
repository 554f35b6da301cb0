SPECIFICATION FairSpec
CONSTANTS
    t1 = t1
    t2 = t2
    t3 = t3
    Threads = {t1, t2, t3}
    Host <- BothAndOther
    Owns <- OwnSplit
    NStages = 3
    ChecksInTry = {}
    WritingOrds = {3}
    Creator = creator
    Requests = {}
    Reapers = {}
    MaxFaults = 0
PROPERTIES
    EveryRunSettles
CHECK_DEADLOCK FALSE
