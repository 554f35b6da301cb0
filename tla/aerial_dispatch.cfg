SPECIFICATION FairSpec
CONSTANTS
    m1 = m1
    Requests = {r1, r2}
    Mission <- OneMission
    MaxQueued = 1
    Attempts = 2
    None = none
    MaxFaults = 1
CHECK_DEADLOCK FALSE
INVARIANTS
    TypeOK
    StatusHasItsCause
    ReportAppliesOnce
PROPERTIES
    
    QueuedJobEnds
    RequestedIsAnswered
