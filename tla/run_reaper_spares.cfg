SPECIFICATION Spec
CONSTANTS
    Runs = {r1, r2}
    NStages = 1
    Workers = {w1}
    Owns <- OwnAll
    None = none
    Crons = {k1}
    Pages = {p1}
    TicksPerMs = 2
    QueueStale = 1
    RunStale = 3
    Beat = 2
    Period = 1
    Skew = 1
    MaxNow = 10
SYMMETRY Symmetric
CHECK_DEADLOCK FALSE
INVARIANTS
    TypeOK
    ToldUnlessTruncated

    
    
