SPECIFICATION Spec
CONSTANTS
    Runs = {r1}
    NStages = 1
    Workers = {w1}
    Owns <- OwnAll
    None = none
    Crons = {k1}
    Pages = {}
    TicksPerMs = 2
    QueueStale = 1
    RunStale = 2
    Beat = 2
    Period = 1
    Skew = 0
    MaxNow = 8
SYMMETRY Symmetric
CHECK_DEADLOCK FALSE
INVARIANTS
    SilenceIsBounded
