SPECIFICATION FairSpec
CONSTANTS
    Runs = {r1, r2}
    NStages = 3
    Mine = {1, 2}
    Handlers = {h1, h2}
    MaxQueued = 1
    MaxStagesPerTrigger = 2
    Relaunched = {r1}
    ReadsFail = {r1}
    None = none
CHECK_DEADLOCK FALSE
INVARIANTS
    TypeOK
    InflightIsAccounted
    IdleEventIsExact
PROPERTIES
    InflightRunIsReleased
    PushedRunSettles
