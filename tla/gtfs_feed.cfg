SPECIFICATION FairSpec
CONSTANTS
    first = first
    refetch = refetch
    Ingests = {first, refetch}
    Creator = first
    Uploads = {first}
    Size <- SizeOf
    Sweeps = {k1}
    Deletes = {d1}
    None = none
    MaxFaults = 2
    MaxFailures = 1
CHECK_DEADLOCK FALSE
INVARIANTS
    TypeOK
    CurrentIsComplete
    
    PathHasObject
PROPERTIES
    CollapseIsWithheld
    ImplementsFeedInUse
    EveryIngestResolves
