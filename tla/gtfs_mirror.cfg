SPECIFICATION Spec
CONSTANTS
    first = first
    refetch = refetch
    Ingests = {first, refetch}
    Creator = first
    Uploads = {first}
    Size <- SizeOf
    Sweeps = {k1}
    Deletes = {}
    None = none
    MaxFaults = 0
    MaxFailures = 0
CHECK_DEADLOCK FALSE
INVARIANTS
    StatusMirrorsCurrent
