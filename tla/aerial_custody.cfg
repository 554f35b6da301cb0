SPECIFICATION FairSpec
CONSTANTS
    Artifacts = {ortho, dsm}
    Attempts = {d1, d2}
    Retries = {m1}
    MaxFaults = 2
CHECK_DEADLOCK FALSE
INVARIANTS
    TypeOK
    ClaimIsBacked
    
    NoArtifactForgotten
PROPERTIES
    HeldIsKeptByLaterPasses
    SuccessGetsItsPackage
