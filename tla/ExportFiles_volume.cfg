SPECIFICATION FairSpec
CONSTANTS
    MaxJob = 2
    MaxAttempts = 2
    Cap = 1
    MaxClaims = 2
    MaxCrashes = 1
INVARIANTS
    RowKeepsFiles
PROPERTIES
    OrphanGoes
CHECK_DEADLOCK FALSE
