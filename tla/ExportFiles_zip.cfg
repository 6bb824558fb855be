SPECIFICATION Spec
CONSTANTS
    MaxJob = 2
    MaxAttempts = 1
    Cap = 0
    MaxClaims = 2
    MaxCrashes = 0
INVARIANT ServedIsWhole
CHECK_DEADLOCK FALSE
