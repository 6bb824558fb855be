SPECIFICATION FairSpec
CONSTANTS
    p1 = p1 p2 = p2
    Page = {p1, p2}
    Index = Index
    Paths = {"batch", "tracked", "raw", "rebuild", "browserless"}
    MinPrior = 2
    RawMin = 2
    MaxRelease = 2
    MaxEdits = 2
    MaxFaults = 2
    MaxEvents = 3
INVARIANTS KeysUnique StoredIsKept CheckpointIsHonest
PROPERTIES RemovalsAreDue Converges
CHECK_DEADLOCK FALSE
