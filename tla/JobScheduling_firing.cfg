CONSTANTS
    Job = {j1, j2}
    Source = {s1}
    Periods <- EveryTick
    Gates <- AllGates
    StartTime = 2
    MaxTime = 3
    MaxFirings = 5
    MaxEdits = 2
SPECIFICATION FairSpec
CHECK_DEADLOCK FALSE
INVARIANTS OneFiringPerSlot ClosedTellsTheTruth
PROPERTIES DueJobFires FiringCloses
