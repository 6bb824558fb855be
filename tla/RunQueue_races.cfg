SPECIFICATION FairSpec
CONSTANTS
    s1 = s1 r1 = r1 r2 = r2 x1 = x1
    w1 = w1 w2 = w2
    NoRun = NoRun NoExport = NoExport
    Source = {s1}
    Run = {r1, r2}
    Export = {x1}
    Worker = {w1}
    SourceOf <- MCSourceOf
    KindOf <- PdfAndEscalate
    XSourceOf <- MCXSourceOf
    ReapAttempts = 2
    PdfAttempts = 2
    MaxCrashes = 0
    MaxResumes = 0
    Races = {"claim_skew", "stale_api", "stall"}
INVARIANT AttemptsBounded
CHECK_DEADLOCK FALSE
