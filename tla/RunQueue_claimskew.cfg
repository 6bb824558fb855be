SPECIFICATION Spec
CONSTANTS
    s1 = s1 r1 = r1 r2 = r2 x1 = x1
    w1 = w1 w2 = w2
    NoRun = NoRun NoExport = NoExport
    Source = {s1}
    Run = {r1, r2}
    Export = {x1}
    Worker = {w1, w2}
    SourceOf <- MCSourceOf
    KindOf <- WebAndRetry
    XSourceOf <- MCXSourceOf
    ReapAttempts = 2
    PdfAttempts = 2
    MaxCrashes = 0
    MaxResumes = 1
    Races = {"claim_skew"}
CHECK_DEADLOCK FALSE
INVARIANT SourceExclusion
