SPECIFICATION Spec
CONSTANTS
    s1 = s1 s2 = s2 a1 = a1 a2 = a2 r1 = r1 r2 = r2
    NoRun = NoRun NoArticle = NoArticle NoSource = NoSource
    Source = {s1, s2}
    Run = {r1, r2}
    Article = {a1, a2}
    SourceOf <- SameSource
    HomeOf <- MCHomeOf
    Deletable = {s1, s2}
    Batch = 1
    MaxRow = 3
    MaxDrops = 1
    Gaps = {"slow_deletion", "page_returns", "describe_removed", "resanitize"}
CHECK_DEADLOCK FALSE
INVARIANT StaleIsOwed
