SPECIFICATION ContentsSpec
CONSTANTS
    Parts = {"import", "convert", "align", "cut", "images", "history", "book", "media", "list"}
    Urls = {a1, a2, a3}
    NoUrl = NoUrl
    Docs = {"d1", "d2"}
    FirstDoc = "d1"
    NoDoc = "none"
    MaxPages = 2
    Budget = 1
    Breaker = 1
    MaxRuns = 2
    MaxStops = 1
    MaxChanges = 2
    Sources = {"s1", "s2"}
    ArticleIds = {"a1", "a2"}
    Images = {"i1", "i2", "i3"}
    SourceOf <- OneEach
    ArticleOf <- TwoAndOne
    Sha <- SameBytes
    Forms <- Written
    MaxNew = 1
    MaxPhases = 2
    MaxRewrites = 1
    SitePages = {"p1", "p2"}
    Illustrated = {"p1"}
    MaxEdits = 1
    MaxRaw = 2
    MaxClaims = 3
    MaxConverted = 1
    Workers = {"w1"}
    Pdf = {"p2"}
    ImageFiles = {"i1", "i2"}
    MaxIds = 3
    PageCount = 3
    BatchPages = 2
    MaxResubmits = 1
    MaxTasks = 4
    MaxRestarts = 2
    MaxId = 4
    MaxPlace = 3
    PageLimit = 2
    Titles = {"t1", "t2"}
    MaxDocLines = 3
    MaxHeadings = 2
    MaxOutline = 3
    AnchorBack = 1
    FallbackWindow = 2
    MaxPassage = 3
    MaxMissed = 1
    MaxLines = 3
    MaxEntries = 3
    MaxLevel = 1
    Sizes = {1, 2}
    Limits = {0, 2}
    DefaultLimit = 2
SYMMETRY Alike
CHECK_DEADLOCK FALSE
INVARIANTS
    LostIsListed PagesAreTheirOwn AnchorsHold NothingDropped DescribedIsCaptioned
    ChangelogAddsUp HistoryIsWhole SelectionKept ImagesAreThere SteadyIsSentOnce
