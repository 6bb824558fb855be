SPECIFICATION ServicesSpec
CONSTANTS
    Parts = {"realm", "hooks", "accounts", "catalogue"}
    r1 = r1
    r2 = r2
    r4 = r4
    f1 = f1
    Run = {r1, r2, r4}
    Firing = {f1}
    FiringOf <- RunsOfAJob
    NoFiring = NoFiring
    Worker = {w1}
    Lives = {1, 3}
    MaxTime = 1
    MaxLogins = 2
    MaxHuman = 1
    Hooks = {"h1"}
    Sources = {"s1", "s2"}
    Global = "global"
    Events = {"extraction_complete"}
    Final = "extraction_complete"
    RETRY_DELAYS = 2
    MaxEvents = 2
    Users = {"u1", "u2"}
    Clients = {"c1", "c2"}
    Vendors = {"v1"}
    Keys = {"k1", "k2"}
    MaxRequests = 4
    Products = {"p1", "p2"}
    Sites = {"docs"}
    Minting = {"docs"}
    MaxVersion = 2
    MaxEdits = 3
CHECK_DEADLOCK FALSE
INVARIANTS SiblingsDoNotRepeat CountersMatchLog RightsWereHeld RunScrapesItsVersion OneIdentity
