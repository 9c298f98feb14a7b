SPECIFICATION SystemSpec
CONSTANTS
    c1 = c1
    c2 = c2
    c3 = c3
    w1 = w1
    w2 = w2
    Workers <- MCWorkers
    Claims <- OneClaim
    Domains <- OneDomain
    CacheIDs <- OneDomain
    TotalWays <- ThreeWays
    Results <- EqualClaims
    Prefix <- MCPrefix
    Fresh <- AllWays
    NumCLOSIDs = 4
    MinCBMBits = 1
    Faults = {"rmdir"}
    MaxGiveUps = 1
    MaxStops = 0
    Skipped = Skipped
    NoGroup = NoGroup
    NoWorker = NoWorker
    RootGroup = RootGroup
INVARIANT Confined
