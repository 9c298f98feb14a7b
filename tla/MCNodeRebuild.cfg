SPECIFICATION NodeSpec
CONSTANTS
    c1 = c1
    c2 = c2
    c3 = c3
    w1 = w1
    w2 = w2
    Workers <- MCWorkers
    Claims <- TwoClaims
    Domains <- TwoDomains
    CacheIDs <- TwoDomains
    TotalWays <- TwoWays
    Results <- SplitClaims
    Prefix <- MCPrefix
    Fresh <- AllWays
    NumCLOSIDs = 4
    MinCBMBits = 1
    Faults = {}
    MaxGiveUps = 0
    MaxStops = 1
    Skipped = Skipped
    NoGroup = NoGroup
    NoWorker = NoWorker
PROPERTY RebuildIsExact
