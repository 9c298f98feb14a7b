SPECIFICATION OneDisturbance
CONSTANTS
    c1 = c1
    c2 = c2
    c3 = c3
    w1 = w1
    w2 = w2
    Workers <- MCWorkers
    Claims <- TwoClaims
    Domains <- OneDomain
    CacheIDs <- OneDomain
    TotalWays <- TwoWays
    Results <- OneWayClaims
    Prefix <- MCPrefix
    Fresh <- AllWays
    NumCLOSIDs = 3
    MinCBMBits = 1
    Faults = {"rmdir"}
    MaxGiveUps = 1
    MaxStops = 1
    Skipped = Skipped
    NoGroup = NoGroup
    NoWorker = NoWorker
    RootGroup = RootGroup
INVARIANT NeverRefused
PROPERTIES
    PrepareConverges
    UnprepareConverges
    ContainerStarts
