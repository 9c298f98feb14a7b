SPECIFICATION FairSpec
CONSTANTS
    Domains <- TwoDomains
    CacheIDs <- TwoDomains
    TotalWays <- MCTotalWays
    NumWays = 3
    u1 = u1
    u2 = u2
    Users <- TwoUsers
    NumCLOSIDs = 7
    MinCBMBits = 1
    Configs <- MCConfigs
    Faults = {}
    MaxStops = 0
    MaxFailures = 0
PROPERTY StructuredServesInTheEnd
CHECK_DEADLOCK FALSE
