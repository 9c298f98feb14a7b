SPECIFICATION Spec
CONSTANTS
    Domains <- TwoDomains
    CacheIDs <- TwoDomains
    TotalWays <- MCTotalWays
    NumWays = 3
    u1 = u1
    u2 = u2
    Users <- TwoUsers
    NumCLOSIDs = 4
    MinCBMBits = 1
    Configs <- MCConfigs
    Faults = {}
    MaxStops = 0
    MaxFailures = 0
INVARIANT AcceptedCanBeCreated
