SPECIFICATION FairSpec
CONSTANTS
    Domains <- TwoDomains
    CacheIDs <- TwoDomains
    TotalWays <- MCTotalWays
    NumWays = 3
    u1 = u1
    u2 = u2
    Users <- TwoUsers
    NumCLOSIDs = 7
    MinCBMBits = 1
    Configs <- MCConfigs
    Faults = {"mkdir", "schemata", "cdi", "publish", "listen", "delete", "rmdir"}
    MaxStops = 2
    MaxFailures = 1
INVARIANTS
    TypeOK
    SliceBacked
    GroupsPartition
    GroupsIsolated
    SliceIsCurrent
    IInv
PROPERTIES
    ServesInTheEnd
    ImplementsWayPool
CHECK_DEADLOCK FALSE
