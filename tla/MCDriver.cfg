SPECIFICATION Spec
CONSTANTS
    c1 = c1
    c2 = c2
    w1 = w1
    w2 = w2
    Workers <- MCWorkers
    Claims <- MCClaims
    Domains <- TwoDomains
    CacheIDs <- Known
    TotalWays <- ThreeWays
    Results <- MCResults
    Prefix <- SamePrefix
    Fresh <- AllWays
    NumCLOSIDs = 3
    MinCBMBits = 1
    Faults = {"fetch", "mkdir", "schemata", "cdi"}
    Skipped = Skipped
    NoGroup = NoGroup
SYMMETRY Handlers
INVARIANTS
    TypeOK
    WaysExclusive
    GroupWaysReserved
    Isolation
    IInv
PROPERTY ImplementsWayPool
