SPECIFICATION SystemSpec
CONSTANTS
    c1 = c1
    c2 = c2
    c3 = c3
    w1 = w1
    w2 = w2
    Workers <- MCWorkers
    Claims <- ThreeClaims
    Domains <- OneDomain
    CacheIDs <- OneDomain
    TotalWays <- FourWays
    Results <- TwoWayClaims
    Prefix <- MCPrefix
    Fresh <- AllWays
    NumCLOSIDs = 3
    MinCBMBits = 1
    Faults = {"schemata", "cdi", "rmdir"}
    MaxGiveUps = 0
    MaxStops = 1
    Skipped = Skipped
    NoGroup = NoGroup
    NoWorker = NoWorker
    RootGroup = RootGroup
PROPERTY ImplementsClaimShares
SYMMETRY HandlersAndClaims
INVARIANTS
    ContainersTypeOK
    BooksAgree
    PreparedIsUsable
    AdmittedFits
    Confined
    ContainersApart
    SystemIInv
    AdmissionIInv
