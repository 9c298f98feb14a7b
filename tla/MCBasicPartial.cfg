SPECIFICATION NodeSpec
CONSTANTS
    c1 = c1
    c2 = c2
    c3 = c3
    w1 = w1
    w2 = w2
    p1 = p1
    p2 = p2
    p3 = p3
    mba = mba
    Workers <- OneWorker
    Claims <- TwoClaims
    Partitions <- MCPartitions
    Published <- MCPublished
    Results <- Competing
    Faults = {}
    MaxGiveUps = 0
    MaxStops = 1
    Free = Free
    Skipped = Skipped
    NoWorker = NoWorker
SYMMETRY Handlers
INVARIANTS
    PreparedOwns
