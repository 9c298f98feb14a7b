SPECIFICATION NodeSpec
CONSTANTS
    c1 = c1
    c2 = c2
    c3 = c3
    w1 = w1
    w2 = w2
    p1 = p1
    p2 = p2
    p3 = p3
    mba = mba
    Workers <- TwoWorkers
    Claims <- ThreeClaims
    Partitions <- MCPartitions
    Published <- MCPublished
    Results <- Contended
    Faults = {"fetch"}
    MaxGiveUps = 1
    MaxStops = 1
    Free = Free
    Skipped = Skipped
    NoWorker = NoWorker
SYMMETRY Handlers
INVARIANTS
    NodeTypeOK
    PreparedOwns
    OwnersAreAdmitted
    AdmittedIsGranted
    IInv
    LeaseIInv
PROPERTY ImplementsLeases
