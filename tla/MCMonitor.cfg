SPECIFICATION Spec
CONSTANTS
    g1 = g1
    g2 = g2
    Groups <- TwoGroups
    Modulus = 2
    None = None
    MaxTraffic = 2
    MaxLives = 2
    MaxScrapes = 3
INVARIANTS
    TypeOK
    IInv
PROPERTIES
    RateIsTraffic
    OneSampleLost
SYMMETRY Alike
CHECK_DEADLOCK FALSE
