SPECIFICATION Spec
CONSTANTS
    A = A
    B = B
    C = C
    a1 = a1
    b1 = b1
    b2 = b2
    c1 = c1
    NoServer = NoServer
    Servers <- TwoServers
    Replicas <- OneAndTwo
    ServerOf <- MCServerOf
    Home = A
    Mute = {}
    Grace = 2
    StaleAfter = 3
    DrainPeriod = 2
    RouteLag = 1
    MayReturn = FALSE
    MaxMoves = 1
    MaxRestarts = 1
    MaxDrifts = 1
    MaxDeletes = 1
SYMMETRY PairSymmetry
INVARIANTS
    Served
    RegistryFollows
CHECK_DEADLOCK FALSE
