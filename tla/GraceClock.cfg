SPECIFICATION Spec
CONSTANTS
    A = A
    B = B
    C = C
    a1 = a1
    b1 = b1
    b2 = b2
    c1 = c1
    NoServer = NoServer
    Servers <- ThreeServers
    Replicas <- OneEach
    ServerOf <- MCServerOf
    Home = A
    Mute = {b1, c1}
    Grace = 2
    StaleAfter = 3
    DrainPeriod = 2
    RouteLag = 1
    MayReturn = FALSE
    MaxMoves = 2
    MaxRestarts = 0
    MaxDrifts = 0
    MaxDeletes = 0
INVARIANTS
    GraceIsWaited
CHECK_DEADLOCK FALSE
