CONSTANTS
    t1 = t1
    t2 = t2
    t3 = t3
    s1 = s1
    s2 = s2
    s3 = s3
    s4 = s4
    MaxRequests = 4
    MaxIds = 3
    MAX_LISTINGS = 2
    Scores <- MCScores
    MAX_PER_NODE = 2
    MaxTrustIds = 3
    MaxSeconds = 1
    Digests = {"d1", "d2"}
    Unread = "unread"
    Txids = {"tx"}
    MAX_EVENTS = 2
    MaxEventsRecorded = 4
    States <- MCStates
    MAX_BLOCK_REQUEST = 3
    MaxHeight = 3
    PeerHeights <- MCPeerHeights
    TenantIds <- MCTenants
    MAX_TENANTS = 2
    Limits <- MCLimits
    NotANumber = NotANumber
    NoLimit = NoLimit
    MaxTenantFaults = 2
    SensorIds <- MCSensors
    Boards <- MCBoards
    Buses = {"i2c", "one_wire"}
    Attached = {"i2c"}
    Intervals <- MCIntervals
    NotAnInterval = NotAnInterval
    DappIds = {"a1", "a2", "a3"}
    MaxInstalls = 4
    MaxMisreads = 1
    MaxPairs = 4
    MaxNames = 2
    MaxStops = 2
    BootStates = {"before", "after"}
    MaxSealStops = 1
SPECIFICATION MCSpec
INVARIANTS
    RatingsAreShown
    VerifiedWasMatched
    ChainLinks
    ProofsConvince
    BlocksWanted
    LimitsInForce
    IntervalsFloored
    AcknowledgedIsServed
    PairsMatch
CHECK_DEADLOCK FALSE
