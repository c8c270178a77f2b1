CONSTANTS
    here = here
    there = there
    elsewhere = elsewhere
    Address <- MCAddress
    Local <- MCLocal
    RATE_LIMIT = 2
    RATE_WINDOW = 1
    DEFENSE_RATE_LIMIT = 1
    DEFENSE_RATE_WINDOW = 1
    BLACKLIST_TTL = 1
    MAX_TTL = 4
    MAX_BLACKLIST = 1
    MaxRequests = 2
    WindowSeconds = 2
    MaxKeys = 1
    Client = {k1, k2}
    MaxForkFailures = 1
SPECIFICATION MCSpec
INVARIANT
    ReadsOwnShell
PROPERTIES
    LimitersAreWindows
    BansEnd
    TerminalsEnd
CHECK_DEADLOCK FALSE
