CONSTANTS
    MaxVersion = 3
    MaxMishaps = 3
    HostFiles <- MCHostFiles
    PinetFiles <- MCPinetFiles
    MaxCuts = 2
    MAX_RESTART_ATTEMPTS = 3
    SENSOR_INTERVAL = 1
    max_backoff = 6
    WriteTimes <- MCWriteTimes
    initialDelay = 2
    probePeriod = 3
    failureThreshold = 3
SPECIFICATION MCSpec
INVARIANTS
    MarkerMeansProvisioned
    VersionClaimsNoMore
    HostCanReturn
PROPERTIES
    UpdateArrives
    HealthFollowsCluster
    StationRecovers
