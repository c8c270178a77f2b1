CONSTANTS
    master = master
    w1 = w1
    w2 = w2
    Node <- MCNode
    Self = master
    Role = "master"
    HeartbeatTimeout = 1
    NodeOfflineTimeout = 2
    MessageTypes <- AllTypes
    ClockSteps <- CreepAndJump
    MaxBatch = 1
    MaxVersion = 4
SPECIFICATION FairSpec
INVARIANTS
    StatusJustified
PROPERTIES
    SilenceDetected
    OfflineUntilHeard
    MembershipVersioned
    ImplementsFailureDetector
