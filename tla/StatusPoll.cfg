CONSTANTS
    poller = poller
    request = request
    Calls <- MCCalls
    Poller = poller
    Retries = 2
    MaxExpired = 2
    MaxChanges = 2
    MaxMishaps = 2
SPECIFICATION FairSpec
INVARIANTS
    ExecutedOnceUnlessLost
    GivesUpForCause
PROPERTIES
    CallsReturn
    StatusFollowsNode
