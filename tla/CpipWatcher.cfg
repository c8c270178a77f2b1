CONSTANTS
    c1 = c1
    c2 = c2
    s1 = s1
    Client <- TwoClients
    Subscriber <- OneSubscriber
    MaxTasks = 4
SPECIFICATION WatcherFairSpec
INVARIANTS
    StopSettles
    StartSettles
    RunningIsShown
PROPERTIES
    StopReturns
