CONSTANTS
    Nodes = {n1, n2}
    Settings = {defaults, chosen, mistyped}
    DefaultSettings = defaults
    Mistyped = {mistyped}
    Unreadable = Unreadable
    Requests = {r1, r2}
    MaxRequests = 3
    MaxDeaths = 1
    MaxFaults = 1
SPECIFICATION FairSpec
INVARIANTS
    SettingsSurvive
    BusyMeansRunning
    ShownIsSaved
PROPERTIES
    ResultsArrive
