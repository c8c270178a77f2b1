CONSTANTS
    Updaters = {"desktop", "timer"}
    ExplicitTargets = {1}
    RollbackOnFail = TRUE
    MaxRelease = 3
\* A torn config.py keeps every updater down: the system may stop there.
CHECK_DEADLOCK FALSE
SPECIFICATION Spec
INVARIANTS
    ServiceFollowsConfig
    NeverBelowInstalled
