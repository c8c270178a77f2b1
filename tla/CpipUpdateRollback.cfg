CONSTANTS
    Updaters = {"desktop"}
    ExplicitTargets = {}
    RollbackOnFail = TRUE
    MaxRelease = 3
\* A torn config.py keeps every updater down: the system may stop there.
CHECK_DEADLOCK FALSE
SPECIFICATION Spec

PROPERTIES
    RollbackRestores
