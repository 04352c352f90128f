CONSTANTS
    None = None
    Interference = FALSE
    ParentMayDie = FALSE
    MaxCancels = 0
SPECIFICATION AdapterSpec
INVARIANTS CleanupMeansStopped
