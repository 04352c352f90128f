CONSTANTS
    None = None
    Interference = TRUE
    ParentMayDie = TRUE
    MaxCancels = 2
    Tasks = {s, t}
    Hooks = {h, i}
    TaskCancels = 2
    Nobody = Nobody
SPECIFICATION MCSpec
INVARIANTS ContainedOnReturn VerdictFromTarget StopVerifiable TeardownNotCut JudgmentsKept
PROPERTIES ProcessesEnd StaysOwned
