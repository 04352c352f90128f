CONSTANTS
    o1 = o1
    o2 = o2
    o3 = o3
    None = None
    Ops = {o1, o2}
    Preview = {}
    Supporting = {}
    Bytes <- MCBytes
    Prior = "prior"
    Valid <- MCValid
    ExpSource <- SameSource
    ExpCurrent <- SameCurrent
    Modes <- MCModes
    Executable = {}
    Sanitized <- MCSanitized
    MaxWrites = 1
    MaxCleans = 1
SPECIFICATION Spec
INVARIANTS PriorRetained OutcomeDecides StageDisposed
