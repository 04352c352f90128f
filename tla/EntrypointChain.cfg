CONSTANTS
    o1 = o1
    o2 = o2
    o3 = o3
    None = None
    Ops = {o1, o2, o3}
    Preview = {o3}
    Supporting = {o1, o2, o3}
    Bytes <- MCBytes
    Prior = "prior"
    Valid <- MCValid
    ExpSource <- ChainSource
    ExpCurrent <- ChainCurrent
    Modes <- DocModes
    Executable = {"rwx"}
    Sanitized <- DocSanitized
    MaxWrites = 0
    MaxCleans = 0
SPECIFICATION FairSpec
INVARIANTS DisplacedKept
PROPERTIES EveryCallEnds
