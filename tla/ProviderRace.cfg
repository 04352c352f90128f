CONSTANTS
    None = None
    Modes = {"stream"}
    MaxEvents = 4
    MaxBuffer = 2
    MaxChunk = 2
    MaxOutput = 5
    Items <- MCFewItems
    HookSwallows = {"stream"}
    CleanupEnds <- AnyEnd
    MaxCancels = 0
SPECIFICATION Spec
INVARIANTS CleanupNeverRaces
