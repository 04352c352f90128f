CONSTANTS
    None = None
    Modes = {"complete"}
    MaxEvents = 4
    MaxBuffer = 2
    MaxChunk = 2
    MaxOutput = 5
    Items <- MCFewItems
    HookSwallows = {}
    CleanupEnds <- AnyEnd
    MaxCancels = 1
SPECIFICATION Spec
INVARIANTS CancellationRemains
