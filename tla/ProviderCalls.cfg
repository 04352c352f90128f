CONSTANTS
    None = None
    Modes = {"complete", "stream"}
    MaxEvents = 3
    MaxBuffer = 2
    MaxChunk = 2
    MaxOutput = 5
    Items <- MCItems
    HookSwallows = {"complete"}
    CleanupEnds <- AnyEnd
    MaxCancels = 2
SPECIFICATION LoopSpec
INVARIANTS CleanupNeverRaces OutputEarned
PROPERTIES CallsEnd KeepsPromise
