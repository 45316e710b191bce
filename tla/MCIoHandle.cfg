CONSTANTS
    a1 = a1
    a2 = a2
    Addresses = {a1, a2}
    NoResult = NoResult
    Platforms <- MCPlatforms
    Uses <- MCUses
    MaxStarts = 2
    MaxUnits = 1
SPECIFICATION Spec
INVARIANTS NoLostWakeup KernelBufferAlive AnswersAreTrue
PROPERTIES CancelEnds ReadyEnds
CHECK_DEADLOCK FALSE
