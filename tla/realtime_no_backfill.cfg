SPECIFICATION Spec
CONSTANTS
    Pages = {p}
    Pushes = {e1}
    MaxFailures = 2
    MaxMissed = 1
    CacheLimit = 2
    MaxCommands = 2
    MaxSent = 3
    MaxClicks = 0
INVARIANTS BackfillsOnReconnect
CHECK_DEADLOCK FALSE
