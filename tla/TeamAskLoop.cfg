SPECIFICATION Spec
CONSTANTS
    MaxAgents = 3
    MaxDepth = 3
    MaxConcurrent = 1
    MayBlock = FALSE
    MayAfter = FALSE
    MaxMessages = 3
    MaxStops = 0
    MaxFailures = 0
    MaxRests = 0
INVARIANTS
    NobodyStuck
CHECK_DEADLOCK FALSE
