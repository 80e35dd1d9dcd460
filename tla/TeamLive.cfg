SPECIFICATION FairSpec
CONSTANTS
    MaxAgents = 3
    MaxDepth = 2
    MaxConcurrent = 1
    MayBlock = TRUE
    MayAfter = TRUE
    MaxMessages = 1
    MaxStops = 1
    MaxFailures = 1
    MaxRests = 1
PROPERTIES
    RunsEnd
CHECK_DEADLOCK FALSE
