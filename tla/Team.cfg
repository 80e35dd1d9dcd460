SPECIFICATION MCSpec
CONSTANTS
    MaxAgents = 3
    MaxDepth = 3
    MaxConcurrent = 1
    MayBlock = TRUE
    MayAfter = TRUE
    MaxMessages = 1
    MaxStops = 1
    MaxFailures = 1
    MaxRests = 1
    Procs = {q1, q2, q3}
INVARIANTS
    SubagentsTypeOK
    SlotsHold
    NoIdleSlot
    Driven
    NoWaitLoop
    OneParent
PROPERTIES
    MailIsKept
CHECK_DEADLOCK FALSE
