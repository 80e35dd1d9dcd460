\* One session's runtime and its conversation; two processes of a session, one sweeper.
SPECIFICATION MCSpec
CONSTANTS
    Jobs = {1, 2}
    MaxAttempts = 2
    MaxLive = 2
    MaxRetained = 1
    MaxUndelivered = 0
    Bound <- MCBound
    MaxEvents = 2
    NoJob = NoJob
    Procs = {p1, p2}
    Sweepers = {s1}
    MaxCrashes = 1
    NoRecord = NoRecord
    Saw = Saw
INVARIANTS
    BothTypeOK
    BoundedSends
    ToldAsRecorded
    OneOwner
    NeverStranded
    NoForeignSignal
PROPERTIES
    TellsAtMostOnce
    TellsOrShows
CHECK_DEADLOCK FALSE
