\* The lock of the callers that give no staleMs, and L of MCSessions; three sets with two Pis;
\* four agents in a work tree.
SPECIFICATION MCSpec
CONSTANTS
    Procs = {p1, p2}
    HardLinks = TRUE
    HasStale = FALSE
    Attempts = 2
    Inos = {i1, i2, i3}
    MaxFaults = 1
    NoIno = NoIno
    NoFile = NoFile
    Sets = {1, 2, 3}
    First = 1
    PiOf <- MCPiOf
    Other = 0
    MaxSwitches = 2
    MaxStarts = 3
    Agents = {1, 2, 3, 4}
    Main = 0
    NoOne = NoOne
    Parent <- MCParent
    MaxRuns = 5
    MaxBash = 2
INVARIANTS
    SessionTypeOK
    OwnReleaseWithoutStale
    QuitIsAsked
    CancelIsFinal
    BoundedAnswers
    OneFamily
    ChangesSeen
PROPERTIES
    EmptyReplaced
    Settles
    ComesBack
    GoesOn
CHECK_DEADLOCK FALSE
