\* The comment in release: a lock taken over as stale is left alone.
SPECIFICATION Spec
CONSTANTS
    Procs = {p1, p2}
    HardLinks = TRUE
    HasStale = TRUE
    Attempts = 2
    Inos = {i1, i2, i3}
    MaxFaults = 1
    NoIno = NoIno
    NoFile = NoFile
INVARIANT ReleaseLeavesTakenOver
