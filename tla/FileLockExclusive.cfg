\* Callers that give no staleMs; without hard links, so that a file may be there without its pid.
SPECIFICATION Spec
CONSTANTS
    Procs = {p1, p2, p3}
    HardLinks = FALSE
    HasStale = FALSE
    Attempts = 2
    Inos = {i1, i2, i3, i4}
    MaxFaults = 1
    NoIno = NoIno
    NoFile = NoFile
SYMMETRY Symmetry
INVARIANTS
    TypeOK
    MutualExclusion
