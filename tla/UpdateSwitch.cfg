SPECIFICATION Spec
CONSTANTS
    Keys = {k1}
    Pi = pi
    Rel = {r1, r2}
    Texts = {t1}
    MaxCommands = None
    MaxEdits = 2
    MaxDeaths = 1
    MaxLosses = 1
    MaxOverwrites = 0
    MaxFailures = 0
    None = None
SYMMETRY Symmetry
CONSTRAINTS InTime Recorded OneUpset
INVARIANTS
    WayBack
    RunsTheSet
PROPERTIES
    RolledBackStaysOut
CHECK_DEADLOCK FALSE
