SPECIFICATION Spec
CONSTANTS
    Keys = {k1}
    Pi = pi
    Rel = {r1, r2}
    Texts = {t1}
    MaxCommands = None
    MaxEdits = 0
    MaxDeaths = 0
    MaxLosses = 0
    MaxOverwrites = 0
    MaxFailures = 1
    None = None
SYMMETRY Symmetry
CONSTRAINTS InTime
INVARIANTS
    RunsTheSet
CHECK_DEADLOCK FALSE
