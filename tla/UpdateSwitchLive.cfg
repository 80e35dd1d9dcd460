SPECIFICATION FairSpec
CONSTANTS
    Keys = {k1}
    Pi = pi
    Rel = {r1, r2}
    Texts = {t1}
    MaxCommands = 2
    MaxEdits = 0
    MaxDeaths = 1
    MaxLosses = 1
    MaxOverwrites = 1
    MaxFailures = 0
    None = None
PROPERTIES
    Repaired
CHECK_DEADLOCK FALSE
