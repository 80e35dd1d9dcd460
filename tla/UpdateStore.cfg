\* The store lost once; three sets of folders, two launchers, one death.
SPECIFICATION MCSpec
CONSTANTS
    Keys = {k1}
    Pi = pi
    Rel = {r1, r2}
    Texts = {t1}
    MaxCommands = None
    MaxEdits = 1
    MaxDeaths = 0
    MaxLosses = 1
    MaxOverwrites = 0
    MaxFailures = 0
    None = None
    Releases = {r0, r1, r2}
    Installed = r0
    Launchers = {p1, p2}
    Pids = {1}
    PidOf <- MCPidOf
    MaxKills = 1
    MaxChanges = 4
    Models = {1, 2}
    MaxMessages = 4
    MaxEvents = 1
    MaxNotes = 1
    Procs = {q1, q2, q3}
SYMMETRY StoreSymmetry
CONSTRAINTS InTime Recorded
INVARIANTS
    PartsTypeOK
    WayBack
    NeededStays
    ResultIsTested
    ToldOnce
    WarmAlone
    ChangesStay
CHECK_DEADLOCK FALSE
