---------------------------- MODULE MCUpdateStore ----------------------------
(***************************************************************************)
(* What must not be lost while it is replaced: the user's settings when the   *)
(* store goes (UpdateSwitch), folders in use by two launchers                 *)
(* whose pids are the same (UpdateStore), what the tests of a search showed    *)
(* (Culprits), changes of settings.json (SettingsLock), and the messages of a  *)
(* conversation that is compacted (CacheCompaction).  They share no variable; *)
(* `part`, chosen at the start, says which of them moves.                    *)
(***************************************************************************)
EXTENDS MCUpdateSwitch

CONSTANTS
    Procs,                                     \* SettingsLock
    Releases, Installed, Launchers, Pids, PidOf, MaxKills,  \* UpdateStore
    MaxChanges,                                \* Culprits
    Models, MaxMessages, MaxEvents, MaxNotes   \* CacheCompaction

VARIABLES
    part,
    lock, old, file, pc, seen, text, late, swept,
    folders, now, before, piLink, named, step, then, phase, uses, noted, leases,
    keep, names, dead, kills, overtaken, robbed, missed,
    changes, test, todo, fine, failed, grown, result, tests,
    branch, model, turn, pending, latest, summary, compact, timer, warm, stray, wake, told, used

K == INSTANCE SettingsLock

C == INSTANCE UpdateStore WITH
        Sets <- Releases, First <- Installed, Procs <- Launchers, MaxDeaths <- MaxKills,
        current <- now, previous <- before, link <- piLink, settings <- named, at <- step,
        after <- then, session <- leases, deaths <- kills

S == INSTANCE Culprits WITH at <- test, left <- todo, set <- grown

M == INSTANCE CacheCompaction WITH late <- stray, spent <- used

\* A pid is no launcher; None is no set, and no record of a launcher and a set.
ASSUME StoreAssumption ==
    /\ Installed \in Releases /\ None \notin Releases
    /\ PidOf \in [Launchers -> Pids]
    /\ Launchers \cap Pids = {}
    /\ None \notin Launchers \X Releases
    /\ MaxKills \in Nat

ASSUME SearchAssumption == MaxChanges \in Nat

\* None is no summary and no compaction.
ASSUME CacheAssumption ==
    /\ {MaxMessages, MaxEvents, MaxNotes} \subseteq Nat
    /\ None \notin M!Requests /\ None \notin M!Summaries /\ None \notin M!Compactions

\* The launchers have one pid, one after the other.
MCPidOf == [p \in Launchers |-> 1]

lockVars == <<lock, old, file, pc, seen, text, late, swept>>
storeVars == <<folders, now, before, piLink, named, step, then, phase, uses, noted, leases,
               keep, names, dead, kills, overtaken, robbed, missed>>
searchVars == <<changes, test, todo, fine, failed, grown, result, tests>>
cacheVars == <<branch, model, turn, pending, latest, summary, compact, timer, warm, stray, wake,
               told, used>>

\* The models are alike, so a session may start with the first one.
MCInit ==
    /\ part \in {"switch", "folders", "search", "save", "cache"}
    /\ Init /\ K!Init /\ C!Init /\ S!Init /\ M!Init /\ model = 1
    /\ part # "search" => changes = {1}

MCNext ==
    /\ UNCHANGED part
    /\ \/ part = "switch" /\ Next /\ UNCHANGED <<lockVars, storeVars, searchVars, cacheVars>>
       \/ part = "folders" /\ C!Next /\ UNCHANGED <<vars, lockVars, searchVars, cacheVars>>
       \/ part = "search" /\ S!Next /\ UNCHANGED <<vars, lockVars, storeVars, cacheVars>>
       \/ part = "save" /\ K!Next /\ UNCHANGED <<vars, storeVars, searchVars, cacheVars>>
       \/ part = "cache" /\ M!Next /\ UNCHANGED <<vars, lockVars, storeVars, searchVars>>

MCSpec == MCInit /\ [][MCNext]_<<part, vars, lockVars, storeVars, searchVars, cacheVars>>

\* A release of UpdateSwitch is a set of UpdateStore, too.
StoreSymmetry == Symmetry \cup Permutations(Launchers)

\* The state of the part that moves has its types; the others stay as they begin.
PartsTypeOK ==
    /\ part = "switch" => TypeOK
    /\ part = "folders" => C!TypeOK
    /\ part = "search" => S!TypeOK
    /\ part = "save" => K!TypeOK
    /\ part = "cache" => M!TypeOK

\* The properties of the other parts, stated there.  InTime and Recorded say how far UpdateSwitch
\* is explored here, too, and WayBack is about a lost store.

\* A change of settings.json that was saved stays (settings-lock.ts).
ChangesStay == K!ChangesStay
\* Nothing that is named, or that a process loads or has loaded, is removed (gc.ts, switch.ts).
NeededStays == C!NeededStays
\* What the search marks failed twice, what it keeps and clears has passed (culprits.ts).
ResultIsTested == S!ResultIsTested
\* A summary and what is kept after it are the whole conversation, once (cache-compaction.ts).
ToldOnce == M!ToldOnce
\* A warm is alone (warmer.ts).
WarmAlone == M!WarmAlone
=============================================================================
