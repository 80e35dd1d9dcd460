----------------------------- MODULE UpdateStore -----------------------------
(***************************************************************************)
(* The folders of the update store (src/lib/auto-update/gc.ts, leases.ts,    *)
(* launcher.sh, and the leases of session.ts): a cycle installs a set and     *)
(* makes it current while launchers start Pi from the link and sessions load  *)
(* packages, each of which writes a lease only after it looked.  A package    *)
(* that registers no tool and no command is named in the lease by the         *)
(* settings.json of that time.  The collector removes what no set, no entry   *)
(* of settings.json and no lease names.                                     *)
(*                                                                         *)
(* A set of releases is one value; it has a folder for Pi and one for its     *)
(* packages.  What a cycle installs and how it tests is in UpdateSwitch.      *)
(***************************************************************************)
EXTENDS Naturals, FiniteSets

CONSTANTS
    Sets,       \* sets of releases
    First,      \* the set that enable installed
    Procs,      \* launchers, each with the Pi it runs
    Pids,
    PidOf,      \* the pid of each launcher; two may have the same, one after the other
    None,       \* no set, and no launcher's lease
    MaxDeaths   \* bound: deaths of a cycle or a Pi

VARIABLES
    folders,  \* the folders in the store
    current,  \* state.current
    previous, \* state.previous
    link,     \* pi-current
    settings, \* the set whose folders settings.json names
    at,       \* the next step of the process that has the updater lock
    after,    \* what it does once settings.json is written
    phase,    \* each launcher: none, looked, leased, loaded, up, bare, again, gone
    uses,     \* folders that its Pi loads or has loaded
    noted,    \* launcher-<pid>.json: the launcher and the folder it names
    session,  \* <pid>-<start>.json: the folders that the Pi's lease names
    keep,     \* the collector: folders it has a reason to keep
    names,    \* lease files that it listed and has not read
    dead,     \* launcher leases that it has read as dead and will remove
    deaths,
    overtaken, \* ghost: launchers whose set left the state before they had a lease
    robbed,    \* ghost: launchers whose lease was removed for that of an earlier one
    missed     \* ghost: folders that the Pi loaded, and settings.json hid from its lease

store == <<folders, current, previous, link, settings>>
job == <<at, after>>
runs == <<phase, uses, noted, session>>
collector == <<keep, names, dead>>
ghosts == <<overtaken, robbed, missed>>
vars == <<store, job, runs, collector, deaths, ghosts>>

Folders == {"pi", "pkg"} \X Sets
FoldersOf(s) == {<<"pi", s>>, <<"pkg", s>>}

Init ==
    /\ folders = FoldersOf(First)
    /\ current = First
    /\ previous = None
    /\ link = First
    /\ settings = First
    /\ at = "idle"
    /\ after = "idle"
    /\ phase = [p \in Procs |-> "none"]
    /\ uses = [p \in Procs |-> {}]
    /\ noted = [i \in Pids |-> None]
    /\ session = [p \in Procs |-> {}]
    /\ keep = {}
    /\ names = {}
    /\ dead = {}
    /\ deaths = 0
    /\ overtaken = {}
    /\ robbed = {}
    /\ missed = [p \in Procs |-> {}]

------------------------------------------------------------------------------
(* The process that has the updater lock *)

\* Repair comes before anything else of a cycle.
BeginRepair ==
    /\ at = "idle" /\ (link # current \/ settings # current)
    /\ at' = "link"
    /\ after' = "install"
    /\ UNCHANGED <<store, runs, collector, deaths, ghosts>>

MayInstall == at \in {"idle", "install"} /\ link = current /\ settings = current

Recorded(s) ==
    /\ previous' = current
    /\ current' = s
    /\ at' = "link"
    /\ overtaken' = overtaken \cup
          {p \in Procs : /\ phase[p] \in {"looked", "loaded"}
                         /\ \E f \in uses[p] \ missed[p] : f[2] \notin {s, current} /\ f \notin session[p]}

\* installAll and the tests: a folder of the set that exists is used again.  The set
\* becomes current, or its tests fail and its folders stay.
Install(s) ==
    /\ MayInstall
    /\ s # current
    /\ folders' = folders \cup FoldersOf(s)
    /\ \/ Recorded(s) /\ after' = "collect"
       \/ at' = "idle" /\ UNCHANGED <<current, previous, after, overtaken>>
    /\ UNCHANGED <<link, settings, runs, collector, deaths, robbed, missed>>

\* Mutant of CanRollBack: also with no set before the current one.
AlwaysRollsBack == TRUE

CanRollBack == previous # None

\* rollback switches without a repair first.
Rollback ==
    /\ at = "idle" /\ CanRollBack
    /\ Recorded(previous)
    /\ after' = "idle"
    /\ UNCHANGED <<folders, link, settings, runs, collector, deaths, robbed, missed>>

FlipLink ==
    /\ at = "link"
    /\ link' = current
    /\ at' = "settings"
    /\ UNCHANGED <<folders, current, previous, settings, after, runs, collector, deaths, ghosts>>

RewriteSettings ==
    /\ at = "settings"
    /\ settings' = current
    /\ at' = after
    /\ after' = "idle"
    /\ UNCHANGED <<folders, current, previous, link, runs, collector, deaths, ghosts>>

\* A cycle that died, was killed, or threw.
Dies ==
    /\ at # "idle" /\ deaths < MaxDeaths
    /\ deaths' = deaths + 1
    /\ at' = "idle" /\ after' = "idle"
    /\ keep' = {} /\ names' = {} /\ dead' = {}
    /\ UNCHANGED <<store, runs, ghosts>>

\* The gc command collects without a switch.
GcCommand ==
    /\ at = "idle"
    /\ at' = "collect"
    /\ UNCHANGED <<store, after, runs, collector, deaths, ghosts>>

------------------------------------------------------------------------------
(* The collector *)

Running(p) == phase[p] \notin {"none", "gone"}
PiRuns(p) == phase[p] \in {"loaded", "up", "bare"}

\* Mutant of SetFolders: the previous set is not kept.
CurrentFolders == FoldersOf(current) \cup {<<"pkg", settings>>}

\* What collect names without the leases: both sets, and settings.json.
SetFolders ==
    FoldersOf(current) \cup {<<"pkg", settings>>}
    \cup (IF previous = None THEN {} ELSE FoldersOf(previous))

\* Lease files: a launcher's is named by its pid, a session's by pid and start time.
LeaseFiles == {i \in Pids : noted[i] # None} \cup {p \in Procs : session[p] # {}}

\* collect and readLiveLeases up to its readdir.
CollectLists ==
    /\ at = "collect"
    /\ at' = "leases"
    /\ keep' = SetFolders
    /\ names' = LeaseFiles
    /\ UNCHANGED <<store, after, runs, dead, deaths, ghosts>>

\* A launcher's lease counts while the launcher lives that wrote it.
ReadLauncherLease(i) ==
    /\ at = "leases" /\ i \in names
    /\ names' = names \ {i}
    /\ \/ /\ noted[i] # None /\ Running(noted[i][1])
          /\ keep' = keep \cup {<<"pi", noted[i][2]>>}
          /\ UNCHANGED dead
       \/ /\ noted[i] # None /\ ~Running(noted[i][1])
          /\ dead' = dead \cup {i}
          /\ UNCHANGED keep
       \/ noted[i] = None /\ UNCHANGED <<keep, dead>>
    /\ UNCHANGED <<store, job, runs, deaths, ghosts>>

\* A session's lease: its file name has the start time, so what is dead stays dead.
ReadSessionLease(p) ==
    /\ at = "leases" /\ p \in names
    /\ names' = names \ {p}
    /\ keep' = IF PiRuns(p) THEN keep \cup session[p] ELSE keep
    /\ session' = IF PiRuns(p) THEN session ELSE [session EXCEPT ![p] = {}]
    /\ UNCHANGED <<store, job, phase, uses, noted, dead, deaths, ghosts>>

\* rmSync of a lease that was read as dead, whatever has that name by now.
RemoveDeadLease(i) ==
    /\ at = "leases" /\ i \in dead
    /\ dead' = dead \ {i}
    /\ noted' = [noted EXCEPT ![i] = None]
    /\ robbed' = robbed \cup {p \in Procs : noted[i] # None /\ noted[i][1] = p /\ Running(p)}
    /\ UNCHANGED <<store, job, phase, uses, session, keep, names, deaths, overtaken, missed>>

CollectRemoves ==
    /\ at = "leases" /\ names = {} /\ dead = {}
    /\ at' = "removing"
    /\ UNCHANGED <<store, after, runs, collector, deaths, ghosts>>

\* One folder after another; a young one, or one that /proc shows in use, may stay.
RemoveFolder(f) ==
    /\ at = "removing" /\ f \in folders \ keep
    /\ folders' = folders \ {f}
    /\ UNCHANGED <<current, previous, link, settings, job, runs, collector, deaths, ghosts>>

CollectEnds ==
    /\ at = "removing"
    /\ at' = "idle"
    /\ keep' = {}
    /\ UNCHANGED <<store, after, runs, names, dead, deaths, ghosts>>

------------------------------------------------------------------------------
(* Launchers and their Pi *)

\* pick_pi: the real folder behind the link, or the fallback Pi, which needs no lease.
Look(p) ==
    /\ phase[p] \in {"none", "again"}
    /\ \A q \in Procs \ {p} : PidOf[q] = PidOf[p] => ~Running(q)
    /\ IF <<"pi", link>> \in folders
         THEN /\ phase' = [phase EXCEPT ![p] = "looked"]
              /\ uses' = [uses EXCEPT ![p] = {<<"pi", link>>}]
              /\ UNCHANGED noted
         ELSE /\ phase' = [phase EXCEPT ![p] = "gone"]
              /\ noted' = [noted EXCEPT ![PidOf[p]] = None]
              /\ UNCHANGED uses
    /\ UNCHANGED <<store, job, session, collector, deaths, ghosts>>

\* write_lease: temp file and mv.
WriteLauncherLease(p) ==
    /\ phase[p] = "looked"
    /\ phase' = [phase EXCEPT ![p] = "leased"]
    /\ \E f \in uses[p] : noted' = [noted EXCEPT ![PidOf[p]] = <<p, f[2]>>]
    /\ UNCHANGED <<store, job, uses, session, collector, deaths, ghosts>>

\* Pi starts and loads the packages that settings.json names, or none: then nothing
\* of pi-extras runs in it, and it writes no lease.
Load(p) ==
    /\ phase[p] = "leased"
    /\ \/ /\ phase' = [phase EXCEPT ![p] = "loaded"]
          /\ uses' = [uses EXCEPT ![p] = @ \cup ({<<"pkg", settings>>} \cap folders)]
       \/ /\ phase' = [phase EXCEPT ![p] = "bare"]
          /\ UNCHANGED uses
    /\ UNCHANGED <<store, job, noted, session, collector, deaths, ghosts>>

\* Mutant of History: only what this load added, without what the process loaded before.
LastLoaded(p) == {f \in uses[p] : f[1] = "pi" \/ f[2] = settings}

\* The lease names every release the process loaded, across reloads.
History(p) == session[p] \cup (uses[p] \ missed[p])

\* loadedEntries: what registered nothing is named by settings.json now, not by what Pi loaded.
Snapshot(p) == session[p] \cup {f \in uses[p] : f[1] = "pi"} \cup {<<"pkg", settings>>}

\* session_start: writeLease.
SessionStart(p) ==
    /\ phase[p] = "loaded"
    /\ phase' = [phase EXCEPT ![p] = "up"]
    /\ \/ /\ session' = [session EXCEPT ![p] = History(p)]
          /\ UNCHANGED missed
       \/ /\ session' = [session EXCEPT ![p] = Snapshot(p)]
          /\ missed' = [missed EXCEPT ![p] = @ \cup (uses[p] \ Snapshot(p))]
    /\ UNCHANGED <<store, job, uses, noted, collector, deaths, overtaken, robbed>>

\* A reload: the lease stays as it is until the next session_start.
Reload(p) ==
    /\ phase[p] = "up"
    /\ phase' = [phase EXCEPT ![p] = "loaded"]
    /\ uses' = [uses EXCEPT ![p] = @ \cup ({<<"pkg", settings>>} \cap folders)]
    /\ missed' = [missed EXCEPT ![p] = @ \ {<<"pkg", settings>>}]
    /\ UNCHANGED <<store, job, noted, session, collector, deaths, overtaken, robbed>>

\* The Pi that p ran loads nothing any more.
Forgets(p) ==
    /\ uses' = [uses EXCEPT ![p] = {}]
    /\ overtaken' = overtaken \ {p}
    /\ robbed' = robbed \ {p}
    /\ missed' = [missed EXCEPT ![p] = {}]

\* A clean end: the session's lease goes; the launcher ends, too, or starts Pi again.
Ends(p) ==
    /\ PiRuns(p)
    /\ Forgets(p)
    /\ session' = [session EXCEPT ![p] = {}]
    /\ \/ /\ phase' = [phase EXCEPT ![p] = "gone"]
          /\ noted' = [noted EXCEPT ![PidOf[p]] = None]
       \/ /\ phase[p] = "up"
          /\ phase' = [phase EXCEPT ![p] = "again"]
          /\ UNCHANGED noted
    /\ UNCHANGED <<store, job, collector, deaths>>

\* Killed, with the leases left behind.
Killed(p) ==
    /\ Running(p) /\ deaths < MaxDeaths
    /\ deaths' = deaths + 1
    /\ phase' = [phase EXCEPT ![p] = "gone"]
    /\ Forgets(p)
    /\ UNCHANGED <<store, job, noted, session, collector>>

Next ==
    \/ BeginRepair \/ Rollback \/ FlipLink \/ RewriteSettings \/ Dies \/ GcCommand
    \/ CollectLists \/ CollectRemoves \/ CollectEnds
    \/ \E s \in Sets : Install(s)
    \/ \E i \in Pids : ReadLauncherLease(i) \/ RemoveDeadLease(i)
    \/ \E f \in Folders : RemoveFolder(f)
    \/ \E p \in Procs :
          \/ ReadSessionLease(p) \/ Look(p) \/ WriteLauncherLease(p) \/ Load(p)
          \/ SessionStart(p) \/ Reload(p) \/ Ends(p) \/ Killed(p)

Spec == Init /\ [][Next]_vars

------------------------------------------------------------------------------
(* Properties *)

TypeOK ==
    /\ folders \subseteq Folders
    /\ current \in Sets /\ previous \in Sets \cup {None}
    /\ link \in Sets /\ settings \in Sets
    /\ at \in {"idle", "install", "link", "settings", "collect", "leases", "removing"}
    /\ after \in {"idle", "install", "collect"}
    /\ phase \in [Procs -> {"none", "looked", "leased", "loaded", "up", "bare", "again", "gone"}]
    /\ uses \in [Procs -> SUBSET Folders]
    /\ noted \in [Pids -> (Procs \X Sets) \cup {None}]
    /\ session \in [Procs -> SUBSET Folders]
    /\ keep \subseteq Folders /\ names \subseteq Procs \cup Pids /\ dead \subseteq Pids
    /\ deaths \in 0 .. MaxDeaths
    /\ overtaken \subseteq Procs /\ robbed \subseteq Procs
    /\ missed \in [Procs -> SUBSET Folders]

\* leases.ts: "so GC never removes a folder a process may still load from".  Nothing a process
\* loads or has loaded is removed, through reloads, rollbacks, interrupted switches and
\* reused pids, unless its set left the state between its look and its lease (launcher.sh,
\* pick_pi), the lease of an earlier launcher with its pid was removed by name while it
\* wrote its own (leases.ts, readLiveLeases), or settings.json changed between the load and
\* session_start and the package registered nothing by which its lease would name it
\* (own-set.ts): then that folder alone may go.
\* Nor is what the link and settings.json name, also after a switch that was cut off: no
\* launcher has to start the fallback Pi.
NeededStays ==
    /\ \A p \in Procs \ (overtaken \cup robbed) : Running(p) => uses[p] \ missed[p] \subseteq folders
    /\ <<"pi", link>> \in folders /\ <<"pkg", settings>> \in folders
=============================================================================
