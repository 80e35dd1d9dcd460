----------------------------- MODULE UpdateSwitch -----------------------------
(***************************************************************************)
(* How auto-update moves a machine from one set of releases to another     *)
(* (src/lib/auto-update: cycle, commands, enable, switch, undo, sources).  *)
(*                                                                         *)
(* A switch is four writes to four files: state.json, the undo copy in     *)
(* Pi's agent dir, the pi-current link and settings.json.  Each is atomic  *)
(* and each is an action here; the process can die between any two.  Only  *)
(* the holder of the updater lock writes (FileLock), so one variable holds *)
(* the command that runs; what enable and disable read before they have    *)
(* the lock is kept apart.  The user edits settings.json at any time.      *)
(*                                                                         *)
(* A set gives each key its release; `None` is no release.  An entry of    *)
(* settings.json is absent (None), a source text the user wrote, or the    *)
(* store folder of a release.  Two texts stand for the several ways to     *)
(* write one source, which give the same key.                              *)
(***************************************************************************)
EXTENDS Naturals

CONSTANTS
    Keys,        \* packages that settings.json may name
    Pi,          \* the key of Pi itself
    Rel,         \* release ids
    Texts,       \* source texts of a settings entry
    MaxCommands, \* bound: enable, disable, rollback and retry (None: no bound)
    MaxEdits,    \* bound: edits of settings.json by the user
    MaxDeaths,   \* bound: commands that die or fail half way
    MaxLosses,   \* bound: times the store is deleted
    MaxOverwrites, \* bound: times "npm install -g" writes over the launcher
    MaxFailures, \* bound: cycles in which an install fails
    None

ASSUME SwitchAssumption ==
    /\ Pi \notin Keys
    /\ None \notin Rel \cup Texts
    /\ Rel \cap Texts = {}
    /\ MaxCommands \in Nat \cup {None}
    /\ {MaxEdits, MaxDeaths, MaxLosses, MaxOverwrites, MaxFailures} \subseteq Nat

All == Keys \cup {Pi}
Sets == {set \in [All -> Rel \cup {None}] : set[Pi] # None}
Entries == Texts \cup Rel \cup {None}
Managed == [Keys -> Entries]

\* state.json, and the command that holds the lock: its next write (`at`), the set it switches
\* to with the entries it saw (once they are recorded, the originals to copy), what it read
\* before (cycle and enable: state.json; rollback: the set it leaves; disable: the originals),
\* and whether the store was lost since it last wrote there.
States == [enabled : BOOLEAN, current : Sets \cup {None}, previous : Sets \cup {None},
           managed : Managed, bad : SUBSET (All \X Rel)]
Steps == {"plan", "repairLink", "repairSettings", "record", "undo", "link", "settings", "mark",
          "first", "launcher", "config", "clear", "removeUndo"}
Jobs == [cmd : {"cycle", "rollback", "enable", "disable"}, at : Steps,
         set : Sets \cup {None}, packages : Managed \cup {None},
         from : Sets \cup Managed \cup States \cup {None}, lost : BOOLEAN]
Events == {"command", "edit", "death", "loss", "overwrite", "failure"}

ASSUME NoneAssumption == None \notin Sets \cup Managed \cup States \cup Jobs

VARIABLES
    state,     \* state.json
    undo,      \* managed of pi-extras-update-undo.json, or None for no file
    link,      \* the release pi-current points at, or None
    settings,  \* the packages of settings.json
    launcher,  \* whether ~/.local/bin/pi is the launcher
    config,    \* autoUpdate.enabled of pi-extras.json
    job,       \* the command that holds the updater lock, or None
    asked,     \* what enable and disable have read before they have the lock
    spent,     \* how often each bounded event has happened
    torn,      \* ghost: a command died between state.json and the undo copy
    raced,     \* ghost: enable or disable went by a state.json that had changed since
    forgot,    \* ghost: enable began with no record of a store entry in settings.json
    bare,      \* ghost: a switch went by a state.json without the enable record
    left,      \* ghost: releases that a rollback left behind
    loose      \* ghost: rollback or a second enable left store entries outside the set

ghosts == <<torn, raced, forgot, bare, left, loose>>
machine == <<state, undo, link, settings, launcher, config>>
vars == <<machine, job, asked, spent, ghosts>>

Happens(event, bound) ==
    /\ spent[event] < bound
    /\ spent' = [spent EXCEPT ![event] = @ + 1]

UserCommand ==
    IF MaxCommands = None THEN UNCHANGED spent ELSE Happens("command", MaxCommands)

NothingManaged == [k \in Keys |-> None]
EmptyState == [enabled |-> FALSE, current |-> None, previous |-> None,
               managed |-> NothingManaged, bad |-> {}]
NothingAsked == [enable |-> None, disable |-> None]

Init ==
    /\ state = EmptyState
    /\ undo = None
    /\ link = None
    /\ settings \in [Keys -> Texts]
    /\ launcher = FALSE
    /\ config = FALSE
    /\ job = None
    /\ asked = NothingAsked
    /\ spent = [event \in Events |-> 0]
    /\ torn = FALSE /\ raced = FALSE /\ forgot = FALSE /\ bare = FALSE
    /\ left = {} /\ loose = FALSE

------------------------------------------------------------------------------
(* Sets and settings (culprits.ts, sources.ts, switch.ts)                   *)

ChangedKeys(from, to) == {x \in All : from[x] # to[x]}

\* applySet: every entry of a key in the set names that key's release.
ApplySet(packages, set) ==
    [k \in Keys |-> IF packages[k] # None /\ set[k] # None THEN set[k] ELSE packages[k]]

\* restoreOriginals: every store entry with a recorded original goes back to it.
RestoreOriginals(packages, managed) ==
    [k \in Keys |-> IF packages[k] \in Rel /\ managed[k] # None THEN managed[k] ELSE packages[k]]

\* piCurrentMatches and settingsMatch
Matches(set) == link = set[Pi] /\ ApplySet(settings, set) = settings

\* trackedSources: the entry names a source, or the state knows the source of a store entry.
TrackedByText(packages, known) == {k \in Keys : packages[k] \in Texts}  \* mutant
Tracked(packages, known) ==
    {k \in Keys : \/ packages[k] \in Texts
                  \/ packages[k] \in Rel /\ known.managed[k] # None
                  \/ packages[k] \in Rel /\ known.current # None /\ known.current[k] # None}

\* switchTo: the original of each entry that the set manages for the first time.
ManagedAgain(packages, set, managed) ==  \* mutant
    [k \in Keys |-> IF packages[k] # None /\ set[k] # None THEN packages[k] ELSE managed[k]]
NewlyManaged(packages, set, managed) ==
    [k \in Keys |-> IF packages[k] # None /\ set[k] # None /\ managed[k] = None
                      THEN packages[k] ELSE managed[k]]

------------------------------------------------------------------------------
(* The command that holds the lock.  Each command takes its next step in     *)
(* program order; `at` names it.                                             *)

At(cmd, at) == job # None /\ job.cmd = cmd /\ job.at = at
Begins(cmd, at, from) ==
    job' = [cmd |-> cmd, at |-> at, set |-> None, packages |-> None, from |-> from, lost |-> FALSE]
Goes(at) == job' = [job EXCEPT !.at = at]
\* A write in the store succeeds only when the store is there.
GoesInStore(at) == job' = [job EXCEPT !.at = at, !.lost = FALSE]
SwitchesTo(set) ==
    job' = [cmd |-> job.cmd, at |-> "record", set |-> set, packages |-> settings, from |-> None,
            lost |-> FALSE]
Ends == job' = None

Free == job = None

(* check: runCycle and lockedCycle *)

\* repair runs when a crash left the link or settings.json behind.
NeverRepairs == "plan"  \* mutant
FirstStep == IF Matches(state.current) THEN "plan" ELSE "repairLink"

CycleBegin ==
    /\ Free
    /\ config
    /\ state.current # None
    /\ Begins("cycle", FirstStep, state)
    /\ UNCHANGED <<machine, asked, spent, ghosts>>

RepairLink ==
    /\ At("cycle", "repairLink")
    /\ link' = job.from.current[Pi]
    /\ GoesInStore("repairSettings")
    /\ UNCHANGED <<state, undo, settings, launcher, config, asked, spent, ghosts>>

RepairSettings ==
    /\ At("cycle", "repairSettings")
    /\ settings' = ApplySet(settings, job.from.current)
    /\ Goes("plan")
    /\ UNCHANGED <<state, undo, link, launcher, config, asked, spent, ghosts>>

\* A release that a cycle may take: the current one, or one that is not bad.
Wanted(x, release) == release = job.from.current[x] \/ <<x, release>> \notin job.from.bad

\* The sets lookUp and installAll may end with: each tracked key at a wanted
\* release.  A key that is not tracked is not in the set, nor is one whose
\* new release did not install.
Candidates(packages, failed) ==
    {set \in Sets :
        /\ \A x \in All : set[x] # None => Wanted(x, set[x])
        /\ \A k \in Keys \ Tracked(packages, job.from) : set[k] = None
        /\ \A k \in Tracked(packages, job.from) :
              set[k] = None => k \in failed \/ job.from.current[k] = None}

\* Installs that fail in this cycle.
InstallsFail(failed) ==
    IF failed = {} THEN UNCHANGED spent ELSE Happens("failure", MaxFailures)

\* The current set without the keys that the candidate drops.
Base(candidate) ==
    [x \in All |-> IF candidate[x] = None THEN None ELSE job.from.current[x]]

\* The test of the candidate passes (a set that only drops keys needs none).  It may take long,
\* and the cycle goes by what it read before.
CyclePasses ==
    /\ At("cycle", "plan")
    /\ \E failed \in SUBSET Keys : \E set \in Candidates(settings, failed) \ {job.from.current} :
          /\ InstallsFail(failed)
          /\ SwitchesTo(set)
    /\ UNCHANGED <<machine, asked, ghosts>>

\* The test fails.  The search marks some changes bad and may have found a set
\* without them that passes (Culprits), which the cycle switches to.
CycleFails ==
    /\ At("cycle", "plan")
    /\ \E candidate \in Candidates(settings, {}), set \in Sets :
          LET base == Base(candidate)
              changes == {x \in ChangedKeys(base, candidate) : candidate[x] # None}
          IN  /\ changes # {}
              /\ \A x \in All : set[x] \in {base[x], candidate[x]}
              /\ \E culprits \in SUBSET {x \in changes : set[x] = base[x]} :
                    state' = [state EXCEPT !.bad = @ \cup {<<x, candidate[x]>> : x \in culprits}]
              /\ IF set = base
                   THEN Ends
                   ELSE SwitchesTo(set)
    /\ UNCHANGED <<undo, link, settings, launcher, config, asked, spent, ghosts>>

\* Up to date, no verdict, or an error before the switch (also: state.json is gone).
CycleKeeps ==
    /\ At("cycle", "plan")
    /\ Ends
    /\ UNCHANGED <<machine, asked, spent, ghosts>>

(* switchTo: state.json, the undo copy, pi-current, settings.json *)

Switching(at) == job # None /\ job.at = at /\ job.cmd \in {"cycle", "rollback", "enable"}

\* updateState reads state.json again.  Without the enable record in it no copy is written.
Record ==
    /\ Switching("record")
    /\ LET managed == NewlyManaged(job.packages, job.set, state.managed)
       IN  /\ state' = [state EXCEPT !.previous = state.current, !.current = job.set,
                                     !.managed = managed]
           /\ job' = [job EXCEPT !.at = "undo", !.lost = FALSE,
                                 !.packages = IF state.enabled THEN managed ELSE None]
    /\ bare' = (bare \/ ~state.enabled)
    /\ loose' = CASE job.cmd = "cycle" -> loose
                  [] job.cmd = "rollback" -> TRUE
                  [] job.cmd = "enable" -> \E k \in Keys : job.packages[k] \in Rel
    /\ left' = IF job.cmd = "rollback"
                 THEN left \cup {<<x, job.from[x]>> : x \in {y \in ChangedKeys(job.from, job.set) :
                                                          job.from[y] # None /\ job.set[y] # None}}
                 ELSE left
    /\ UNCHANGED <<undo, link, settings, launcher, config, asked, spent, torn, raced, forgot>>

CopiedOnce == IF undo = None THEN job.packages ELSE undo  \* mutant
Copied == IF job.packages # None THEN job.packages ELSE undo

CopyUndo ==
    /\ Switching("undo")
    /\ undo' = Copied
    /\ torn' = (torn /\ job.packages = None)
    /\ Goes("link")
    /\ UNCHANGED <<state, link, settings, launcher, config, asked, spent, raced, forgot, bare, left,
                   loose>>

FlipLink ==
    /\ Switching("link")
    /\ link' = job.set[Pi]
    /\ GoesInStore("settings")
    /\ UNCHANGED <<state, undo, settings, launcher, config, asked, spent, ghosts>>

RewriteSettings ==
    /\ Switching("settings")
    /\ settings' = ApplySet(settings, job.set)
    /\ CASE job.cmd = "cycle" -> Ends
         [] job.cmd = "rollback" -> Goes("mark")
         [] job.cmd = "enable" -> Goes("launcher")
    /\ UNCHANGED <<state, undo, link, launcher, config, asked, spent, ghosts>>

(* rollback and retry *)

HasPrevious == state.current # None /\ state.previous # None

RollbackBegin ==
    /\ UserCommand
    /\ Free
    /\ HasPrevious
    /\ job' = [cmd |-> "rollback", at |-> "record", set |-> state.previous,
               packages |-> settings, from |-> state.current, lost |-> FALSE]
    /\ UNCHANGED <<machine, asked, ghosts>>

\* The releases to mark bad: only a key that both sets have was rolled back.
ReleasesTo(to, from) == {<<x, to[x]>> : x \in {y \in ChangedKeys(to, from) : to[y] # None}}  \* mutant
RolledBack(to, from) ==
    {<<x, from[x]>> : x \in {y \in ChangedKeys(to, from) : from[y] # None /\ to[y] # None}}

RollbackMarks ==
    /\ At("rollback", "mark")
    /\ state' = [state EXCEPT !.bad = @ \cup RolledBack(job.set, job.from)]
    /\ Ends
    /\ UNCHANGED <<undo, link, settings, launcher, config, asked, spent, ghosts>>

Retry ==
    /\ UserCommand
    /\ Free
    /\ state' = [state EXCEPT !.bad = {}]
    /\ left' = {}
    /\ UNCHANGED <<undo, link, settings, launcher, config, job, asked, torn, raced, forgot, bare, loose>>

(* enable: it reads state.json and the old link before it has the lock *)

EnableAsks ==
    /\ UserCommand
    /\ asked.enable = None
    /\ ~launcher
    /\ asked' = [asked EXCEPT !.enable = state]
    /\ UNCHANGED <<machine, job, ghosts>>

EnableLocks ==
    /\ Free
    /\ asked.enable # None
    /\ Begins("enable", "first", asked.enable)
    /\ asked' = [asked EXCEPT !.enable = None]
    /\ raced' = (raced \/ asked.enable # state)
    /\ UNCHANGED <<machine, spent, torn, forgot, bare, left, loose>>

\* firstSet passes its test.  It follows no key whose source only state.json knows.
EnableWrites ==
    /\ At("enable", "first")
    /\ \E set \in Sets :
          /\ \A k \in Keys : set[k] # None => settings[k] \in Texts
          /\ SwitchesTo(set)
    /\ state' = [job.from EXCEPT !.enabled = TRUE]
    /\ forgot' = (forgot \/ \E k \in Keys : settings[k] \in Rel /\ job.from.managed[k] = None)
    /\ UNCHANGED <<undo, link, settings, launcher, config, asked, spent, torn, raced, bare, left,
                   loose>>

\* An install or the test of the first set fails.
EnableFails ==
    /\ At("enable", "first")
    /\ Ends
    /\ UNCHANGED <<machine, asked, spent, ghosts>>

InstallLauncher ==
    /\ At("enable", "launcher")
    /\ launcher' = TRUE
    /\ Goes("config")
    /\ UNCHANGED <<state, undo, link, settings, config, asked, spent, ghosts>>

EnableConfig ==
    /\ At("enable", "config")
    /\ config' = TRUE
    /\ Ends
    /\ UNCHANGED <<state, undo, link, settings, launcher, asked, spent, ghosts>>

(* disable: it decides what to undo before it has the lock *)

\* undoSource: state.json, with the copy for keys it lacks; or the copy alone.
UndoSource ==
    IF state.enabled
      THEN [k \in Keys |-> IF state.managed[k] # None \/ undo = None THEN state.managed[k] ELSE undo[k]]
      ELSE undo

DisableAsks ==
    /\ UserCommand
    /\ asked.disable = None
    /\ UndoSource # None
    /\ asked' = [asked EXCEPT !.disable = UndoSource]
    /\ UNCHANGED <<machine, job, ghosts>>

DisableLocks ==
    /\ Free
    /\ asked.disable # None
    /\ Begins("disable", "launcher", asked.disable)
    /\ asked' = [asked EXCEPT !.disable = None]
    /\ raced' = (raced \/ asked.disable # UndoSource)
    /\ UNCHANGED <<machine, spent, torn, forgot, bare, left, loose>>

\* waitForLock gives up after LOCK_WAIT_MS.
GivesUp ==
    /\ ~Free
    /\ \E cmd \in {"enable", "disable"} :
          /\ asked[cmd] # None
          /\ asked' = [asked EXCEPT ![cmd] = None]
    /\ UNCHANGED <<machine, job, spent, ghosts>>

RestoreLauncher ==
    /\ At("disable", "launcher")
    /\ launcher' = FALSE
    /\ Goes("settings")
    /\ UNCHANGED <<state, undo, link, settings, config, asked, spent, ghosts>>

RestoreSettings ==
    /\ At("disable", "settings")
    /\ settings' = RestoreOriginals(settings, job.from)
    /\ Goes("config")
    /\ UNCHANGED <<state, undo, link, launcher, config, asked, spent, ghosts>>

DisableConfig ==
    /\ At("disable", "config")
    /\ config' = FALSE
    /\ Goes("clear")
    /\ UNCHANGED <<state, undo, link, settings, launcher, asked, spent, ghosts>>

ClearEnableState ==
    /\ At("disable", "clear")
    /\ state' = [EmptyState EXCEPT !.bad = state.bad]
    /\ GoesInStore("removeUndo")
    /\ UNCHANGED <<undo, link, settings, launcher, config, asked, spent, ghosts>>

RemoveUndo ==
    /\ At("disable", "removeUndo")
    /\ undo' = None
    /\ Ends
    /\ UNCHANGED <<state, link, settings, launcher, config, asked, spent, ghosts>>

------------------------------------------------------------------------------
(* The user and the machine *)

\* A settings entry appears or goes away.
UserEdits(k) ==
    /\ Happens("edit", MaxEdits)
    /\ \E text \in Texts \cup {None} :
          /\ (text = None) # (settings[k] = None)
          /\ settings' = [settings EXCEPT ![k] = text]
    /\ UNCHANGED <<state, undo, link, launcher, config, job, asked, ghosts>>

\* A write throws (Pi keeps settings.json locked for 5 s) or the process dies
\* (the hard limit, a kill, a power cut); a lock that names a dead pid is
\* taken over.
Dies ==
    /\ ~Free
    /\ Happens("death", MaxDeaths)
    /\ torn' = (torn \/ job.at = "undo")
    /\ Ends
    /\ UNCHANGED <<machine, asked, raced, forgot, bare, left, loose>>

\* The user deletes or moves the store, also while a command runs.
LoseStore ==
    /\ Happens("loss", MaxLosses)
    /\ state' = EmptyState
    /\ link' = None
    /\ left' = {}
    /\ job' = IF Free THEN job ELSE [job EXCEPT !.lost = TRUE]
    /\ UNCHANGED <<undo, settings, launcher, config, asked, torn, raced, forgot, bare, loose>>

\* The next write of the command is in the store, whose folder is gone: it
\* throws.  A session that starts makes the folder again for its lease; then
\* the command goes on.
FindsNoStore ==
    /\ ~Free
    /\ job.lost
    /\ job.at \in {"repairLink", "record", "link", "mark", "clear"}
    /\ Ends
    /\ UNCHANGED <<machine, asked, spent, ghosts>>

\* "npm install -g" of Pi writes its link over the launcher.
OverwriteLauncher ==
    /\ launcher
    /\ Happens("overwrite", MaxOverwrites)
    /\ launcher' = FALSE
    /\ UNCHANGED <<state, undo, link, settings, config, job, asked, ghosts>>

Cycle == CycleBegin \/ RepairLink \/ RepairSettings \/ CyclePasses \/ CycleFails \/ CycleKeeps
Switch == Record \/ CopyUndo \/ FlipLink \/ RewriteSettings
Rollback == RollbackBegin \/ RollbackMarks
Enable == EnableAsks \/ EnableLocks \/ EnableWrites \/ EnableFails \/ InstallLauncher \/ EnableConfig
Disable == DisableAsks \/ DisableLocks \/ RestoreLauncher \/ RestoreSettings \/ DisableConfig
           \/ ClearEnableState \/ RemoveUndo

Next ==
    \/ Cycle
    \/ Switch
    \/ Rollback
    \/ Retry
    \/ Enable
    \/ Disable
    \/ GivesUp
    \/ \E k \in Keys : UserEdits(k)
    \/ Dies
    \/ LoseStore
    \/ FindsNoStore
    \/ OverwriteLauncher

Spec == Init /\ [][Next]_vars

\* A running session starts a check every intervalMinutes, and a command that
\* holds the lock goes on to its end; nothing makes the user act.
FairSpec ==
    /\ Spec
    /\ WF_vars(CycleBegin)
    /\ WF_vars(RepairLink \/ RepairSettings \/ CyclePasses \/ CycleFails \/ CycleKeeps
               \/ Switch \/ RollbackMarks)
    /\ WF_vars(EnableWrites \/ EnableFails \/ InstallLauncher \/ EnableConfig)
    /\ WF_vars(RestoreLauncher \/ RestoreSettings \/ DisableConfig \/ ClearEnableState \/ RemoveUndo)

------------------------------------------------------------------------------
(* Properties *)

TypeOK ==
    /\ state \in States
    /\ undo \in Managed \cup {None}
    /\ link \in Rel \cup {None}
    /\ settings \in Managed
    /\ launcher \in BOOLEAN /\ config \in BOOLEAN
    /\ job \in Jobs \cup {None}
    /\ asked \in [enable : States \cup {None}, disable : Managed \cup {None}]
    /\ spent \in [Events -> Nat]
    /\ torn \in BOOLEAN /\ raced \in BOOLEAN /\ forgot \in BOOLEAN /\ bare \in BOOLEAN
    /\ loose \in BOOLEAN
    /\ left \subseteq All \X Rel

\* disable could put back the entry of this key as the user wrote it.
Undoable(k) == UndoSource # None /\ UndoSource[k] \in Texts

\* At every moment, whatever dies or gets lost, disable finds the text the
\* user wrote for each settings entry that names a store folder (undo.ts:
\* "a deleted or moved store must not leave the user without a way back").
\* The exceptions: `torn`, a switch that died before it wrote the copy (repair
\* does not write it); `raced`, a command that went by an old state.json;
\* `forgot`, an enable after the store was lost, whose record replaces the copy
\* that has the only originals; and `bare`, a store that was lost under a
\* command which then records its switch: state.json has no enable record, so
\* no switch from then on writes the copy, and settings.json is rewritten
\* (cycle.ts:348).
WayBack ==
    torn \/ raced \/ forgot \/ bare \/ \A k \in Keys : settings[k] \in Rel => Undoable(k)

\* When no command runs and nothing is to be repaired, the machine runs the
\* current set and nothing else of the store: each settings entry that names a
\* store folder names the one of the set that was tested (culprits.ts: the
\* test's entries are "what a session on that set loads").  A rollback keeps
\* the entry of a package that came later than the previous set, and a second
\* enable starts from a set without the entries the first one rewrote.
RunsTheSet ==
    (Free /\ ~loose /\ ~raced /\ state.current # None /\ Matches(state.current))
        => \A k \in Keys : settings[k] \in Rel => settings[k] = state.current[k]

\* No cycle takes a release again that the user rolled back, until retry
\* (commands.ts: "marked bad, so the next cycle does not install them again").
\* The marks are the last write of a rollback, so this says nothing once a command
\* died half way.
RolledBackStaysOut ==
    [][~raced /\ spent["death"] = 0 /\ At("cycle", "record") /\ state'.current # state.current =>
          \A x \in All : <<x, job.set[x]>> \in left =>
              state.current # None /\ job.set[x] = state.current[x]]_vars

\* A crash between two writes of a switch is repaired: pi-current comes to
\* the current set again, and settings.json names it, unless the updater is
\* off (switch.ts: "the next cycle repairs a crash between two steps by running them again").
Astray == state.current # None /\ config /\ ~Matches(state.current)
Repaired == Astray ~> ~Astray
=============================================================================
