# pi-extras: models and proofs

pi-extras is a set of extensions for the Pi coding agent: an updater that moves
every running session to a tested set of releases, subagents that run beside the
main session, shell jobs that outlive the session that started them, recovery
from provider rate limits, a voice assistant, computer use, and many smaller
tools. Most of it runs in several Node processes that share files and talk over
sockets and pipes; inside one process, handlers interleave at every `await`.
These modules model the parts where the order of steps, a crash between two of
them, or a lost or late message decides whether the program is right.

    FileLock          src/lib/file-lock.ts                  the lock of the shared files
      MCFileLock, FileLockProofs
    SettingsLock      auto-update/settings-lock.ts          the lock of Pi's settings.json
    UpdateSwitch      auto-update/cycle.ts, enable.ts, ...  one action a write
      MCUpdateSwitch, UpdateSwitchProofs
    UpdateStore       gc.ts, leases.ts, launcher.sh, ...    who uses which folder
    Culprits          auto-update/culprits.ts               the search for what broke a test
    Adoption          session.ts, adopt.ts, launcher.sh     how a session comes to the set
    TeamGraph         subagents/after.ts                    who waits for whom
      TeamSlots         slots.ts, team.ts                     the line for the slots
        TeamRouting       routing.ts, questions.ts, hand-up.ts  messages and reports
          Team              team.ts, tools.ts, sessions.ts        runs, stops, failures
            MCTeam, TeamLemmas
    EditLock          edit-lock.ts, bash-guard.ts           who may edit a work tree
    ParentLease       subagents/ownership.ts                which process has the subagents
    JobCompletions    (abstract)                            what a job's message promises
    ShellJobs         extensions/shell-jobs.ts, ...         shown to implement it
      ShellJobsProofs
    JobHandover       shell-jobs-handover.ts, adopt.ts      who owns a job across restarts
      JobHandoverProofs
    IdleWait          rate-limit-recovery/idle-wait.ts      the wait for a local server
    CacheCompaction   cache-compaction.ts, warmer.ts        summaries and cache warms
    SessionsProofs    theorems about EditLock, IdleWait, Adoption and MCSessions
    UpdateStoreProofs theorems about UpdateStore, Culprits, SettingsLock, CacheCompaction
                      and MCUpdateStore
    SubagentsProofs   theorems about Team, ParentLease and MCSubagents

An indented module EXTENDS the one above it; a proof module EXTENDS the module it is
about, or the composition that has it as a part. Four modules put parts that run side by
side into one run: MCUpdateStore (UpdateSwitch, UpdateStore, Culprits, SettingsLock,
CacheCompaction), MCSubagents (Team, ParentLease), MCJobs (JobHandover, ShellJobs) and
MCSessions (FileLock, Adoption, IdleWait, EditLock). Their parts share no
variable. A variable `part` chosen at the start says which one moves, so such a run
checks each part by itself and does not multiply their states.

## Running

    tlc -workers 2 -config Team.cfg MCSubagents.tla   # any run: PROJECT.json names module and cfg
    tlapm JobHandoverProofs.tla                       # a module with theorems

With two workers the longest runs (update_store, jobs, team, update_live, update_switch,
sessions) take one and a half to three minutes, most take seconds. Each proof module takes
a few minutes, TeamLemmas and SubagentsProofs about twenty each. Team takes twice as long
with TLC's `-coverage`: its operators nest deeply, and every call is counted.

## Inventory

"Hard" names what makes the part difficult to test; PROJECT.json lists the hazards one
by one, at their lines.

**File lock** (lib/file-lock.ts; modelled). State: one file at a path, with pid and
token, linked into place or written in place. Operations: tryLock, withFileLock,
waitForLock, isLockHeld, release. Users: the config sections (json-section.ts), the
ledger of usage-dollars, provisioning of the voice daemon, and the updater's commands.
Hard: there is no atomic "remove this file if it is still that one", processes die
between two calls, pids are reused, laptops sleep. Correct when two processes do not
work under one lock, no release removes another's lock, and a dead holder's lock does
not stay.

**Settings lock** (auto-update/settings-lock.ts, settings.ts; modelled). State: a
directory beside Pi's settings.json and its mtime; it is Pi's own protocol, so Pi takes
part. Hard: stat and rmdir of a stale lock, and a release, are check-then-act. Correct
when no saved change is lost.

**Updater: the switch** (cycle.ts, switch.ts, undo.ts, sources.ts, settings.ts, plan.ts,
enable.ts, commands.ts, state.ts; modelled in part). State: state.json in the store, a
copy of the originals in Pi's agent directory, the pi-current link, settings.json, the
launcher at ~/.local/bin/pi, a section of pi-extras.json. Operations: check, rollback,
retry, enable, disable, each under the updater lock, and the user's own edits. Hard: four
writes make one switch, two commands read before they have the lock, the store can be
deleted. Correct when `disable` can always put back what the user wrote, when what is
loaded was tested, and when a crash half way is repaired.

**Updater: store** (install.ts, leases.ts, gc.ts, paths.ts, own-set.ts; modelled in
part). State: release folders, one lease file for each launcher and each Pi. Operations:
install, lease and unlease, collect. Hard: the collector decides from leases, state and
/proc that it reads one after the other while sessions start and restart. Correct when
no folder is removed that a process loads from or that the link or settings.json name.

**Updater: culprit search and smoke test** (culprits.ts, smoke.ts; the search is
modelled). State: verdicts of the tests so far. Hard: a test may give no verdict, and
time may run out, at any point. Correct when only what tests showed to fail is marked
bad, and the set that is switched to has passed.

**Updater: adoption and launcher** (session.ts, adopt.ts, launcher.ts, launcher.sh,
replay.ts; modelled in part). State: what a session runs, its reload watchdog and exit
timer, restart requests, the launcher's count of restarts. Hard: a reload that hangs is
replaced by a restart while it may still end; a target that cannot be reached must not
cause restarts for ever. Correct when a session that is asked to quit comes back and
one that cannot reach the set stops trying.

**Subagent team** (subagents/team.ts, slots.ts, routing.ts, questions.ts, hand-up.ts,
after.ts, bash-rest.ts, tools.ts, sessions.ts, resume-prompts.ts, types.ts; modelled in
part). State: a record for each agent with nine states, the line for slots, sessions
held, questions open, answers owed, three places where mail waits. Operations: spawn,
message, stop, end and failure of a prompt, launch, question timeout, rest. Hard: all
handlers interleave at awaits, stops walk a tree one abort at a time, and waits of four
kinds can form a ring. Correct when slots are neither exceeded nor left idle, every live
agent has something that will move it, mail is not lost, and every run ends.

**Subagent edit lock** (edit-lock.ts, bash-guard.ts, work-trees.ts; modelled in part).
State: the agent that holds a work tree; whether a bash call is watched for changes.
Hard: the lock moves up while other helpers edit, ends with its holder's run, and whether
a call is watched is decided at its start. Correct when one family edits at a time and
changes nobody looks at were made under the lock.

**Subagent restore and ownership** (restore.ts, ownership.ts, recovery.ts, host.ts,
host-state.ts, serve.ts, headless.ts and others; the lease is modelled). State: the
index on disk, a lease directory for each session's subagents. Hard: crash of main in
the middle of anything above, several processes that recover one lease. Correct when one
process at a time owns a session's subagents.

**Subagent budgets, wrap-ups, swaps, retries** (budget.ts, wrap-up.ts, swap.ts, stamp.ts,
fallback.ts, overflow.ts, retry.ts; only the fallback is in Team). State: limits per run,
warnings given, code stamps. Hard: a limit that is reached while the run ends, asks or is
replaced.

**Subagent mail to main** (deliver.ts, mailbox.ts, main-watch.ts, contract.ts,
answers.ts, panel.ts, checks.ts; not modelled). State: batches of messages held while
main works or compacts, groups that report together, contracts with reminders. Hard: a
group's last report, a compaction and a user's prompt meet.

**Shell jobs** (extensions/shell-jobs.ts and lib/shell-jobs-*.ts; modelled in part).
State: jobs with process groups and logs, an outbox of completions with attempts and
acknowledgements, hand-over records on disk. Hard: completions must be told once, across
reloads, discarded prompts, restarts, other processes that adopt the job, and reused
pids. Correct when each completion is told at most once and not swallowed, a job has one
owner, and no signal goes to another program's group.

**Rate-limit recovery** (modelled in part: the wait for a local server). State: one wait,
its entry in the session, counts of failures. Hard: what the wait was for may have changed
when it ends; reloads and restarts in between. Correct when the task goes on, never after
the user ended the wait, and a server that answers and fails does not start runs for ever.

**Cache compaction** (modelled in part). State: the last request, a summary written beside
the session, a timer of cache warms. Hard: the branch grows, is edited or left while the
summary is written, and a warm meets a request of the session. Correct when a summary and
what is kept after it are the conversation, and a warm is alone.

**Limits, usage and usage guard** (not modelled). State: readings of limits merged from
several pollers and rejections; a ledger of costs. Mostly arithmetic on readings; its
writes go through FileLock.

**Computer use** (not modelled): an external driver; approvals keep state.

Not modelled, because they keep no state that a property needs or their state is outside
the program: worktrees and sandboxes (git and the kernel), subagent views, voice (audio
streams), link context and search (network and parsing), tool display, fold, band, status
and copy blocks (drawing), chains, timeouts and tool loadout (parsing of commands), idle
collection, sleep watch and release notes (timers), JSON files and config sections (a
read, a change and a rename under FileLock), and skills, prompts, themes, scripts and
tests. Most of the repository's lines are of these kinds.

How they interact: main's session starts the team in its own process; agents hold
sessions of Pi and call back through tools; the team's index, the jobs' records and the
updater's files are on disk, under FileLock where several processes write. A restart
that the updater wants hands shell jobs over to the process that replaces this one
(restart-intent.ts; `intent` in Adoption is what makes it so). Jobs, agents and forms
that will wake the session are what a cache warm waits for (`wake` in CacheCompaction).

## Runs

| run | module, parts | shows |
| --- | --- | --- |
| lock_exclusive | FileLock: 3 processes, no hard links, no staleMs, 4 inodes, 2 attempts, 1 death or failed call | MutualExclusion unless an unlink removes a file it was not meant for: in removeStale's documented window, in that of release, or after a pid that could not be written |
| lock_release | FileLock: 2 processes, staleMs | violated: a late release removes the lock of the process that took it over |
| sessions | FileLock twice (hard links and no staleMs; no hard links and staleMs); Adoption; IdleWait; EditLock | OwnReleaseWithoutStale, EmptyReplaced; Settles, ComesBack, QuitIsAsked; GoesOn, CancelIsFinal, BoundedAnswers; OneFamily, ChangesSeen |
| idle_wait_late | IdleWait | violated: a wait that was not gone on with starts its run after a later reload |
| update_switch | UpdateSwitch: 1 package, 2 releases, any number of commands, 2 edits, one death or one loss of the store | WayBack: disable finds the user's text for each entry that names the store; RunsTheSet: what is loaded is the tested set; RolledBackStaysOut: no cycle takes what the user rolled back |
| update_live | UpdateSwitch: 2 commands, 1 death, the store lost and the launcher overwritten once, fairness | Repaired: link and settings come to the current set |
| update_failed_install | UpdateSwitch: 1 failed install | violated: a mixture that no test saw is loaded |
| update_store | UpdateSwitch with a lost store; UpdateStore; Culprits; SettingsLock; CacheCompaction | WayBack from the copy alone; NeededStays; ResultIsTested; ChangesStay; ToldOnce, WarmAlone |
| jobs | ShellJobs; JobHandover | TellsAtMostOnce (the refinement), TellsOrShows, BoundedSends, ToldAsRecorded; OneOwner, NeverStranded, NoForeignSignal |
| team | Team; ParentLease | SlotsHold, NoIdleSlot, Driven, NoWaitLoop, MailIsKept; OneParent |
| team_live | Team: 3 agents, depth 2, 1 slot, a message, a stop, a failure, a rest, fairness | RunsEnd: each run ends unless some agents wait only for each other |
| team_ask_loop | Team: depth 3, 3 messages | violated: agents wait for each other after a resume |

Each section below gives the bounds of its part. Deadlock is checked in the two lock runs.
The others may rest: a session, a search or a save ends, a team or a conversation is idle,
an update is settled and no command comes.

## FileLock

One action is one system call of tryLock or release; the program counter `pc[p]`
of a process names the next one. The lock file is its inode, mtime and age: age 1
is past settleMs, 2 past staleMs, and mtime is 0 while the file is empty and 1 once
its pid is in it. `seen[p]` is what `inspect` took with statSync; `JudgedStale`
reads the text later, of whatever file is at the path by then, as the code does.
Time (`Age`), death (`Crash`) and a new process with a dead one's pid (`ReusePid`)
are actions of the machine. An inode number may come back, but not while a process
remembers it together with its mtime (`Remembered`). Release compares a token; since
each tryLock has its own, that is the same as comparing the inode it created.

Ghosts: `expired` holds processes whose file reached the age at which it may be
taken over; `windowHit`, `lateRelease` and `lateUndo` record the three unlinks that may
remove another file than the one meant: removeStale's, release's, and the one in
writeExclusive, which without hard links unlinks the path, whatever is there, when the pid
cannot be written (WriteFails, UnlinkUnwritten). A call that fails otherwise (CallFails)
ends tryLock or release and leaves the path as it is; so does a temporary file that cannot
be written, before the lock exists. MaxFaults bounds deaths and failed calls together. A
file that exists can be read: all of them are of one user (an unreadable one would be
judged by its age).

Three processes are enough for a taker-over, the victim and the process that slips in
between; two attempts make the second try see another file than the first. Without hard
links the file is there before its pid; with them, creation and WritePid are one step that
cannot fail half way, so lock_exclusive covers both for MutualExclusion. The two locks in
`sessions` have two processes each. The theorems hold for any number and for both kinds.

EmptyReplaced (AbandonedReplaced of the lock without hard links: a lock file nobody works
under goes away, also an empty one) needs fairness: the operating system runs every live
process, a caller polls until it has the lock (waitForLock, or the next check), work
under the lock ends, and time passes. Nothing forces a death. MCSessions restates this
fairness with `part = "lock"` in it, because a lock's step is enabled in its own initial
state whichever part moves.

**Proofs.** FileLockProofs shows, for every set of processes, number of tries and deaths
and failed calls, with and without hard links and staleMs, under LockAssumption (a
constant that stands for "none" is not a member of its set): `Typing` ([]TypeOK),
`LockIsExclusive` ([]MutualExclusion) and `ReleaseIsOwn` ([]OwnReleaseWithoutStale).

MutualExclusion is not inductive: two holders could hold files of which neither is
at the path. `IInv` adds what rules that out. `OwnFile`: the file at the path, if a
process created it, has that process's pid, is empty exactly until it wrote it, and
its age tells whether it has expired. `Roles`: who has created a file and who is
looking at one follows from the program counter. `SeenBefore`: a file is never
younger, or less written, than when it was looked at. From these comes `JudgedDead`:
a file that was judged stale and is still the same one has no valid creator, so its
removal hurts nobody; and `HoldersOwn`: outside the three windows, each valid creator's
file is at the path, of which there is one. Each conjunct has a lemma with one step
per action. `ReleaseIsOwn` needs a second invariant, `KeptUntilReleased`: without
staleMs only dead creators' files are judged stale, so a file stays until its creator
removes it.

## SettingsLock

The lock is a directory, so it has no owner to read: whoever finds it older than
STALE_MS removes it, and a release removes whatever is there. One action is one call
(mkdir, stat, rmdir, read, rename). Every process makes one change and saves once; the
file is the set of changes in it, and a save writes back what was read plus its own.
Pi's saves follow the same protocol and are further processes.

ChangesStay says more than exclusion, which the protocol does not give: a change that was
saved stays, unless one of two things happened that the ghosts name. `late`: a live
process held the lock past the stale time. `swept`: two processes judged one directory
stale, and the second removed the one made since. Three processes are needed for the
second. `ChangesAreKept` (UpdateStoreProofs) proves it for any number: outside the two
cases the directory is the holder's (SaverOwns), a directory judged stale has a dead maker
(OldIsDead), and so what a process writes extends what is in the file (ReadIsCurrent).

## UpdateSwitch

A set maps Pi and each package to a release. Each of the four files is a variable
(`state`, `undo`, `link`, `settings`), with `launcher` and `config` for the rest of
enable and disable. `job` is the command under the updater lock (FileLock's guarantee:
one at a time), with the name of its next write in `at`; `asked` holds what enable and
disable read before they take the lock. The steps of a switch are Record (state.json),
CopyUndo (the copy), FlipLink and RewriteSettings, for check, rollback and enable alike;
CycleBegin decides whether RepairLink and RepairSettings come first. What lookUp, the
installs, the tests and the culprit search come to is a choice among all results their
code could have: `Candidates` for the sets, `CycleFails` for any subset of changes marked
bad and any mix of old and new that passed.

A cycle goes by the state.json it read when it had the lock (`job.from`), through minutes
of installs and tests; Record reads it again (updateState), and so do the marks.

Dies ends a command before any write: a throw (Pi holds settings.json), the hard
limit, a kill. LoseStore, OverwriteLauncher and UserEdits are what users do. The store may
be lost at any moment, also under a command: its next write there throws (FindsNoStore), or
goes on where a session that started made the folder again for its lease. The updater lock
is in the store and goes with it; a second command beside one that goes on after that is
not modelled.

A settings entry is a text the user wrote, a release's folder or absent; one key
has one text in the runs (Texts = {t1}): two ways to write one source would differ
only in which of the two disable writes back.

Two releases are enough: one to leave and one to go to. More packages multiply the states
and add only products of what one package and Pi do together (two keys in all).
MaxCommands = None means that commands are not bounded; the state space is finite because
releases and texts are. The limits InTime and Recorded cut behaviours that the properties
already leave out through the ghosts `raced`, `forgot` and `bare`: a command that acts on
a state.json that has changed, an enable whose state.json no longer knows the originals,
and a switch recorded without the enable record, because the store was lost under it: then
no copy is written, by this switch or a later one, and settings.json is rewritten all the
same. They are disagreements of their own, below. `torn` marks a death between state.json
and the copy, which repair does not redo (cycle.ts:172). `loose` marks sets after a
rollback or a second enable, which leave entries outside the set on purpose. `left` are
the releases a rollback left.

Fairness of update_live: a running session starts a check every intervalMinutes
(WF of CycleBegin) and a command that has the lock goes on to its end. Nothing makes
the user run a command or edit.

**Proofs.** UpdateSwitchProofs, for any sets of packages, releases and texts and any
bounds, under NoneAssumption (None is no member of them). `WayBackHolds`: WayBack says
nothing of the steps between, so `WayInv` says for each of them what state.json, the copy
and settings.json know. `JobData` and `JobState` type the command and say what it read;
`SoundStates` is about state.json, and about what a command read of it before: the store
may have been lost since, so JobData says that it is still so or empty. `Planned` says
that a set about to be recorded has entries the command saw or that were managed;
`Originals` that what is recorded, copied or read before are texts; `InState` and `InCopy`
that each entry that names the store has its text in state.json, if the updater is enabled
there, and in the copy, unless `torn`, `raced`, `forgot` or `bare`; `Agree`, `Copies` and
`Restores` relate the two while a command is between its writes. `RunsTheSetHolds` adds
that each entry that names the store is in the set, also in the set a command read before
(InSet), or will be once the command has made the writes it has left (WillBeInSet). Its
hypothesis MaxFailures = 0 is needed: update_failed_install is the counterexample with one
failed install. `RolledBackStaysOutHolds` adds that a rollback has marked what it left
(LeftIsBad), or that nothing of it is left with the store, and that no plan contains a
marked change (PlansNoBad).

## UpdateStore

The same switch seen from the folders: a set is one value with a folder for Pi and one for
its packages, and the process under the updater lock installs, switches, rolls back and
collects. The collector's reads are steps: the sets and the names of the lease files
(CollectLists), each lease, the removal of each lease read as dead (by name), each folder.
A launcher looks where the link points (Look), then writes its lease, then starts Pi; Pi
loads the packages of settings.json (Load) and only at session_start writes its own lease,
with all it has loaded so far. What names a package in it is the path of a tool or command
that the package registered (History); one that registered none is named by the
settings.json of that later moment (Snapshot, own-set.ts), which may be another. Reloads,
restarts by the launcher, clean ends and kills interleave with all of that. Age and the
/proc scan only keep folders longer, so RemoveFolder may skip any folder.

NeededStays: nothing that a running process loads or has loaded is removed, and the
folders that the link and settings.json name stay, after a switch that was cut off, too.
The ghosts name the windows the code leaves: `overtaken`, two switches between a
launcher's look and its lease (launcher.sh:76), `robbed`, a lease removed by name
that was rewritten since it was read (leases.ts:107), and `missed`, the folders that a Pi
loaded and that its lease does not name because settings.json changed before session_start
(session.ts:160): these alone may go. The start time of a live process can be read, so that
a session always writes its lease. Instance: three sets (the current
one, the one before, one to go to), two launchers that use one pid one after the other,
one death.

**Proofs.** `NeededStaysHolds` in UpdateStoreProofs is about any sets, launchers and pids
(StoreAssumption). NeededStays is about a removal, which comes long after the reads it
rests on; the invariant follows them. `Covered`: what a Pi uses is in a set of state.json
or in a lease at every time, but for what `missed` names. `WillKeep`: while the leases are
read, it is kept already or named by a lease that has still to be read; `KeepsUses`: so it
is kept once removing begins. `KeepsSets` and `NamedSets` say the same of the sets, the
link and settings.json; `OnePid`, `Phases` and `InUse` type the launchers.

## Culprits

The search is a state machine whose input is the verdict of each test: pass, fail or none
(no time left, a timeout). The same set may pass once and fail later. Its state is what
the code has in local variables. ResultIsTested: a bad mark, which never expires, needs
two failed tests; what is cleared was in a set that passed; the set returned for the
switch passed as it is and holds nothing marked bad. With MaxChanges = 4 every branch
occurs: leave-one-out with two and more failed alone, and a test of those that passed
alone together before the others are added one by one.

**Proofs.** `ResultIsTestedHolds` (UpdateStoreProofs): for any number of changes
(SearchAssumption). `Sorted`: a change passed alone or failed alone, not both, and each
loop has left what it is about; `Tested`: one that failed alone has failed twice;
`Growing`: the set that is built up one change at a time has passed as it is and has none
that failed with it; `Unanswered`: nothing is found before the end, except by the last
loop. The first change of a loop (`First`) exists by the library's theorem on
well-founded sets.

## Adoption

A session in the terminal, its launcher, and cycles that switch meanwhile (three sets, of
which two share one Pi, two switches). `Decision` is decide() of adopt.ts. A load may come
up with other packages than the set's (`Other`), so a session may never reach its target:
then it stops after MAX_ATTEMPTS, which it counts in entries of the session's file and,
because a session without a reply has no file, in what the launcher passes on. The
watchdog of a reload asks for a restart; Pi may then quit, or hang until the exit timer
ends it, and the reload may still end late (ReloadEndsLate).

- Settles: once nobody switches, the session stops moving, however its loads come out.
- ComesBack: after it was asked to quit Pi starts again, unless Pi crashed or the
  launcher had no restart left.
- QuitIsAsked: a request left over from a quit that threw would turn the user's own quit
  into a restart, and hand jobs over.

Fairness: a quit ends, except after a stuck reload, where only the exit timer is sure;
the launcher goes on after Pi. MAX_ATTEMPTS and MAX_RESTARTS are the code's; WindowPasses
resets the restarts at any time, so Settles does not rest on them.

**Proofs.** `QuitIsAskedHolds` in SessionsProofs, for any sets, attempts and restarts
(MoveAssumption); QuitIsAsked is inductive once typed.

## Team

The team runs on one thread. A handler runs from an event to its next `await` and
calls many others on its way, so every operator of the Team modules maps a team (one
record, `team`) to the team a call leaves, and an action is one such handler with
everything it calls: `Becomes` adds the stops that end at once because there is no
session to abort (`Settled`) and the wait: true calls that return (`Returned`).

- TeamGraph: the records, and after.ts: who waits for whom (`Blockers`), which
  questions and `after` names would close a ring (`MayAsk`, `MayFollow`).
- TeamSlots: slots.ts and the parts of team.ts that put agents in the line. `going`
  is the closure that the code keeps for an agent which goes on from the line: work
  on ("on"), start a run with its mail ("run"), or come back from a sleep ("rest").
- TeamRouting: send, deliver, wake, relaunch; questions; where a report goes.
- Team: runs, launches, failures, stops, rests, and what sessions and main may do.

A session is abstract: while it is `prompting` it may call a tool of the team, read
what was steered into it, end its prompt or fail. A message is its sender; mail is
kept as sets in the three places the code keeps it (`inbox`, `unread` in the session,
`resume` for the next launch).

A stop is a frame, `stop[a]`: the subagents still to stop, the one it waits for, and
whether the run it ended is still the agent's run (`own`; the code compares launch
numbers). `Unwind` goes down the tree up to the first abort that takes time; `Aborted`
is the abort that settles and lets the stop above go on.

Ghosts: `overlap`, runs that started while the stop of the last one was still under
way; `reentered`, whether an agent that had ended was resumed and has to wait for
others from the start.

Assumptions about code outside: a session ends, fails or is aborted only through
handlers, and the abort of a stopped run settles before a run that a relaunch started
meanwhile ends. Main and the user are one actor.

Three agents are the fewest for what goes wrong between a parent, its subagent and
a peer, and for a ring that no single check sees; depth 3 makes them a chain, depth 2
siblings. One slot makes every second agent wait; with two, each wait needs one more
agent to fill the other. Bounds (messages, stops, failures, rests; one of each in the
runs team and team_live) are counters in `spent`, not limits of the code.

`Driven` is the main safety property: every live agent is in the line exactly once,
or launches, or has a prompt, or has an open question, or waits for somebody who is
live or about to hand up. A wake-up that is forgotten breaks it long before a run
hangs. `NoIdleSlot` says that every handler which frees a slot pumps the line; while
a stop is under way it may have freed one, and pumps at its end.

Fairness (FairSpec): while something is due (an open launch, a sleep, an abort, a
question with its timeout, a session that works and is not being stopped), the team
does not stand still for ever. Pi and timers give at least that; since messages and
stops are bounded, it is enough. It is weaker than weak fairness of each handler, and
TLC would need ENABLED of the deeply nested handlers for that.

An agent has one call that blocks at a time, a wait or a question; questions.ts:5 lets a
child wait for several agents at once, and it then asks until the last has answered.
Left out: budgets and wrap-ups, checks, panels, groups, swaps to another model or code,
broadcasts, interrupt and restore, the index on disk, aborts of a single tool call,
wait: true spawns by main, reuse of names, refusals of prepareResume, missing
workspaces.

What the code does by recursion or in a loop over agents is a fold with one step for each
agent, so nothing here is RECURSIVE: a stop goes down the tree (`Unwind`) to the first
session whose abort takes time, and each step of it stops one agent more (`StopsNext`);
the stops without a session end one after another (`Settled`).

**Proofs.** `SlotsHoldHolds` and Team's half of `SubagentsTyped`, in SubagentsProofs, for
any numbers of agents and slots, any depth and any bounds (TeamAssumption,
BoundsAssumption). SlotsHold is not inductive: whether a step takes a slot that is free
depends on what the records say of each other. The invariant (`Good`, in TeamLemmas) has

- the types, with the frames of the stops (`Teams`);
- `Sound`: who goes on from the line stands in it (InLine); a subagent that blocks is the
  one that its parent, or the stop of its parent, waits for (Blocks), and the stop lets
  it go before the abort (Detached); an agent whose stop is under way works only in a run
  that overlaps the stop (Overlaps); who waits, asks, opens or sleeps has the state for it
  (Waits, Asks, Opens, Rests); waits and parents are agents that were spawned;
- `Few`: the agents that SlotsHold counts are no more than the slots.

Blocks and Detached are what the count needs most: slots.ts takes an agent with a blocking
subagent for one that does not work, and SlotsHold counts agents by their waits, so the two
must agree whenever a pump looks. InLine and Overlaps keep an agent that is stopped, or
that left the line, from being let go a second time.

A handler calls others in the middle of its own work, so a lemma for each operator says
that from any Good team, not only a reachable one, it leads to a Good team. The stop of
an agent is the exception: between its first part (`Mark`) and the next await its frame is
not yet what Detached and Rests say of it, so `Good(t, x)` leaves x out, and the step that
goes on with a subagent or aborts the session restores it (`ReframesGood`). The folds are
walked by one lemma (`FoldKeeps`): what holds at first and after each step for one agent
more holds at the end. `UnwindGood` counts the agents that are stopping: one more after
each step, so after a step for each agent the walk has come to its end.

`MailIsKeptHolds`, for the same constants, that no handler loses mail. Its invariant
(`Tends`) is Good with `Posted` (only an agent in the line goes on, with a message only
if it holds its session, and a prompt for a launch is there only until the launch), `Debts`
(a parent owes its subagents no answer) and `Todo` (what a stop has still to stop are
subagents of the one it stops). Each operator has a lemma that names which of these
relations between the teams before and after it keeps: `Kept` (mail is lost only into a
prompt), `Steady` (and parents stay, no stop begins and nobody that ended starts again),
`Spares` (who loses mail got a prompt, or got it and was then stopped by its parent's end),
`Strikes` (the same but for the one that a stop strikes, which keeps its mail) and `Begins`
(for the handlers that stop nobody). The hard case is a stop: it hands up, which may set
others to work, and may stop some of these a moment later in the same handler. Debts and
Todo say who they can be, so that each is either left alone or covered by Spares.

`NoIdleSlotHolds`, for the same constants: while no stop is on its way, no slot is free for
an agent in the line that may take it. Its invariant is Tends with `Locals` (what the fields
of one agent say of each other: who runs has a prompt, who is idle blocks nobody, and so on)
and `Tight`, the property itself for the team in the middle of a handler. A pump leaves the
team Tight whatever it was before (`PumpTight`): its walk either reaches the limit or keeps
in the line only agents that something holds (`Full`), since letting an agent go never takes
another from its slot. The other operators are of two kinds. Those that free no slot keep it
(`BusyTight`: whoever works still does, and the line is the same; `Shares`: nor does anyone
unblock). Those that do free one either pump afterwards, or add to the line when no slot is
free, or begin a stop, whose frame stays until its last handler pumps (`StillEnding`).

The proof, and TLC with more agents than the run has, corrected two exemptions of the
properties: an answer may be owed to an agent that is relaunched while its stop still aborts
(`finish` has not yet cleared `owed`), so such a relaunch counts as reentered; and an agent
that an answer sets to work, not only one from the line, may get its prompt and be stopped
in one handler (MayGetPrompt).

`DrivenHolds`, for the same constants: every live agent has something that will move it.
What opens, prompts and asks comes from Tends and Locals. The invariant `Driving` adds

- `Placed`: the line holds exactly the queued agents, each once;
- `Marks`: who was stopped by its parent, and so will report to nobody, is being stopped,
  and who is being stopped does not wait: it is live again, or the stop is of its last run;
- `Minds`: whoever waits has a subagent, or one that owes it an answer, that is live, or whose
  stop is under way and will tell it.

Minds is what the property needs and its hard part: the end of a run takes a helper from
everyone that waited for it, and hand-up must set each of them to work, or leave it another
helper. So every operator has a lemma for a relation between the teams before and after it:
`Carries` (nobody that helps goes, and the line stays in order), `Drives` (nobody begins to
wait, and who still waits keeps its helpers) and, across a stop, `Halts`; `HandUpBacks` and
`FinishDrives` are the step that matters: the parent and the askers of the one that ends no
longer wait, except the parent whose stop call already has the report.

`NoWaitLoopHolds`, for the same constants: no agent waits for one that waits for it, over
subagents, owed answers and `after` together, until an agent that had ended is resumed while
others still wait. The property speaks of paths, so the invariant (`Unlooped`) says it of
sets: among any agents there is one that waits for none of them (`Loopless`), with `Ranked`,
that nobody waits for itself or for one never spawned, and that who has worked is past its
first run and waits for its `after` no more. From a ring, the agents that can be reached from
it are such a set without such an agent (`LooplessDepends`). Few handlers can add a wait:

- most only take waits away (`Eases`);
- mail that resumes an agent makes it live again, and so may make others wait for it, while
  it waits for nobody itself, or counts as reentered (`Revives`, `Rouses`);
- a question adds one wait, after routing.ts has seen that the one asked does not depend on
  the asker: those it depends on are a set closed under waits (`OwesUnties`);
- a spawn adds an agent that its parent waits for, and that waits for its `after`; after.ts
  lets these be only agents that do not depend on the parent (`SpawnUnties`).

`Unties` is what every operator keeps: Ranked, and Loopless if it held before.

## EditLock

One work tree. An agent is live, stopping (its record has ended, its session still works)
or ended; Starts, Ends, Stops and Aborted are when Team lets these happen, without its
slots. Edit and write calls claim the lock; a bash call of an agent that has it is not
looked at (`skipped`), others are compared before and after (`alone`), or only reported
when two overlap (`shared`). The instance has the chain 1 > 2 > 3 and agent 4 beside it,
five starts and two bash calls, one bash call of an agent at a time.

OneFamily: live agents that edited in this run are the holder and agents under it.
ChangesSeen: a change by a bash call that nobody looked at was made under the lock. Both
leave out `adrift`: agents that worked under the lock of an ancestor which was stopped,
or ended, before them. The lock ends with its holder, and another family may take it
while they go on for a moment. Left out: main's own bash, a fingerprint that fails.

**Proofs.** `OneFamilyHolds` and `ChangesSeenHolds` in SessionsProofs, for any tree of
agents (FamilyAssumption). Who is under whom is defined by the lines of descent, the
closed sets of agents, so no recursion is needed (`Under`). `EditInv` adds that agents
which edited are live (EditedLive), and that these, and those whose bash call goes
unwatched, are the holder or under it unless they are adrift (UnderLock).

## ParentLease

One action is one call on `.owner`: mkdir, the write of owner.json, stat and read, mkdir
and removal of `reaping`, the removal. Processes stop between any two and die at any
point; `young` and `fresh` are the two grace times. One host, and the removal of a
directory with its content is one step.

The protocol does not give one owner outright: OneParent holds except after `blind` (a
reaper went by an owner.json that was not written yet, because a claim is slower than
five seconds, or removes a directory that is not the one it marked) or `twice` (the mark
of a live reaper, paused for more than five minutes, was taken for abandoned).
`OneParentHolds`, in SubagentsProofs, proves it for any number of processes and deaths.
The invariant (`LeaseInv`): a claim before its owner.json is alone (Claims), an owner has
the directory (Holds), and a process about to remove it has its mark in it while nobody
claims (Removes).

## Shell jobs

**JobCompletions** is what the tool promises: each job has a fate, a completion is told
at most once, and what was told, killed or over is not told later. A job that was given
up (shown as failed or dropped) may still be told, because a message may be on its way.

**ShellJobs** is the runtime: starts, ends, kills, the outbox and its deliveries, what Pi
does with the messages (queue, history, aborts that discard), reload and restart. Handlers
are split at their awaits: a log is read while its job may be killed, told, parked or
closed (`reads` has the attachment that asked), a kill waits while the job ends, a clean-up
writes back a record it read before. `Promise == INSTANCE JobCompletions WITH fate <-
..., told <- history` is the refinement; TellsAtMostOnce is its Spec. Fate(j) reads a
job's record, the history, and two ghosts for jobs that trimRetained removed.

- TellsOrShows (liveness): no completion stays owed for ever. Fairness: logs are read,
  turns and clean-ups end, a parked or ended Pi comes back or closes, and the user goes on
  with the session (a completion is sent again when a turn settles).
- BoundedSends: at most MaxAttempts messages of one job over all processes, except after
  a clean-up wrote back a record it had read before the job's attempts changed (`rewrote`;
  shell-jobs-manage.ts).
- ToldAsRecorded: what a kill told in its result leaves no message, and a job counts as
  delivered only if the history has its completion.

A process that starts after a restart may refuse the record (Refuse): a bad or stale one, one
of another session id, or whose log folder is gone. Its jobs then have the fate "refused":
nothing tells or shows what they owed, but nothing is told twice.

**Proofs.** ShellJobsProofs, for any number of jobs and any bounds (RuntimeAssumption),
proves `BoundedSendsHolds`, `ToldAsRecordedHolds` and the refinement `TellsAtMostOnceHolds`.
`JobsInv` says of each job what its three records (memory, hand-over file, clean-up) may
hold: nothing before its process runs (Unstarted), no attempt while it runs or is claimed
by a kill (Kept), an attempt for each message sent or about to be (Counted). For the
refinement, `PromiseInv` adds that a completion is in one place of outbox, queue and
history (Once), what the ghosts say of a removed job (Story, Gone), and that what ended
unclaimed was attempted or told (Owing). Each action then changes the fate of each job by
a move of JobCompletions or not at all (`Tells`); most do by one lemma each, the trim and
the reads of the outbox need lemmas of their own. trimRetained is stated as the set of jobs
it removes (`Trimmed`), which an ordering of the kept ones decides, so no fold is needed.

**JobHandover** is the same jobs across processes: the record at the session's path,
claimed by a rename; a sweeper of another session that reads, claims, and stops the jobs
or puts a record back; process groups whose leader ends first; pids that are reused. A job
whose start time could not be read (`untimed`) is watched after a restart but never
signalled. A claimed record may be refused (OpenRefused, SweepRefuses): it is gone, and
nothing is stopped. Two processes, one sweeper, two jobs, one crash: two processes and a
sweeper are what a claim can race with.

NeverStranded says that a running job has an owner or a record from which one will take or
stop it. Its exceptions are ghosts: `lost`, the jobs of a process that crashed or of a record
that another replaced; `letGo`, the jobs of a refused record, and untimed ones at a quit or
in a stale record, which the code leaves running.

NoForeignSignal is about signals that follow a look at the start time at once, or go to a
child whose exit was not seen: `foreign` records those that reach another program's group.
The code also signals with no such look: finalize after it has counted the group (StopRest),
stopJob of a job that is stopping (Kill), recleanFinishedJob (Reclean), and the exit net, for
ended jobs whose group it still claims (Quit, HandOver). These are actions of the model, they
end whatever is left of the job's group, and nothing is promised of them. stopGroup's
SIGTERM, its wait and its SIGKILL are one step, so a group that changes hands inside it is
not seen. A start time that was read once can be read again while the process lives, and
the rename of a claim does not fail.

**Proofs.** JobHandoverProofs shows OneOwner, NeverStranded and NoForeignSignal for any
number of processes, sweepers and jobs, under HandoverAssumption. OneOwner is not
inductive: `OnePlace` says of all places (runtimes, the record, the claims of sweepers) that
no two have one job; `NoneYet`, `OnlyUp` and `ChildPid` tie the groups and pids to the
places, which is why a look at a start time is enough.

Jobs.cfg has two jobs in a session that may hold two, keeps one finished and no
undelivered one (so that trimming happens), two attempts instead of three, and at most two
events out of abort, refused send, reload, restart, kill and clean-up.

## IdleWait

One interactive session and its wait for a local server. Runs fail, the wait begins with
an entry in the session, the server answers or time runs out, a message starts the run
again. The wait may fail instead (WaitFails), or its message may not be sent: the entry is
closed first, so no run starts then. The user may end the wait, another message or report
may start a run first, and the module may be reloaded, the process restarted, or the
session forked at any moment (MaxStarts = 3), also while a run or a message is under way,
with any age of the entry. A shutdown always runs session_shutdown, and Pi takes every
entry; a kill is not modelled.

GoesOn: the task of a failed run goes on unless the user ended the wait, came back late,
forked or does not come back, or the wait or its message failed (`broke`;
idle-wait.ts:164, "No run starts after an unknown failure"). CancelIsFinal: a wait that
the user ended does not go on later, across reloads. BoundedAnswers: a server that passes
its check and fails each request starts at most MAX_FAILURES_AFTER_ANSWER runs in a row,
through reports that carry the wait over. Fairness: the wait's timer fires, a message
starts its run, runs end. LapsedIsFinal is violated (below). Left out: the wait for a
quota (controller.ts), hibernation, and the guard of the transport, which have budgets of
their own.

**Proofs.** `CancelIsFinalHolds` and `BoundedAnswersHolds` in SessionsProofs, for any
bounds (WaitAssumption). `WaitInv` adds that a wait, a message and a run exclude each
other (OneAtATime), that what the user ended has no open entry (EndedIsClosed), and that
the outage has counted each run that an answer started and has a failure to spare for
the next (Counted, MayFail).

## CacheCompaction

A branch of entries that stand for messages; a request that was captured; a summary
written of it while the branch grows, is edited by another extension or left by a
navigation; Pi's compaction that waits for the summary or makes one; a timer of warms that
send the captured request again. Sizes, prices and lifetimes are choices.

ToldOnce: after every compaction each message of the conversation is in one entry, in
a summary as it was last or after it, and not in both; it fails as soon as the session is
not compared again after the wait. WarmAlone: no other request of the session, compaction
or summary runs beside a warm, also of those that begin after it. Four messages, one edit
or navigation or change of model, one recorded warm, two models: the shortest summary and
what is kept after it take three messages, and one more arrives meanwhile. Left out: the
switch of sessions and forms, other than as `wake`.

**Proofs.** `ToldOnceHolds` and `WarmAloneHolds` in UpdateStoreProofs, for any models and
any number of messages (CacheAssumption). `CacheInv`: a message has one version in the
conversation (OneVersion); the branch goes on from a request that is built, streams or is
summarized, with no message in between or with one that can be kept first (GoesOn); and
Pi compacts only while nothing else is in flight (Quiet).

## What is only model-checked

- Liveness (EmptyReplaced, Settles, ComesBack, GoesOn, Repaired, RunsEnd, TellsOrShows):
  the proof system has no fairness or ENABLED.

Everything else the passing runs check is proved for every value of the constants, under
the named assumptions; the type invariants of the compositions, too (`SessionTyped`,
`PartsTyped`, `BothTypesHold`, `SubagentsTyped`: a step of a composition is a step of one
part and a stutter of the others, so the parts' invariants hold side by side). TLC's
results hold for the instances named above. Data is abstract everywhere: texts of
messages, contents of settings entries, versions and reports are values that are only
compared.

## Where code and comments disagree

Four have a run whose counterexample shows them, and a row under "findings".

1. lock_release. file-lock.ts says that a lock taken over as stale is left alone and
   that one window remains. release has another: a holder suspended between its read
   and its unlink removes the lock of the process that took it over. A third, without a
   run of its own, is in writeExclusive (file-lock.ts:55; `lateUndo`).
2. update_failed_install. cycle.ts:225 says that a failed install keeps the source at
   its current release. It leaves the set instead, and settings.json keeps its entry.
3. team_ask_loop. README: agents never wait on each other in a loop. The check is made
   when a question is put; a later resume adds a wait it could not see.
4. idle_wait_late. idle-wait.ts:17 says that a user who comes back later must not find a
   run that started on its own. A wait that was too old to go on with, or was copied by a
   fork, keeps its entry open, and the next reload restores it.

Without a run, met while modelling; the properties name them as exceptions:

- enable, run again after the store was lost, replaces the copy that was the way back
  (undo.ts; `forgot`). disable restores what it read before it had the lock
  (enable.ts:195; `raced`). A repair does not redo the copy (cycle.ts:172; `torn`). A cycle
  whose store is lost under it rewrites settings.json without a copy of the originals, which
  cycle.ts:348 says must be there first (`bare`).
- after.ts: a resume never waits for `after` names; it does if the agent was stopped
  before its first run (`reentered`).
- The README says that one Pi process at a time can own a session's subagents; ParentLease
  has the two exceptions `blind` and `twice`.
- settings-lock.ts:72 speaks of a lock that was removed as stale; the rmdir also removes
  the directory of a process that took the lock over (`late`).
- launcher.sh:76, leases.ts:107 and session.ts:160 leave leases.ts's "GC never removes a
  folder a process may still load from" three windows (`overtaken`, `robbed`, `missed`).
- shell-jobs-adopt.ts:233 says that jobs nobody claimed stop, since they "would run on with
  no owner for good"; those of a refused record, and those without a start time, run on
  (`letGo`). Signals to a job that has ended do not look at who has its pid.
- shell-jobs-manage.ts writes back a record it read before an await (`rewrote`).
- hand-up.ts:108: a report is dropped when prepareResume refuses; Team leaves that out.
- warmer.ts:167: the cost of an aborted warm is counted after the next one was planned.

## Plan

1. MainMail and Restore on top of Team: batches while main compacts, groups, the index
   on disk, a crash between any two writes; budgets and swaps as an extension of Team.
2. Larger parts of what is modelled in part: the quota's wait in IdleWait, main's bash in
   EditLock, broadcasts and interrupts in Team.
3. Proofs of what these add. A new handler of Team needs one lemma for each of the relations
   of its proofs: Steady or Spares, Shares or Busy, Drives, and Unties.
