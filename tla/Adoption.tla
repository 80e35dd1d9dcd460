------------------------------- MODULE Adoption -------------------------------
(***************************************************************************)
(* How a session in the terminal moves to the current set of releases        *)
(* (src/lib/auto-update/session.ts, adopt.ts and launcher.sh): a reload in    *)
(* place, or a quit after which the launcher starts Pi again.  Loads may      *)
(* fall short of the set, reloads and quits may hang, calls may throw, and    *)
(* cycles switch meanwhile.                                                 *)
(***************************************************************************)
EXTENDS Naturals

CONSTANTS
    Sets,
    First,
    PiOf,        \* the Pi of each set
    Other,       \* stands for a Pi, or packages, of no set
    MaxSwitches  \* bound: switches of the current set

MAX_ATTEMPTS == 2
MAX_RESTARTS == 3

VARIABLES
    current,   \* state.current
    link,      \* pi-current
    settings,  \* the packages that settings.json names
    switches,
    able,      \* canRestart: started by the launcher, with a session it can name
    pi,        \* the Pi process: up, reloading, quitting, clean, crashed, over
    own,       \* what it runs: its Pi and its packages
    saved,     \* the session has a file with its entries
    entries,   \* the "start" entries in a row at the end of the branch
    given,     \* what the launcher told it: restarts in a row, and their target
    request,   \* the request file of its token: the target, or Other
    intent,    \* markRestart
    watch,     \* watchedReload: off, armed, fired, exit (the exit timer runs)
    restarts,  \* the launcher: restarts in this window
    row,       \* the launcher: same_target and last_target
    stuck,     \* ghost: it was asked to quit by the watchdog
    gaveUp     \* ghost: the launcher had no restarts left

store == <<current, link, settings, switches>>
session == <<pi, own, saved, entries, given>>
launcher == <<restarts, row, gaveUp>>
ask == <<request, intent>>
vars == <<store, able, session, ask, watch, launcher, stuck>>

InARow(n, s) == [n |-> n, target |-> s]
Capped(n) == IF n > MAX_ATTEMPTS THEN MAX_ATTEMPTS ELSE n

Runs(p, k) == [pi |-> p, pkgs |-> k]

Init ==
    /\ current = First /\ link = First /\ settings = First
    /\ switches = 0
    /\ able \in BOOLEAN
    /\ pi = "up"
    /\ own = Runs(PiOf[First], First)
    /\ saved = FALSE
    /\ entries = InARow(0, Other)
    /\ given = InARow(0, Other)
    /\ request = Other
    /\ intent = FALSE
    /\ watch = "off"
    /\ restarts = 0
    /\ row = InARow(0, Other)
    /\ stuck = FALSE
    /\ gaveUp = FALSE

------------------------------------------------------------------------------
(* Decisions *)

Longer(seq, s) == IF seq.target = s THEN InARow(Capped(seq.n + 1), s) ELSE InARow(1, s)
Count(seq, s) == IF seq.target = s THEN seq.n ELSE 0

\* Mutant of AttemptsAt: a session without a file forgets what the launcher did.
BranchAttempts(s) == Count(entries, s)

\* attempts: the larger of the launcher's count and the entries of the branch.
AttemptsAt(s) ==
    IF Count(given, s) > Count(entries, s) THEN Count(given, s) ELSE Count(entries, s)

\* decide, with adopt "auto".
Decision ==
    LET right == own.pi = PiOf[current]
        ready == link = current /\ settings = current
    IN  CASE right /\ own.pkgs = current       -> "none"
          [] ~ready                            -> "wait"
          [] AttemptsAt(current) >= MAX_ATTEMPTS -> "notice"
          [] right                             -> "reload"
          [] able                              -> "restart"
          [] OTHER                             -> "notice"

\* reportAdoption: a "done" entry ends the row.
Reported(seq, runs) ==
    IF runs = Runs(PiOf[current], current) /\ seq.target = current THEN InARow(0, Other) ELSE seq

------------------------------------------------------------------------------
(* The session *)

\* undoRestart
Undone == request' = Other /\ intent' = FALSE
Asked == request' = current /\ intent' = TRUE

\* The apply command decides again, and moves when the session is idle: the reload, with its
\* watchdog.
ApplyReload ==
    /\ pi = "up" /\ Decision = "reload"
    /\ entries' = Longer(entries, current)
    /\ pi' = "reloading"
    /\ watch' = "armed"
    /\ UNCHANGED <<store, able, own, saved, given, ask, launcher, stuck>>

\* Mutant of ThrownShutdown: a shutdown that throws leaves the request behind.
LeaveRequest == Asked
ThrownShutdown == Undone

\* The restart: the request and the intent, then the quit.  The write or the quit may throw.
ApplyRestart ==
    /\ pi = "up" /\ Decision = "restart"
    /\ entries' = Longer(entries, current)
    /\ \/ Asked /\ pi' = "quitting"
       \/ ThrownShutdown /\ UNCHANGED pi
       \/ UNCHANGED <<ask, pi>>
    /\ UNCHANGED <<store, able, own, saved, given, watch, launcher, stuck>>

\* Mutant of AfterReload: the exit timer always ends with the reload.
AfterReloadStops == "off"

\* The finally of watchedReload: the exit timer stays once Pi was asked to quit.
AfterReload == IF watch = "exit" THEN "exit" ELSE "off"

\* The reload ends, with the packages of settings.json or others; or it throws.
ReloadEnds ==
    /\ pi = "reloading"
    /\ pi' = "up"
    /\ watch' = AfterReload
    /\ \/ \E k \in {settings, Other} :
             /\ own' = [own EXCEPT !.pkgs = k]
             /\ entries' = Reported(entries, own')
       \/ UNCHANGED <<own, entries>>
    /\ UNCHANGED <<store, able, saved, given, ask, launcher, stuck>>

\* It ends when Pi was already asked to quit: Pi quits whatever the reload does.
ReloadEndsLate ==
    /\ pi = "quitting" /\ stuck
    /\ watch' = AfterReload
    /\ UNCHANGED <<store, able, session, ask, launcher, stuck>>

\* reloadStuck: the watchdog asks for a restart to the set that is current by now (its
\* target is that of the reload), or cannot.
WatchFires ==
    /\ pi = "reloading" /\ watch = "armed"
    /\ \/ /\ able
          /\ request' = entries.target /\ intent' = TRUE
          /\ pi' = "quitting" /\ watch' = "exit" /\ stuck' = TRUE
       \/ /\ ThrownShutdown
          /\ watch' = "fired"
          /\ UNCHANGED <<pi, stuck>>
    /\ UNCHANGED <<store, able, own, saved, entries, given, launcher>>

\* The first reply writes the session's file, with the entries so far.
Reply ==
    /\ pi = "up" /\ ~saved
    /\ saved' = TRUE
    /\ UNCHANGED <<store, able, pi, own, entries, given, ask, watch, launcher, stuck>>

UserQuits ==
    /\ pi = "up"
    /\ pi' = "clean"
    /\ UNCHANGED <<store, able, own, saved, entries, given, ask, watch, launcher, stuck>>

Crashes ==
    /\ pi \in {"up", "reloading", "quitting"}
    /\ pi' = "crashed"
    /\ UNCHANGED <<store, able, own, saved, entries, given, ask, watch, launcher, stuck>>

\* The quit that was asked for comes to its end; after a stuck reload it may hang.
Quits ==
    /\ pi = "quitting"
    /\ pi' = "clean"
    /\ UNCHANGED <<store, able, own, saved, entries, given, ask, watch, launcher, stuck>>

ExitTimer ==
    /\ pi = "quitting" /\ watch = "exit"
    /\ pi' = "clean"
    /\ watch' = "off"
    /\ UNCHANGED <<store, able, own, saved, entries, given, ask, launcher, stuck>>

------------------------------------------------------------------------------
(* The launcher and the cycle *)

Wanted == pi = "clean" /\ able /\ request # Other

\* Mutant of MayRestart: one more.
MayRestartOnceMore == restarts <= MAX_RESTARTS

MayRestart == restarts < MAX_RESTARTS

\* finish
Finish ==
    /\ pi \in {"clean", "crashed"}
    /\ ~Wanted \/ ~MayRestart
    /\ gaveUp' = Wanted
    /\ pi' = "over"
    /\ Undone
    /\ UNCHANGED <<store, able, own, saved, entries, given, watch, restarts, row, stuck>>

\* Pi starts again: the Pi behind the link or the fallback, with the packages of
\* settings.json or others, and the entries that the session's file has.
StartAgain ==
    /\ Wanted /\ MayRestart
    /\ restarts' = restarts + 1
    /\ row' = Longer(row, request)
    /\ given' = row'
    /\ Undone
    /\ pi' = "up" /\ watch' = "off" /\ stuck' = FALSE
    /\ \E p \in {PiOf[link], Other}, k \in {settings, Other} : own' = Runs(p, k)
    /\ entries' = IF saved THEN Reported(entries, own') ELSE InARow(0, Other)
    /\ UNCHANGED <<store, able, saved, gaveUp>>

WindowPasses ==
    /\ restarts > 0
    /\ restarts' = 0
    /\ UNCHANGED <<store, able, session, ask, watch, row, gaveUp, stuck>>

Switch(s) ==
    /\ s # current /\ switches < MaxSwitches
    /\ link = current /\ settings = current
    /\ switches' = switches + 1
    /\ current' = s
    /\ UNCHANGED <<link, settings, able, session, ask, watch, launcher, stuck>>

FlipLink ==
    /\ link # current
    /\ link' = current
    /\ UNCHANGED <<current, settings, switches, able, session, ask, watch, launcher, stuck>>

RewriteSettings ==
    /\ link = current /\ settings # current
    /\ settings' = current
    /\ UNCHANGED <<current, link, switches, able, session, ask, watch, launcher, stuck>>

Next ==
    \/ ApplyReload \/ ApplyRestart \/ ReloadEnds \/ ReloadEndsLate \/ WatchFires
    \/ Reply \/ UserQuits \/ Crashes \/ Quits \/ ExitTimer
    \/ Finish \/ StartAgain \/ WindowPasses
    \/ \E s \in Sets : Switch(s)
    \/ FlipLink \/ RewriteSettings

Spec == Init /\ [][Next]_vars

\* A quit ends, but not always after a stuck reload; timers fire and the launcher goes on.
Fairness ==
    /\ WF_vars(~stuck /\ Quits)
    /\ WF_vars(ExitTimer)
    /\ WF_vars(Finish \/ StartAgain)

FairSpec == Spec /\ Fairness

------------------------------------------------------------------------------
(* Properties *)

TypeOK ==
    /\ {current, link, settings} \subseteq Sets
    /\ switches \in 0 .. MaxSwitches
    /\ {able, saved, intent, stuck, gaveUp} \subseteq BOOLEAN
    /\ pi \in {"up", "reloading", "quitting", "clean", "crashed", "over"}
    /\ own \in [pi : {PiOf[s] : s \in Sets} \cup {Other}, pkgs : Sets \cup {Other}]
    /\ {entries, given, row} \subseteq [n : 0 .. MAX_ATTEMPTS, target : Sets \cup {Other}]
    /\ request \in Sets \cup {Other}
    /\ watch \in {"off", "armed", "fired", "exit"}
    /\ restarts \in 0 .. MAX_RESTARTS

\* adopt.ts, MAX_ATTEMPTS: "then stop and say so".  Once the cycles stop switching, the session
\* stops moving, whatever its loads give, saved or not, also when its restarts are far apart.
Moves == pi = "up" /\ pi' \in {"reloading", "quitting"}
Settles == <>[][~Moves]_vars

\* There is a restart request, or the intent that makes shell-jobs hand over its jobs, only
\* while Pi quits for it: after a quit that threw, the user's own quit is a plain one.
QuitIsAsked == request # Other \/ intent => pi \in {"quitting", "clean", "crashed"}

\* A session that was asked to quit for an update comes back, also when its reload hung and
\* its quit hangs, unless Pi crashed or the launcher had no restarts left.
ComesBack == pi = "quitting" ~> pi \in {"up", "crashed"} \/ gaveUp
=============================================================================
