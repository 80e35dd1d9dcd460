------------------------------ MODULE MCSessions ------------------------------
(***************************************************************************)
(* What is held and let go while processes and agents stop and start again:   *)
(* a lock file, a session's move to the current set, the wait for a local     *)
(* server, and the edit lock of a work tree.  There are two lock files: one   *)
(* with hard links and callers that give no staleMs (the constants of the     *)
(* run), and one with neither.  They share no variable; `part`, chosen at the *)
(* start, says which of the five moves.                                    *)
(***************************************************************************)
EXTENDS MCFileLock

CONSTANTS
    Sets, First, PiOf, Other, MaxSwitches,         \* Adoption
    MaxStarts,                                     \* IdleWait
    Agents, Main, Parent, NoOne, MaxRuns, MaxBash  \* EditLock

\* The sessions: a set has a number or a name that is not Other.
ASSUME MoveAssumption == First \in Sets /\ Other \notin Sets /\ MaxSwitches \in Nat

ASSUME WaitAssumption == MaxStarts \in Nat

\* Each agent was started by main or by another; the lock is main's never, and nobody's if no
\* agent has it.
ASSUME FamilyAssumption ==
    /\ Main \notin Agents /\ NoOne \notin Agents \cup {Main}
    /\ Parent \in [Agents -> Agents \cup {Main}]
    /\ MaxRuns \in Nat /\ MaxBash \in Nat

VARIABLES
    part,
    path, step, attempt, made, looked, deaths, aged, hit, slow, undone,
    current, link, settings, switches, able, pi, own, saved, entries, given, request,
    intent, watch, restarts, row, stuck, gaveUp,
    up, run, active, resume, entry, age, down, starts, ended, lapsed, broke, answered, again,
    life, holder, bash, wrote, runs, calls, edited, adrift, unseen

\* The sets 1 and 2 have one Pi, set 3 another.
MCPiOf == [s \in Sets |-> IF s = 3 THEN 2 ELSE 1]

\* Main started the agents 1 and 4, agent 1 started 2, which started 3.
MCParent == <<0, 1, 2, 0>>

A == INSTANCE Adoption
W == INSTANCE IdleWait
E == INSTANCE EditLock WITH MaxStarts <- MaxRuns, state <- life, starts <- runs

\* The lock where a holder may die before its pid is in the file, and files grow stale.
L == INSTANCE FileLock WITH
        HardLinks <- FALSE, HasStale <- TRUE, lock <- path, pc <- step, tries <- attempt,
        mine <- made, seen <- looked, faults <- deaths, expired <- aged, windowHit <- hit,
        lateRelease <- slow, lateUndo <- undone

lockVars == <<path, step, attempt, made, looked, deaths, aged, hit, slow, undone>>
moveVars == <<current, link, settings, switches, able, pi, own, saved, entries, given,
              request, intent, watch, restarts, row, stuck, gaveUp>>
waitVars == <<up, run, active, resume, entry, age, down, starts, ended, lapsed, broke, answered, again>>
editVars == <<life, holder, bash, wrote, runs, calls, edited, adrift, unseen>>

MCInit ==
    /\ part \in {"links", "lock", "move", "wait", "edits"}
    /\ Init /\ L!Init /\ A!Init /\ W!Init /\ E!Init
    /\ part # "move" => able

MCNext ==
    /\ UNCHANGED part
    /\ \/ part = "links" /\ Next /\ UNCHANGED <<lockVars, moveVars, waitVars, editVars>>
       \/ part = "lock" /\ L!Next /\ UNCHANGED <<vars, moveVars, waitVars, editVars>>
       \/ part = "move" /\ A!Next /\ UNCHANGED <<vars, lockVars, waitVars, editVars>>
       \/ part = "wait" /\ W!Next /\ UNCHANGED <<vars, lockVars, moveVars, editVars>>
       \/ part = "edits" /\ E!Next /\ UNCHANGED <<vars, lockVars, moveVars, waitVars>>

\* The fairness of each part, while that part moves: at first the lock's steps are enabled
\* whatever the part, those of the others are not.
MCFairness ==
    /\ \A p \in Procs : WF_lockVars(part = "lock" /\ (L!Begin(p) \/ L!TryLock(p) \/ L!Release(p)))
    /\ WF_lockVars(part = "lock" /\ L!Age)
    /\ A!Fairness /\ W!Fairness

MCSpec ==
    /\ MCInit /\ [][MCNext]_<<part, vars, lockVars, moveVars, waitVars, editVars>>
    /\ MCFairness

\* The state of the session has its types.
SessionTypeOK == L!TypeOK /\ A!TypeOK /\ W!TypeOK /\ E!TypeOK

\* The properties of FileLock, Adoption, IdleWait and EditLock, stated there.

\* A lock file that nobody works under is removed or taken over, also an empty one.
EmptyReplaced == L!AbandonedReplaced
\* A restart request exists only while Pi quits for it (session.ts).
QuitIsAsked == A!QuitIsAsked
\* A session stops trying to move (adopt.ts, MAX_ATTEMPTS).
Settles == A!Settles
\* A session that was asked to quit for an update comes back (session.ts, launcher.sh).
ComesBack == A!ComesBack
\* A wait that the user ended does not go on (idle-wait.ts).
CancelIsFinal == W!CancelIsFinal
\* Answers that lead nowhere start a bounded number of runs (transient.ts).
BoundedAnswers == W!BoundedAnswers
\* The task of a failed run goes on (idle-wait.ts).
GoesOn == W!GoesOn
\* One family at a time edits in a work tree (edit-lock.ts).
OneFamily == E!OneFamily
\* Changes nobody looks at are made under the lock (bash-guard.ts).
ChangesSeen == E!ChangesSeen
=============================================================================
