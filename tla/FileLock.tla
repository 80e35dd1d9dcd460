------------------------------ MODULE FileLock ------------------------------
(***************************************************************************)
(* The lock file that Pi processes share (src/lib/file-lock.ts).  Whoever   *)
(* creates the file at the lock's path holds the lock.  The file carries    *)
(* the holder's pid; a lock whose pid is dead, or (when staleMs is given)   *)
(* a lock that is too old, is taken over.                                   *)
(*                                                                         *)
(* One action is one system call, since another process can run between    *)
(* any two of them.  The file at the path is its inode, its mtime (0 as     *)
(* created, 1 once the pid is written) and its age.  Age 1 is past          *)
(* settleMs, age 2 past staleMs; the text is the pid of its creator once    *)
(* mtime is 1.  A process may stop between any two calls for as long as the *)
(* file takes to age: a suspended laptop does exactly that.                 *)
(***************************************************************************)
EXTENDS Naturals, FiniteSets

CONSTANTS
    Procs,       \* pids of the processes that use this lock
    HardLinks,   \* whether the file system has hard links
    HasStale,    \* whether the callers give staleMs
    Attempts,    \* ATTEMPTS, tries of one tryLock call
    Inos,        \* inode numbers; a new file gets one that nobody remembers
    MaxFaults,   \* bound: deaths and failed calls in a behaviour
    NoIno,       \* no inode
    NoFile       \* no file at the path

ASSUME LockAssumption ==
    /\ HardLinks \in BOOLEAN
    /\ HasStale \in BOOLEAN
    /\ Attempts \in Nat \ {0}
    /\ MaxFaults \in Nat
    /\ NoIno \notin Inos
    /\ NoFile \notin [ino : Inos, mtime : {0, 1}, age : 0 .. 2, pid : Procs]

VARIABLES
    lock,       \* the file at the lock's path
    pc,         \* the next system call of each process
    tries,      \* the attempt of each process's tryLock
    mine,       \* the inode of the file each process created for the lock it has
    seen,       \* the Stats that inspect took
    faults,     \* deaths and failed calls so far
    expired,    \* ghost: processes whose file reached the age at which it is taken over
    windowHit,  \* ghost: removeStale removed a file it had not judged
    lateRelease, \* ghost: release removed a file that is not its own
    lateUndo    \* ghost: so did a create whose write failed

vars == <<lock, pc, tries, mine, seen, faults, expired, windowHit, lateRelease, lateUndo>>
ghosts == <<expired, windowHit, lateRelease, lateUndo>>

Files == [ino : Inos, mtime : {0, 1}, age : 0 .. 2, pid : Procs]
Stats == [ino : Inos \cup {NoIno}, mtime : {0, 1}, age : 0 .. 2]
NoStats == [ino |-> NoIno, mtime |-> 0, age |-> 0]

PCs == {"idle", "link", "write", "undo", "stat", "read", "recheck", "unlink",
        "held", "relRead", "relUnlink", "dead"}

Init ==
    /\ lock = NoFile
    /\ pc = [p \in Procs |-> "idle"]
    /\ tries = [p \in Procs |-> 0]
    /\ mine = [p \in Procs |-> NoIno]
    /\ seen = [p \in Procs |-> NoStats]
    /\ faults = 0
    /\ expired = {}
    /\ windowHit = FALSE
    /\ lateRelease = FALSE
    /\ lateUndo = FALSE

Alive(p) == pc[p] # "dead"
Goto(p, label) == pc' = [pc EXCEPT ![p] = label]

\* Mutant: the recheck compares the mtime alone.
SameMtime(p) == lock # NoFile /\ lock.mtime = seen[p].mtime

\* Same inode and same mtime: the file is the one that was looked at.
IsSeen(p) == lock # NoFile /\ lock.ino = seen[p].ino /\ lock.mtime = seen[p].mtime

\* The file at the path is the one p created.
IsOwn(p) == lock # NoFile /\ lock.ino = mine[p]

\* p works under no lock any more, and creates none.
Released(p) ==
    /\ Goto(p, "idle")
    /\ mine' = [mine EXCEPT ![p] = NoIno]
    /\ tries' = [tries EXCEPT ![p] = 0]
    /\ expired' = expired \ {p}

------------------------------------------------------------------------------
(* tryLock *)

Begin(p) ==
    /\ pc[p] = "idle"
    /\ Goto(p, "link")
    /\ tries' = [tries EXCEPT ![p] = 1]
    /\ UNCHANGED <<lock, mine, seen, faults, ghosts>>

\* Inode and mtime together never come back: no process takes a new file for
\* one it has created or looked at.
Remembered == {mine[q] : q \in Procs} \cup {seen[q].ino : q \in Procs}

\* The file of p appears at the path, whole or (mtime 0) still empty.
Create(p, mtime) ==
    /\ lock = NoFile
    /\ \E ino \in Inos \ Remembered :
          /\ lock' = [ino |-> ino, mtime |-> mtime, age |-> 0, pid |-> p]
          /\ mine' = [mine EXCEPT ![p] = ino]

\* publish: link the temporary file, or without hard links open the path with O_EXCL.
PublishCreates(p) ==
    /\ pc[p] = "link"
    /\ Create(p, IF HardLinks THEN 1 ELSE 0)
    /\ Goto(p, IF HardLinks THEN "held" ELSE "write")
    /\ UNCHANGED <<tries, seen, faults, ghosts>>

PublishExists(p) ==
    /\ pc[p] = "link"
    /\ lock # NoFile
    /\ Goto(p, "stat")
    /\ UNCHANGED <<lock, tries, mine, seen, faults, ghosts>>

\* writeExclusive, without hard links: the pid goes to the inode p opened,
\* whatever is at the path by now.
WritePid(p) ==
    /\ pc[p] = "write"
    /\ lock' = IF IsOwn(p)
                 THEN [ino |-> mine[p], mtime |-> 1, age |-> 0, pid |-> p] ELSE lock
    /\ Goto(p, "held")
    /\ UNCHANGED <<tries, mine, seen, faults, ghosts>>

\* The write fails (a full disk), and nothing is in the file.
WriteFails(p) ==
    /\ pc[p] = "write"
    /\ faults < MaxFaults
    /\ faults' = faults + 1
    /\ Goto(p, "undo")
    /\ UNCHANGED <<lock, tries, mine, seen, ghosts>>

\* Its catch: unlinkSync without a look at what is at the path by now; tryLock throws.
UnlinkUnwritten(p) ==
    /\ pc[p] = "undo"
    /\ lateUndo' = (lateUndo \/ (lock # NoFile /\ ~IsOwn(p)))
    /\ lock' = NoFile
    /\ Released(p)
    /\ UNCHANGED <<seen, faults, windowHit, lateRelease>>

\* Mutant: one attempt too many.
NextAttemptOneMore(p) ==
    /\ seen' = [seen EXCEPT ![p] = NoStats]
    /\ IF tries[p] <= Attempts
         THEN Goto(p, "link") /\ tries' = [tries EXCEPT ![p] = @ + 1]
         ELSE Goto(p, "idle") /\ tries' = [tries EXCEPT ![p] = 0]

\* One attempt of tryLock is over without the lock.
NextAttempt(p) ==
    /\ seen' = [seen EXCEPT ![p] = NoStats]
    /\ IF tries[p] < Attempts
         THEN Goto(p, "link") /\ tries' = [tries EXCEPT ![p] = @ + 1]
         ELSE Goto(p, "idle") /\ tries' = [tries EXCEPT ![p] = 0]

\* readHolder: statSync, then readFileSync.
StatGone(p) ==
    /\ pc[p] = "stat"
    /\ lock = NoFile
    /\ NextAttempt(p)
    /\ UNCHANGED <<lock, mine, faults, ghosts>>

StatHolder(p) ==
    /\ pc[p] = "stat"
    /\ lock # NoFile
    /\ seen' = [seen EXCEPT ![p] =
                  [ino |-> lock.ino, mtime |-> lock.mtime, age |-> lock.age]]
    /\ Goto(p, "read")
    /\ UNCHANGED <<lock, tries, mine, faults, ghosts>>

\* Mutants: an old lock is taken over though the caller gave no staleMs; a lock
\* without a pid always counts as held.
StaleWithoutStaleMs(p) ==
    \/ lock.mtime = 0 /\ seen[p].age >= 1
    \/ lock.mtime = 1 /\ seen[p].age = 2
    \/ lock.mtime = 1 /\ ~Alive(lock.pid)

StaleWithPidOnly(p) ==
    \/ lock.mtime = 1 /\ HasStale /\ seen[p].age = 2
    \/ lock.mtime = 1 /\ ~Alive(lock.pid)

\* inspect: the age comes from the stat, the text from the file at the path now.
JudgedStale(p) ==
    \/ lock.mtime = 0 /\ seen[p].age >= 1
    \/ lock.mtime = 1 /\ HasStale /\ seen[p].age = 2
    \/ lock.mtime = 1 /\ ~Alive(lock.pid)

ReadGone(p) ==
    /\ pc[p] = "read"
    /\ lock = NoFile
    /\ NextAttempt(p)
    /\ UNCHANGED <<lock, mine, faults, ghosts>>

ReadStale(p) ==
    /\ pc[p] = "read"
    /\ lock # NoFile
    /\ JudgedStale(p)
    /\ Goto(p, "recheck")
    /\ UNCHANGED <<lock, tries, mine, seen, faults, ghosts>>

\* The lock is held: tryLock returns undefined.
ReadHeld(p) ==
    /\ pc[p] = "read"
    /\ lock # NoFile
    /\ ~JudgedStale(p)
    /\ Goto(p, "idle")
    /\ tries' = [tries EXCEPT ![p] = 0]
    /\ seen' = [seen EXCEPT ![p] = NoStats]
    /\ UNCHANGED <<lock, mine, faults, ghosts>>

\* removeStale: statSync, compare inode and mtime, then unlinkSync.
RecheckSame(p) ==
    /\ pc[p] = "recheck"
    /\ IsSeen(p)
    /\ Goto(p, "unlink")
    /\ UNCHANGED <<lock, tries, mine, seen, faults, ghosts>>

RecheckOther(p) ==
    /\ pc[p] = "recheck"
    /\ ~IsSeen(p)
    /\ NextAttempt(p)
    /\ UNCHANGED <<lock, mine, faults, ghosts>>

UnlinkStale(p) ==
    /\ pc[p] = "unlink"
    /\ windowHit' = (windowHit \/ (lock # NoFile /\ ~IsSeen(p)))
    /\ lock' = NoFile
    /\ NextAttempt(p)
    /\ UNCHANGED <<mine, faults, expired, lateRelease, lateUndo>>

------------------------------------------------------------------------------
(* release *)

\* The work under the lock is done.
BeginRelease(p) ==
    /\ pc[p] = "held"
    /\ Goto(p, "relRead")
    /\ UNCHANGED <<lock, tries, mine, seen, faults, ghosts>>

\* The token in the file is unique to one tryLock call: it is p's iff the inode is.
ReadOwnToken(p) ==
    /\ pc[p] = "relRead"
    /\ IsOwn(p)
    /\ Goto(p, "relUnlink")
    /\ UNCHANGED <<lock, tries, mine, seen, faults, ghosts>>

ReadOtherToken(p) ==
    /\ pc[p] = "relRead"
    /\ ~IsOwn(p)
    /\ Released(p)
    /\ UNCHANGED <<lock, seen, faults, windowHit, lateRelease, lateUndo>>

UnlinkOwn(p) ==
    /\ pc[p] = "relUnlink"
    /\ lateRelease' = (lateRelease \/ (lock # NoFile /\ ~IsOwn(p)))
    /\ lock' = NoFile
    /\ Released(p)
    /\ UNCHANGED <<seen, faults, windowHit, lateUndo>>

\* Another call fails: tryLock or release throws, and what is at the path stays.  (An
\* unreadable file would not throw: its age decides; the files are all of one user.)
CallFails(p) ==
    /\ pc[p] \in {"link", "undo", "stat", "recheck", "unlink", "relRead", "relUnlink"}
    /\ faults < MaxFaults
    /\ faults' = faults + 1
    /\ seen' = [seen EXCEPT ![p] = NoStats]
    /\ Released(p)
    /\ UNCHANGED <<lock, windowHit, lateRelease, lateUndo>>

------------------------------------------------------------------------------
(* The machine: time passes, processes die, and a dead pid is used again.   *)

\* The age at which a live holder's file is taken over: settleMs while it is
\* empty, staleMs after that.
TakenOverAt(file, age) == IF file.mtime = 0 THEN age >= 1 ELSE HasStale /\ age = 2

Age ==
    /\ lock # NoFile
    /\ lock.age < 2
    /\ lock' = [lock EXCEPT !.age = @ + 1]
    /\ expired' = IF TakenOverAt(lock, lock.age + 1)
                    THEN expired \cup {p \in Procs : mine[p] = lock.ino}
                    ELSE expired
    /\ UNCHANGED <<pc, tries, mine, seen, faults, windowHit, lateRelease, lateUndo>>

Crash(p) ==
    /\ Alive(p)
    /\ faults < MaxFaults
    /\ faults' = faults + 1
    /\ Goto(p, "dead")
    /\ tries' = [tries EXCEPT ![p] = 0]
    /\ mine' = [mine EXCEPT ![p] = NoIno]
    /\ seen' = [seen EXCEPT ![p] = NoStats]
    /\ expired' = expired \ {p}
    /\ UNCHANGED <<lock, windowHit, lateRelease, lateUndo>>

\* Another process gets the pid: the file the dead one left names a live process.
ReusePid(p) ==
    /\ pc[p] = "dead"
    /\ Goto(p, "idle")
    /\ UNCHANGED <<lock, tries, mine, seen, faults, ghosts>>

TryLock(p) ==
    \/ PublishCreates(p)
    \/ PublishExists(p)
    \/ WritePid(p)
    \/ WriteFails(p)
    \/ UnlinkUnwritten(p)
    \/ StatGone(p)
    \/ StatHolder(p)
    \/ ReadGone(p)
    \/ ReadStale(p)
    \/ ReadHeld(p)
    \/ RecheckSame(p)
    \/ RecheckOther(p)
    \/ UnlinkStale(p)

Release(p) == BeginRelease(p) \/ ReadOwnToken(p) \/ ReadOtherToken(p) \/ UnlinkOwn(p)

Next ==
    \/ \E p \in Procs :
          Begin(p) \/ TryLock(p) \/ Release(p) \/ CallFails(p) \/ Crash(p) \/ ReusePid(p)
    \/ Age

Spec == Init /\ [][Next]_vars

\* The scheduler runs every live process, callers poll the lock until they
\* have it (waitForLock, the next check), work ends, and time passes.
Fairness ==
    /\ \A p \in Procs : WF_vars(Begin(p) \/ TryLock(p) \/ Release(p))
    /\ WF_vars(Age)

FairSpec == Spec /\ Fairness

------------------------------------------------------------------------------
(* Properties *)

TypeOK ==
    /\ lock \in Files \cup {NoFile}
    /\ pc \in [Procs -> PCs]
    /\ tries \in [Procs -> 0 .. Attempts]
    /\ mine \in [Procs -> Inos \cup {NoIno}]
    /\ seen \in [Procs -> Stats]
    /\ faults \in Nat
    /\ expired \subseteq Procs
    /\ windowHit \in BOOLEAN
    /\ lateRelease \in BOOLEAN
    /\ lateUndo \in BOOLEAN

\* p works under the lock and its file has not reached the age of a takeover.
ValidHolder(p) == pc[p] = "held" /\ p \notin expired

\* Two processes that both have a lock young enough to be theirs never work
\* at the same time, unless an unlink removed a file that its process had not
\* just seen to be the right one: in the window removeStale documents, in the
\* one between the read and the unlink of release, or in the catch of a create
\* whose write failed.  No death, failed call, pid reuse, ageing or retry
\* breaks the lock otherwise.
MutualExclusion ==
    ~windowHit /\ ~lateRelease /\ ~lateUndo =>
        \A p, q \in Procs : ValidHolder(p) /\ ValidHolder(q) => p = q

\* release: "A lock taken over as stale belongs to someone else now; leave it."
ReleaseLeavesTakenOver == ~lateRelease

\* While no takeover by age is possible (the callers give no staleMs), release
\* removes nothing but its own file: only a dead holder is taken over.
OwnReleaseWithoutStale == ~HasStale /\ HardLinks /\ lateRelease => windowHit

\* Nobody works or will work under the file at the path.
Abandoned == lock # NoFile /\ \A p \in Procs : ~IsOwn(p)

\* A lock file whose creator died, empty or with its pid, even with the pid in
\* use again, does not stay: with staleMs, whoever polls the lock gets it.
AbandonedReplaced == Abandoned ~> ~Abandoned
=============================================================================
