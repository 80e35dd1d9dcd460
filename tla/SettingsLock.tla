---------------------------- MODULE SettingsLock ----------------------------
(***************************************************************************)
(* Changes of Pi's settings.json under its lock, the directory                *)
(* settings.json.lock (src/lib/auto-update/settings-lock.ts, settings.ts).    *)
(* Every action is a call on the file system.  Pi's own saves follow the same *)
(* protocol: they are processes like the updater's.                         *)
(*                                                                         *)
(* Every process makes one change; the file is the set of the changes in it,  *)
(* the lock is who made the directory.                                      *)
(***************************************************************************)
EXTENDS FiniteSets

CONSTANT Procs

VARIABLES
    lock,   \* who made the directory: one process or none
    old,    \* the directory is older than STALE_MS
    file,   \* settings.json: the changes in it
    pc,     \* what each process does next
    seen,   \* the directory it took for stale
    text,   \* the settings it has read
    late,   \* ghost: a process that lives held the lock for longer than STALE_MS
    swept   \* ghost: a removal of a stale directory hit one made since

vars == <<lock, old, file, pc, seen, text, late, swept>>

Live(p) == pc[p] \notin {"done", "failed", "dead"}
Holds(p) == pc[p] \in {"read", "write", "thrown", "drop"}
Goto(p, label) == pc' = [pc EXCEPT ![p] = label]

Init ==
    /\ lock = {} /\ old = FALSE
    /\ file = {}
    /\ pc = [p \in Procs |-> "take"]
    /\ seen = [p \in Procs |-> {}]
    /\ text = [p \in Procs |-> {}]
    /\ late = FALSE /\ swept = FALSE

------------------------------------------------------------------------------
(* tryTake, until the deadline *)

MakeDir(p) ==
    /\ pc[p] = "take"
    /\ IF lock = {}
         THEN Goto(p, "read") /\ lock' = {p} /\ old' = FALSE
         ELSE Goto(p, "stat") /\ UNCHANGED <<lock, old>>
    /\ UNCHANGED <<file, seen, text, late, swept>>

\* Mutant of IsStale: no stale time.
AnyIsStale == lock # {}

IsStale == lock # {} /\ old

\* A fresh directory, or none any more: it sleeps and tries again.
Stat(p) ==
    /\ pc[p] = "stat"
    /\ Goto(p, IF IsStale THEN "sweep" ELSE "take")
    /\ seen' = [seen EXCEPT ![p] = lock]
    /\ UNCHANGED <<lock, old, file, text, late, swept>>

Sweep(p) ==
    /\ pc[p] = "sweep"
    /\ Goto(p, "take")
    /\ lock' = {} /\ old' = FALSE
    /\ swept' = (swept \/ (lock # {} /\ lock # seen[p]))
    /\ UNCHANGED <<file, seen, text, late>>

GiveUp(p) ==
    /\ pc[p] = "take"
    /\ Goto(p, "failed")
    /\ UNCHANGED <<lock, old, file, seen, text, late, swept>>

------------------------------------------------------------------------------
(* The work, and the release *)

Read(p) ==
    /\ pc[p] = "read"
    /\ Goto(p, "write")
    /\ text' = [text EXCEPT ![p] = file]
    /\ UNCHANGED <<lock, old, file, seen, late, swept>>

\* The whole file is replaced, by a rename: what it has read, with its change.
Write(p) ==
    /\ pc[p] = "write"
    /\ Goto(p, "drop")
    /\ file' = text[p] \cup {p}
    /\ UNCHANGED <<lock, old, seen, text, late, swept>>

\* Settings that do not parse, or a disk that is full.
Throws(p) ==
    /\ pc[p] \in {"read", "write"}
    /\ Goto(p, "thrown")
    /\ UNCHANGED <<lock, old, file, seen, text, late, swept>>

\* rmdir of the directory at the path, whosever it is.
Drop(p) ==
    /\ pc[p] \in {"drop", "thrown"}
    /\ Goto(p, IF pc[p] = "drop" THEN "done" ELSE "failed")
    /\ lock' = {} /\ old' = FALSE
    /\ UNCHANGED <<file, seen, text, late, swept>>

------------------------------------------------------------------------------

Crash(p) ==
    /\ Live(p)
    /\ Goto(p, "dead")
    /\ UNCHANGED <<lock, old, file, seen, text, late, swept>>

Age ==
    /\ lock # {} /\ ~old
    /\ old' = TRUE
    /\ late' = (late \/ \E p \in lock : Live(p))
    /\ UNCHANGED <<lock, file, pc, seen, text, swept>>

Next ==
    \/ \E p \in Procs :
          \/ MakeDir(p) \/ Stat(p) \/ Sweep(p) \/ GiveUp(p)
          \/ Read(p) \/ Write(p) \/ Throws(p) \/ Drop(p) \/ Crash(p)
    \/ Age

Spec == Init /\ [][Next]_vars

------------------------------------------------------------------------------
(* Properties *)

TypeOK ==
    /\ lock \in {{}} \cup {{p} : p \in Procs}
    /\ {old, late, swept} \subseteq BOOLEAN
    /\ file \in SUBSET Procs
    /\ pc \in [Procs -> {"take", "stat", "sweep", "read", "write", "thrown", "drop",
                         "done", "failed", "dead"}]
    /\ seen \in [Procs -> {{}} \cup {{p} : p \in Procs}]
    /\ text \in [Procs -> SUBSET Procs]

\* A change that was made stays in settings.json, whoever saves it later, unless a process held
\* the lock for longer than the stale time, or two removed a stale directory one after the other.
ChangesStay == late \/ swept \/ \A p \in Procs : pc[p] \in {"drop", "done"} => p \in file
=============================================================================
