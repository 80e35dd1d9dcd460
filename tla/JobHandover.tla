---------------------------- MODULE JobHandover ----------------------------
(***************************************************************************)
(* Who owns a background job when Pi restarts (src/lib/shell-jobs-handover.ts *)
(* and shell-jobs-adopt.ts): a process that ends for a restart leaves its    *)
(* jobs in a record, the next process of the session claims the record by a  *)
(* rename, and processes of other sessions sweep records that nobody came    *)
(* for.  Pids are reused, so a job is signalled by its pid only after a look *)
(* at the start time of the process that has it; a job whose start time was  *)
(* never read is not signalled once it is no child.                        *)
(*                                                                         *)
(* The record is at the path of one session file.  A step is what a process *)
(* does between two moments at which another can act on the file or the job. *)
(***************************************************************************)
EXTENDS FiniteSets, Naturals

CONSTANTS
    Procs,      \* Pi processes that open the session
    Sweepers,   \* Pi processes of other sessions, which sweep
    Jobs,
    MaxCrashes, \* bound: processes that die with what they hold
    NoRecord,   \* no file, or nothing taken
    Saw         \* a sweeper has read a stale record and not claimed it yet

VARIABLES
    group,   \* each job's process group: none, live, left (its leader ended), gone, other
    up,      \* processes that have the session open
    held,    \* the jobs that each process's runtime watches
    adopted, \* jobs that are no child of a running Pi
    untimed, \* jobs with no start time: pidStart is null
    ending,  \* jobs whose end is seen and whose group is being counted
    unclean, \* ended children of each process whose group was not seen to be gone
    file,    \* the record at the session's path
    sweep,   \* what each sweeper has
    crashes,
    lost,    \* ghost: jobs whose record or process was lost
    letGo,   \* ghost: jobs of refused records, and untimed ones that were not stopped
    foreign  \* ghost: groups of others that were signalled on a fresh look

vars == <<group, up, held, adopted, untimed, ending, unclean, file, sweep, crashes, lost, letGo,
          foreign>>
jobFacts == <<adopted, untimed>>
ghosts == <<lost, letGo, foreign>>

Records == [kept : SUBSET Jobs, old : BOOLEAN]

ASSUME HandoverAssumption ==
    /\ NoRecord \notin Records /\ Saw \notin Records /\ NoRecord # Saw
    /\ MaxCrashes \in Nat
    /\ IsFiniteSet(Procs) /\ Procs \cap Sweepers = {}

Init ==
    /\ group = [j \in Jobs |-> "none"]
    /\ up = {}
    /\ held = [p \in Procs |-> {}]
    /\ adopted = {}
    /\ untimed = {}
    /\ ending = {}
    /\ unclean = [p \in Procs |-> {}]
    /\ file = NoRecord
    /\ sweep = [s \in Sweepers |-> NoRecord]
    /\ crashes = 0
    /\ lost = {}
    /\ letGo = {}
    /\ foreign = {}

\* The leader is the recorded process: startIdentity(pid) = pidStart.
IsSame(j) == group[j] = "live" /\ j \notin untimed

\* Mutant of MayStop: the start time is not compared.
MayStopAny(j) == TRUE

\* mayStop: a child's pid cannot have been reused, an adopted job's is checked.
MayStop(j) == j \in adopted => IsSame(j)

\* stopGroup on the groups of `looked`, whose pids were looked at just before or are those
\* of children that are not reaped, and of `blind`, where neither is so.  A group that is
\* not the job's is somebody else's.
Signal(looked, blind) ==
    /\ group' = [j \in Jobs |-> IF j \in looked \cup blind /\ group[j] \in {"live", "left"}
                                  THEN "gone" ELSE group[j]]
    /\ foreign' = foreign \cup {j \in looked : group[j] = "other"}

InRecord(record) == IF record \in {NoRecord, Saw} THEN {} ELSE record.kept

------------------------------------------------------------------------------
(* A process that has the session open *)

\* firstLook: the recorded process still runs, or some process has an untimed job's pid.
RunsOn(j) == IsSame(j) \/ (j \in untimed /\ group[j] \in {"live", "other"})

\* claimForSession and adopt: the rename makes the claim.  Of a fresh record, the jobs
\* that still run are watched; those of a stale one are stopped.
Open(p) ==
    /\ p \notin up
    /\ up' = up \cup {p}
    /\ file' = NoRecord
    /\ IF file # NoRecord /\ ~file.old
         THEN /\ held' = [held EXCEPT ![p] = {j \in file.kept : RunsOn(j)}]
              /\ UNCHANGED <<group, letGo, foreign>>
         ELSE /\ Signal({j \in InRecord(file) : IsSame(j)}, {})
              /\ letGo' = letGo \cup (InRecord(file) \cap untimed)
              /\ UNCHANGED held
    /\ UNCHANGED <<jobFacts, ending, unclean, sweep, crashes, lost>>

\* A record that is bad, names another session id or has lost its log folder is refused:
\* it is gone, and its jobs are neither watched nor stopped.
OpenRefused(p) ==
    /\ p \notin up /\ file # NoRecord
    /\ up' = up \cup {p}
    /\ file' = NoRecord
    /\ letGo' = letGo \cup file.kept
    /\ UNCHANGED <<group, held, jobFacts, ending, unclean, sweep, crashes, lost, foreign>>

\* The start time of a job is read when it starts, if the system tells it.
StartJob(p, j) ==
    /\ p \in up /\ group[j] = "none"
    /\ group' = [group EXCEPT ![j] = "live"]
    /\ held' = [held EXCEPT ![p] = @ \cup {j}]
    /\ untimed' \in {untimed, untimed \cup {j}}
    /\ UNCHANGED <<up, adopted, ending, unclean, file, sweep, crashes, ghosts>>

\* groupStillOurs of an adopted job: the leader is gone or is the recorded one.
StillOurs(j) == j \in adopted => group[j] # "other" /\ j \notin untimed

\* The exit event, or laterLook of the poll: the job has ended.  If its group still has
\* members and may be touched, they are counted first; else there is nothing to stop.
SeeEnd(p, j) ==
    /\ p \in up /\ j \in held[p] /\ j \notin ending /\ group[j] # "live"
    /\ IF StillOurs(j) /\ group[j] = "left"
         THEN ending' = ending \cup {j} /\ UNCHANGED held
         ELSE held' = [held EXCEPT ![p] = @ \ {j}] /\ UNCHANGED ending
    /\ UNCHANGED <<group, up, jobFacts, unclean, file, sweep, crashes, ghosts>>

\* finalize after groupSize: the group is stopped without another look.  One that does
\* not go is kept as such, with the job's cleanupError.
StopRest(p, j) ==
    /\ p \in up /\ j \in held[p] /\ j \in ending
    /\ ending' = ending \ {j}
    /\ held' = [held EXCEPT ![p] = @ \ {j}]
    /\ \/ Signal({}, {j}) /\ UNCHANGED unclean
       \/ /\ group[j] # "gone"
          /\ unclean' = [unclean EXCEPT ![p] = @ \cup {j}]
          /\ UNCHANGED <<group, foreign>>
    /\ UNCHANGED <<up, jobFacts, file, sweep, crashes, lost, letGo>>

\* shell_job kill, stopJob: a job that may be stopped is.  The pid of a child whose exit
\* has been seen is free, and is signalled all the same.
Kill(p, j) ==
    /\ p \in up /\ j \in held[p] /\ MayStop(j)
    /\ IF j \in ending THEN Signal({}, {j}) ELSE Signal({j}, {})
    /\ UNCHANGED <<up, held, jobFacts, ending, unclean, file, sweep, crashes, lost, letGo>>

\* shell_job kill, recleanFinishedJob: the group of an ended child that was not seen to be
\* gone is signalled again, with no look at who has it by now.
Reclean(p, j) ==
    /\ p \in up /\ j \in unclean[p] /\ j \notin adopted
    /\ Signal({}, {j})
    /\ unclean' = [unclean EXCEPT ![p] = @ \ {j}]
    /\ UNCHANGED <<up, held, jobFacts, ending, file, sweep, crashes, lost, letGo>>

\* What a process that ends forgets.
Forgets(p) ==
    /\ up' = up \ {p}
    /\ held' = [held EXCEPT ![p] = {}]
    /\ ending' = ending \ held[p]
    /\ unclean' = [unclean EXCEPT ![p] = {}]

\* shutdown: every job that may be signalled is stopped, and the exit net kills the groups
\* of ended jobs that it still claims (of a job of unclean, for 30 seconds).
Quit(p) ==
    /\ p \in up
    /\ \E claims \in SUBSET unclean[p] :
          Signal({j \in held[p] \ ending : MayStop(j)},
                 {j \in held[p] \cap ending : MayStop(j)} \cup claims)
    /\ letGo' = letGo \cup (held[p] \cap adopted \cap untimed)
    /\ Forgets(p)
    /\ UNCHANGED <<jobFacts, file, sweep, crashes, lost>>

\* handOver: the record replaces whatever is at the path, then the process ends.  Ended
\* jobs alone make a record, too; one of no running job is modelled where it replaces one.
\* The start time of a child that has not been seen to end is read again, if it was not
\* told; the exit net kills what it still claims.
HandOver(p) ==
    /\ p \in up
    /\ held[p] # {} \/ InRecord(file) # {}
    /\ file' = [kept |-> held[p], old |-> FALSE]
    /\ lost' = lost \cup InRecord(file)
    /\ adopted' = adopted \cup held[p]
    /\ \E told \in SUBSET (held[p] \ (adopted \cup ending)) : untimed' = untimed \ told
    /\ \E claims \in SUBSET unclean[p] : Signal({}, claims)
    /\ Forgets(p)
    /\ UNCHANGED <<sweep, crashes, letGo>>

Crash(p) ==
    /\ p \in up /\ crashes < MaxCrashes
    /\ crashes' = crashes + 1
    /\ lost' = lost \cup held[p]
    /\ adopted' = adopted \cup held[p]
    /\ Forgets(p)
    /\ UNCHANGED <<group, untimed, file, sweep, letGo, foreign>>

------------------------------------------------------------------------------
(* A sweep: read, rename, then stop the jobs or put a fresh record back *)

SweepReads(s) ==
    /\ sweep[s] = NoRecord /\ file # NoRecord /\ file.old
    /\ sweep' = [sweep EXCEPT ![s] = Saw]
    /\ UNCHANGED <<group, up, held, jobFacts, ending, unclean, file, crashes, ghosts>>

\* Mutant of SweepClaims: the record is read, not taken by a rename.
SweepCopies(s) ==
    /\ sweep[s] = Saw
    /\ sweep' = [sweep EXCEPT ![s] = file]
    /\ UNCHANGED <<group, up, held, jobFacts, ending, unclean, file, crashes, ghosts>>

\* claimHandover: a rename, whatever record is at the path by now.
SweepClaims(s) ==
    /\ sweep[s] = Saw
    /\ sweep' = [sweep EXCEPT ![s] = file]
    /\ file' = NoRecord
    /\ UNCHANGED <<group, up, held, jobFacts, ending, unclean, crashes, ghosts>>

\* stopUnclaimed, for a record that is stale: what nothing identifies runs on.
SweepStops(s) ==
    /\ sweep[s] \in Records /\ sweep[s].old
    /\ Signal({j \in sweep[s].kept : IsSame(j)}, {})
    /\ letGo' = letGo \cup (sweep[s].kept \cap untimed)
    /\ sweep' = [sweep EXCEPT ![s] = NoRecord]
    /\ UNCHANGED <<up, held, jobFacts, ending, unclean, file, crashes, lost>>

\* A record that turns out to be bad is gone, and its jobs run on.
SweepRefuses(s) ==
    /\ sweep[s] \in Records
    /\ letGo' = letGo \cup sweep[s].kept
    /\ sweep' = [sweep EXCEPT ![s] = NoRecord]
    /\ UNCHANGED <<group, up, held, jobFacts, ending, unclean, file, crashes, lost, foreign>>

\* Mutant of SweepPutsBack: a fresh record is not put back.
SweepDrops(s) ==
    /\ sweep[s] \in Records /\ ~sweep[s].old
    /\ sweep' = [sweep EXCEPT ![s] = NoRecord]
    /\ UNCHANGED <<group, up, held, jobFacts, ending, unclean, file, crashes, ghosts>>

\* linkSync, which does not replace a record written meanwhile, for a fresh one.
SweepPutsBack(s) ==
    /\ sweep[s] \in Records /\ ~sweep[s].old
    /\ IF file = NoRecord THEN file' = sweep[s] /\ UNCHANGED lost
                          ELSE lost' = lost \cup sweep[s].kept /\ UNCHANGED file
    /\ sweep' = [sweep EXCEPT ![s] = NoRecord]
    /\ UNCHANGED <<group, up, held, jobFacts, ending, unclean, crashes, letGo, foreign>>

SweeperDies(s) ==
    /\ sweep[s] \in Records /\ crashes < MaxCrashes
    /\ crashes' = crashes + 1
    /\ lost' = lost \cup sweep[s].kept
    /\ sweep' = [sweep EXCEPT ![s] = NoRecord]
    /\ UNCHANGED <<group, up, held, jobFacts, ending, unclean, file, letGo, foreign>>

------------------------------------------------------------------------------
(* The machine *)

LeaderEnds(j) ==
    /\ group[j] = "live"
    /\ \E to \in {"left", "gone"} : group' = [group EXCEPT ![j] = to]
    /\ UNCHANGED <<up, held, jobFacts, ending, unclean, file, sweep, crashes, ghosts>>

LeftEnd(j) ==
    /\ group[j] = "left"
    /\ group' = [group EXCEPT ![j] = "gone"]
    /\ UNCHANGED <<up, held, jobFacts, ending, unclean, file, sweep, crashes, ghosts>>

\* A pid is free once its parent has reaped it: at once if no Pi is the parent.
ReusePid(j) ==
    /\ group[j] = "gone"
    /\ j \in adopted \/ j \in ending \/ \A p \in Procs : j \notin held[p]
    /\ group' = [group EXCEPT ![j] = "other"]
    /\ UNCHANGED <<up, held, jobFacts, ending, unclean, file, sweep, crashes, ghosts>>

\* 24 hours pass for the record at the path.
Age ==
    /\ file # NoRecord /\ ~file.old
    /\ file' = [file EXCEPT !.old = TRUE]
    /\ UNCHANGED <<group, up, held, jobFacts, ending, unclean, sweep, crashes, ghosts>>

Next ==
    \/ \E p \in Procs :
          \/ Open(p) \/ OpenRefused(p) \/ Quit(p) \/ HandOver(p) \/ Crash(p)
          \/ \E j \in Jobs : StartJob(p, j) \/ SeeEnd(p, j) \/ StopRest(p, j)
                             \/ Kill(p, j) \/ Reclean(p, j)
    \/ \E s \in Sweepers :
          SweepReads(s) \/ SweepClaims(s) \/ SweepStops(s) \/ SweepRefuses(s)
          \/ SweepPutsBack(s) \/ SweeperDies(s)
    \/ \E j \in Jobs : LeaderEnds(j) \/ LeftEnd(j) \/ ReusePid(j)
    \/ Age

Spec == Init /\ [][Next]_vars

------------------------------------------------------------------------------
(* Properties *)

TypeOK ==
    /\ group \in [Jobs -> {"none", "live", "left", "gone", "other"}]
    /\ up \subseteq Procs
    /\ held \in [Procs -> SUBSET Jobs]
    /\ adopted \subseteq Jobs /\ untimed \subseteq Jobs /\ ending \subseteq Jobs
    /\ unclean \in [Procs -> SUBSET Jobs]
    /\ file \in Records \cup {NoRecord}
    /\ sweep \in [Sweepers -> Records \cup {NoRecord, Saw}]
    /\ crashes \in 0 .. MaxCrashes
    /\ lost \subseteq Jobs /\ letGo \subseteq Jobs /\ foreign \subseteq Jobs

\* Two Pi processes never own one job, whoever claims, sweeps or writes the record
\* when (shell-jobs-handover.ts: "cannot both adopt its jobs").
OneOwner ==
    \A j \in Jobs :
        /\ \A p, q \in Procs : j \in held[p] /\ j \in held[q] => p = q
        /\ \A p \in Procs : j \in held[p] =>
              j \notin InRecord(file) /\ \A s \in Sweepers : j \notin InRecord(sweep[s])

\* A running job always has an owner, or a record from which one will take or stop it,
\* unless a process died with it, a second record replaced the first, the record was
\* refused, or the job has no start time and so is not stopped (shell-jobs-adopt.ts:
\* "its jobs would run on with no owner for good, so they stop").
NeverStranded ==
    \A j \in Jobs : group[j] = "live" /\ j \notin lost \cup letGo =>
        \/ \E p \in Procs : j \in held[p]
        \/ j \in InRecord(file)
        \/ \E s \in Sweepers : j \in InRecord(sweep[s])

\* shell-jobs-adopt.ts: "a reused pid is never signalled", wherever the code looks at the
\* start time first, and for a child whose exit was not seen.  Where it does not look (after
\* that exit: finalize, stopJob, recleanFinishedJob, the exit net), nothing is promised.
NoForeignSignal == foreign = {}
=============================================================================
