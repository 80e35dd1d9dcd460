-------------------------------- MODULE MCJobs --------------------------------
(***************************************************************************)
(* ShellJobs and JobHandover on small instances.  They model the same jobs   *)
(* at two levels and share no variable, so one run checks both: `part` is    *)
(* chosen at the start and says which of the two moves.                      *)
(***************************************************************************)
EXTENDS JobHandover

CONSTANTS MaxAttempts, MaxLive, MaxRetained, MaxUndelivered, Bound, MaxEvents, NoJob

\* A completion is attempted, kills, reloads and restarts are bounded, and what is no job is no
\* record of one.
ASSUME RuntimeAssumption ==
    /\ MaxAttempts \in Nat \ {0}
    /\ \A e \in {"kill", "reload", "restart"} : Bound[e] \in Nat
    /\ NoJob \notin [state : {"running", "stopping", "done"}, claimed : BOOLEAN,
                     attempts : 0 .. MaxAttempts, delivered : BOOLEAN, failed : BOOLEAN,
                     dirty : BOOLEAN, adopted : BOOLEAN]

VARIABLES part, jobs, proc, spawning, finalizing, killers, reclean, outbox, binding, reads,
          phase, record, busy, settled, queue, history, sends, ghost, spent

R == INSTANCE ShellJobs

runtimeVars == <<jobs, proc, spawning, finalizing, killers, reclean, outbox, binding, reads,
                 phase, record, busy, settled, queue, history, sends, ghost, spent>>

\* Bounds: how often each kind of event may happen in a behaviour.
MCBound == [abort |-> 1, throw |-> 1, reload |-> 1, restart |-> 1, kill |-> 2, reclean |-> 1]

MCInit == part \in {"runtime", "owners"} /\ Init /\ R!Init

MCNext ==
    /\ UNCHANGED part
    /\ \/ part = "runtime" /\ R!Next /\ UNCHANGED vars
       \/ part = "owners" /\ Next /\ UNCHANGED runtimeVars

MCSpec == MCInit /\ [][MCNext]_<<part, vars, runtimeVars>> /\ R!Fairness

\* The state of both parts has its types.
BothTypeOK == TypeOK /\ R!TypeOK

\* The properties of ShellJobs, stated there.

\* Each completion is told at most once (shell-jobs.ts:11).
TellsAtMostOnce == R!TellsAtMostOnce
\* An abort cannot silently swallow a completion (shell-jobs-delivery.ts).
TellsOrShows == R!TellsOrShows
\* The attempts of a job are bounded (shell-jobs-delivery.ts, reconcileDeliveries).
BoundedSends == R!BoundedSends
\* The records of the jobs say how each was told (shell-jobs-manage.ts, shell-jobs-delivery.ts).
ToldAsRecorded == R!ToldAsRecorded
=============================================================================
