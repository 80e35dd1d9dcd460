----------------------------- MODULE ShellJobs -----------------------------
(***************************************************************************)
(* Background shell jobs of one session (src/extensions/shell-jobs.ts,       *)
(* src/lib/shell-jobs-delivery.ts and shell-jobs-manage.ts): the runtime     *)
(* that starts jobs, notices their ends and tells the conversation of each,  *)
(* across aborted turns, /reload, and a restart of Pi that hands the jobs    *)
(* over to the next process.                                               *)
(*                                                                         *)
(* An action is a handler up to its next await.  Pi is abstract: a turn may  *)
(* take a queued message into the session's history, end, or be aborted,     *)
(* which clears the queue.  Jobs are numbered in the order of their start.   *)
(***************************************************************************)
EXTENDS Naturals, FiniteSets, FiniteSetsExt

CONSTANTS
    Jobs,           \* a set 1 .. n, in the order they are started
    MaxAttempts,    \* MAX_COMPLETION_ATTEMPTS
    MaxLive,        \* MAX_LIVE
    MaxRetained,    \* MAX_RETAINED
    MaxUndelivered, \* MAX_UNDELIVERED
    Bound,          \* bounds: how often each kind of event in Events may happen
    MaxEvents,      \* bound: events of all kinds together
    NoJob           \* a number that the runtime holds no job for

VARIABLES
    jobs,     \* runtime.jobs
    proc,     \* each job's process: none, live, gone
    spawning, \* runtime.pending: starts that wait for the spawn
    finalizing, \* ends that finalize awaits the cleanup for
    killers,  \* shell_job kill calls that wait for a job's end
    reclean,  \* the job record that a kill of a finished job read before its await
    outbox,   \* runtime.outbox
    binding,  \* runtime.delivery: the number of the attachment, 0 for null
    reads,    \* log tails in flight, with the attachment that wants them
    phase,    \* up, parked, closing, leaving, down or over
    record,   \* the hand-over file
    busy,     \* a turn runs
    settled,  \* agent_settled is still to be handled
    queue,    \* messages sent and not yet in the history
    history,  \* completions in the session's history
    sends,    \* ghost: messages submitted for each job
    ghost,    \* ghost: kills told, kills given up, records written back, jobs dropped, refused
    spent     \* how often each bounded event happened

runtime == <<jobs, spawning, finalizing, killers, reclean, outbox, binding, reads, phase, record>>
pi == <<busy, settled, queue, history>>
vars == <<jobs, proc, spawning, finalizing, killers, reclean, outbox, binding, reads, phase,
          record, busy, settled, queue, history, sends, ghost, spent>>

Events == {"abort", "throw", "reload", "restart", "kill", "reclean"}
Bindings == 1 .. Bound["reload"] + Bound["restart"] + 1
JobRecords == [state : {"running", "stopping", "done"}, claimed : BOOLEAN,
               attempts : 0 .. MaxAttempts, delivered : BOOLEAN, failed : BOOLEAN,
               dirty : BOOLEAN, adopted : BOOLEAN]
Started == [state |-> "running", claimed |-> FALSE, attempts |-> 0, delivered |-> FALSE,
            failed |-> FALSE, dirty |-> FALSE, adopted |-> FALSE]
NoJobs == [j \in Jobs |-> NoJob]

Init ==
    /\ jobs = NoJobs
    /\ proc = [j \in Jobs |-> "none"]
    /\ spawning = {}
    /\ finalizing = {}
    /\ killers = [j \in Jobs |-> 0]
    /\ reclean = NoJobs
    /\ outbox = {}
    /\ binding = 1
    /\ reads = {}
    /\ phase = "up"
    /\ record = NoJobs
    /\ busy = FALSE
    /\ settled = FALSE
    /\ queue = [j \in Jobs |-> 0]
    /\ history = [j \in Jobs |-> 0]
    /\ sends = [j \in Jobs |-> 0]
    /\ ghost = [killed |-> {}, waived |-> {}, rewrote |-> {}, dropped |-> {}, silent |-> {},
                refused |-> {}]
    /\ spent = [e \in Events |-> 0]

Spend(e) ==
    /\ spent[e] < Bound[e]
    /\ MapThenSumSet(LAMBDA f : spent[f], Events) < MaxEvents
    /\ spent' = [spent EXCEPT ![e] = @ + 1]

Held(j) == jobs[j] # NoJob
IsLive(j) == Held(j) /\ jobs[j].state # "done"
IsDone(j) == Held(j) /\ jobs[j].state = "done"

\* Between a quit's first await and its end the runtime closes.
Closing == phase \in {"closing", "leaving", "over"}

------------------------------------------------------------------------------
(* Delivery: flush, acknowledge, reconcile *)

\* flush of the attachment b: a read of the log for each entry that has none.
Flush(box, js, b) ==
    /\ outbox' = {j \in box : js[j] # NoJob \/ b = 0}
    /\ reads' = reads \cup (IF b = 0 THEN {} ELSE {<<j, b>> : j \in {i \in box : js[i] # NoJob}})

Acknowledged(job) == [job EXCEPT !.delivered = TRUE, !.failed = FALSE]

\* Mutants of Reconciled: one that does not look into the history, one that has no
\* limit, and one that does not show what it gave up.
ReconciledByNobody(j, job, box) ==
    IF job = NoJob THEN job
    ELSE IF job.state # "done" \/ job.delivered \/ job.attempts = 0 \/ j \in box THEN job
    ELSE IF job.attempts >= MaxAttempts THEN [job EXCEPT !.failed = TRUE]
    ELSE [job EXCEPT !.attempts = @ + 1]

ReconciledForEver(j, job, box) ==
    IF job = NoJob THEN job
    ELSE IF job.state # "done" \/ job.delivered \/ job.attempts = 0 THEN job
    ELSE IF history[j] > 0 THEN Acknowledged(job)
    ELSE IF j \in box THEN job
    ELSE [job EXCEPT !.attempts = @ + 1]

ReconciledSilently(j, job, box) ==
    IF job = NoJob THEN job
    ELSE IF job.state # "done" \/ job.delivered \/ job.attempts = 0 THEN job
    ELSE IF history[j] > 0 THEN Acknowledged(job)
    ELSE IF j \in box \/ job.attempts >= MaxAttempts THEN job
    ELSE [job EXCEPT !.attempts = @ + 1]

\* reconcileDeliveries looks each job up in the history: it is told, or its
\* read or message is under way, or it has had its attempts, or it gets one more.
Reconciled(j, job, box) ==
    IF job = NoJob THEN job
    ELSE IF job.state # "done" \/ job.delivered \/ job.attempts = 0 THEN job
    ELSE IF history[j] > 0 THEN Acknowledged(job)
    ELSE IF j \in box THEN job
    ELSE IF job.attempts >= MaxAttempts THEN [job EXCEPT !.failed = TRUE]
    ELSE [job EXCEPT !.attempts = @ + 1]

Reconcile(js, box, b) ==
    LET next == [j \in Jobs |-> Reconciled(j, js[j], box)]
        again == {j \in Jobs : js[j] # NoJob /\ next[j].attempts > js[j].attempts}
        acked == {j \in Jobs : js[j] # NoJob /\ next[j].delivered /\ ~js[j].delivered}
    IN  /\ jobs' = next
        /\ Flush((box \cup again) \ acked, next, b)

\* sendCompletion after its await: only the current attachment submits, and only
\* what is still owed.  A message makes Pi work; one that Pi refuses is lost.
ReadTail(j, b) ==
    /\ <<j, b>> \in reads
    /\ reads' = reads \ {<<j, b>>}
    /\ \/ /\ b # binding \/ Closing \/ j \notin outbox
          /\ UNCHANGED <<outbox, busy, queue, sends, spent>>
       \/ /\ b = binding /\ ~Closing /\ j \in outbox
          /\ outbox' = outbox \ {j}
          /\ IF ~Held(j) \/ (Held(j) /\ (jobs[j].delivered \/ jobs[j].claimed))
               THEN UNCHANGED <<busy, queue, sends, spent>>
               ELSE /\ sends' = [sends EXCEPT ![j] = @ + 1]
                    /\ \/ /\ queue' = [queue EXCEPT ![j] = @ + 1]
                          /\ busy' = TRUE
                          /\ UNCHANGED spent
                       \/ Spend("throw") /\ UNCHANGED <<busy, queue>>
    /\ UNCHANGED <<jobs, proc, spawning, finalizing, killers, reclean, binding, phase, record,
                   settled, history, ghost>>

\* message_end: the message is in the history.  A parked runtime does not hear it.
Enter(j) ==
    /\ busy /\ queue[j] > 0 /\ phase # "over"
    /\ queue' = [queue EXCEPT ![j] = @ - 1]
    /\ history' = [history EXCEPT ![j] = @ + 1]
    /\ IF phase = "up" /\ Held(j) /\ (~jobs[j].delivered \/ jobs[j].failed)
         THEN /\ jobs' = [jobs EXCEPT ![j] = Acknowledged(@)]
              /\ outbox' = outbox \ {j}
         ELSE UNCHANGED <<jobs, outbox>>
    /\ UNCHANGED <<proc, spawning, finalizing, killers, reclean, binding, reads, phase, record,
                   busy, settled, sends, ghost, spent>>

\* agent_settled: what an aborted turn discarded is sent again.  A history that
\* cannot be read proves nothing, and changes nothing.
AgentSettled ==
    /\ settled
    /\ settled' = FALSE
    /\ \/ /\ phase = "up" /\ ~busy
          /\ Reconcile(jobs, outbox, binding)
          /\ UNCHANGED spent
       \/ /\ phase = "up" /\ ~busy
          /\ Spend("throw")
          /\ Flush(outbox, jobs, binding)
          /\ UNCHANGED jobs
       \/ /\ phase # "up" \/ busy
          /\ UNCHANGED <<jobs, outbox, reads, spent>>
    /\ UNCHANGED <<proc, spawning, finalizing, killers, reclean, binding, phase, record, busy,
                   queue, history, sends, ghost>>

------------------------------------------------------------------------------
(* Pi's turns *)

Prompt ==
    /\ phase = "up" /\ ~busy /\ ~settled
    /\ busy' = TRUE
    /\ UNCHANGED <<runtime, proc, settled, queue, history, sends, ghost, spent>>

TurnEnds ==
    /\ busy /\ \A j \in Jobs : queue[j] = 0
    /\ busy' = FALSE
    /\ settled' = TRUE
    /\ UNCHANGED <<runtime, proc, queue, history, sends, ghost, spent>>

\* The user aborts, and Pi clears what it had queued.
Abort ==
    /\ busy /\ Spend("abort")
    /\ busy' = FALSE
    /\ settled' = TRUE
    /\ queue' = [j \in Jobs |-> 0]
    /\ UNCHANGED <<runtime, proc, history, sends, ghost>>

------------------------------------------------------------------------------
(* Starting a job *)

LiveCount == Cardinality(spawning) + Cardinality({j \in Jobs : IsLive(j)})

\* startJob up to its await: the slot is reserved before the process exists.
StartJob(j) ==
    /\ phase = "up" /\ busy
    /\ proc[j] = "none" /\ \A i \in Jobs : i < j => proc[i] # "none"
    /\ LiveCount < MaxLive
    /\ spawning' = spawning \cup {j}
    /\ proc' = [proc EXCEPT ![j] = "live"]
    /\ UNCHANGED <<jobs, finalizing, killers, reclean, outbox, binding, reads, phase, record, pi,
                   sends, ghost, spent>>

IsOwed(job) == job.attempts > 0 /\ ~job.delivered

\* The jobs that are kept once some are gone, and the undelivered ones of them.
Kept(js, gone) == {j \in Jobs \ gone : js[j] # NoJob}
Protected(js, gone) == {j \in Kept(js, gone) : IsOwed(js[j])}

\* One turn of trimRetained's loop: a finished job goes when too many are kept,
\* an undelivered one only when too many of those are kept as well.
Goes(js, gone, j) ==
    /\ js[j] # NoJob /\ js[j].state = "done"
    /\ Cardinality(Kept(js, gone)) > MaxRetained
    /\ IsOwed(js[j]) => Cardinality(Protected(js, gone)) > MaxUndelivered

\* trimRetained looks at the jobs in order.
Trimmed(js, gone) == \A j \in Jobs : j \in gone <=> Goes(js, {i \in gone : i < j}, j)

\* The spawn event: the job is registered, unless the session is closing by now.
Spawned(j) ==
    /\ j \in spawning /\ phase # "down"
    /\ spawning' = spawning \ {j}
    /\ \/ /\ Closing
          /\ proc' = [proc EXCEPT ![j] = "gone"]
          /\ UNCHANGED <<jobs, outbox, ghost>>
       \/ /\ ~Closing
          /\ \E gone \in SUBSET Jobs :
                /\ Trimmed([jobs EXCEPT ![j] = Started], gone)
                /\ jobs' = [i \in Jobs |-> IF i \in gone THEN NoJob ELSE [jobs EXCEPT ![j] = Started][i]]
                /\ outbox' = outbox \ gone
                /\ ghost' = [ghost EXCEPT
                      !.dropped = @ \cup {i \in gone : IsOwed(jobs[i])},
                      !.silent = @ \cup {i \in gone : jobs[i].claimed}]
          /\ UNCHANGED proc
    /\ UNCHANGED <<finalizing, killers, reclean, binding, reads, phase, record, pi, sends, spent>>

------------------------------------------------------------------------------
(* A job's end *)

Exit(j) ==
    /\ proc[j] = "live"
    /\ proc' = [proc EXCEPT ![j] = "gone"]
    /\ UNCHANGED <<runtime, pi, sends, ghost, spent>>

\* finalize up to its await, from the exit event or an adopted job's poll (which a
\* closing runtime has stopped).
Finalize(j) ==
    /\ phase \in {"up", "parked", "closing", "leaving"}
    /\ IsLive(j) /\ proc[j] = "gone" /\ j \notin finalizing
    /\ jobs[j].adopted => ~Closing
    /\ finalizing' = finalizing \cup {j}
    /\ jobs' = [jobs EXCEPT ![j].state = "stopping"]
    /\ UNCHANGED <<proc, spawning, killers, reclean, outbox, binding, reads, phase, record, pi,
                   sends, ghost, spent>>

\* Mutant of Suppressed: by the claim as it was before the group drained.
SuppressedUnclaimed(job) == Closing \/ job.delivered

\* Whether finalize keeps a job's end to itself.
Suppressed(job) == Closing \/ job.claimed \/ job.delivered

Ended(job, dirty) ==
    [job EXCEPT !.state = "done", !.dirty = dirty,
                !.attempts = IF Suppressed(job) THEN @ ELSE @ + 1]

\* finalize after the group drained: the record is read again, since a kill may
\* have claimed the job meanwhile.
Finalized(j) ==
    /\ j \in finalizing /\ phase # "down"
    /\ finalizing' = finalizing \ {j}
    /\ \E dirty \in BOOLEAN :
          jobs' = [jobs EXCEPT ![j] = Ended(@, dirty)]
    /\ IF Suppressed(jobs[j])
         THEN UNCHANGED <<outbox, reads>>
         ELSE Flush(outbox \cup {j}, jobs', binding)
    /\ UNCHANGED <<proc, spawning, killers, reclean, binding, phase, record, pi, sends, ghost,
                   spent>>

------------------------------------------------------------------------------
(* shell_job kill *)

\* stopJob: the job is claimed, so that its end is not told as well.
Kill(j) ==
    /\ phase = "up" /\ busy /\ IsLive(j) /\ Spend("kill")
    /\ jobs[j].adopted => proc[j] = "live"
    /\ jobs' = [jobs EXCEPT ![j].claimed = TRUE, ![j].state = "stopping"]
    /\ killers' = [killers EXCEPT ![j] = @ + 1]
    /\ UNCHANGED <<proc, spawning, finalizing, reclean, outbox, binding, reads, phase, record, pi,
                   sends, ghost>>

\* The end came in time: the tool's result tells it.
KillTold(j) ==
    /\ killers[j] > 0 /\ IsDone(j) /\ phase # "down"
    /\ killers' = [killers EXCEPT ![j] = @ - 1]
    /\ ghost' = [ghost EXCEPT !.killed = @ \cup {j}]
    /\ UNCHANGED <<jobs, proc, spawning, finalizing, reclean, outbox, binding, reads, phase, record,
                   pi, sends, spent>>

\* It did not: the claim is taken back, and the completion will tell it.
KillWaived(j) ==
    /\ killers[j] > 0 /\ IsLive(j) /\ phase # "down"
    /\ killers' = [killers EXCEPT ![j] = @ - 1]
    /\ jobs' = [jobs EXCEPT ![j].claimed = FALSE]
    /\ ghost' = [ghost EXCEPT !.waived = @ \cup {j}]
    /\ UNCHANGED <<proc, spawning, finalizing, reclean, outbox, binding, reads, phase, record, pi,
                   sends, spent>>

\* recleanFinishedJob before its await keeps the record it was given ...
Reclean(j) ==
    /\ phase = "up" /\ busy /\ IsDone(j) /\ jobs[j].dirty /\ ~jobs[j].adopted
    /\ reclean[j] = NoJob /\ Spend("reclean")
    /\ reclean' = [reclean EXCEPT ![j] = jobs[j]]
    /\ UNCHANGED <<jobs, proc, spawning, finalizing, killers, outbox, binding, reads, phase, record,
                   pi, sends, ghost>>

\* ... and after it, when the group is gone, writes that record back.
Recleaned(j) ==
    /\ reclean[j] # NoJob /\ phase # "down"
    /\ reclean' = [reclean EXCEPT ![j] = NoJob]
    /\ \/ UNCHANGED <<jobs, ghost>>
       \/ /\ jobs' = [jobs EXCEPT ![j] = [reclean[j] EXCEPT !.dirty = FALSE]]
          /\ ghost' = [ghost EXCEPT !.rewrote =
                IF jobs[j] = reclean[j] THEN @ ELSE @ \cup {j}]
    /\ UNCHANGED <<proc, spawning, finalizing, killers, outbox, binding, reads, phase, record, pi,
                   sends, spent>>

------------------------------------------------------------------------------
(* Reload, restart, quit *)

\* Pi refuses /reload while a turn runs.
Park ==
    /\ phase = "up" /\ ~busy /\ Spend("reload")
    /\ phase' = "parked"
    /\ binding' = 0
    /\ UNCHANGED <<jobs, proc, spawning, finalizing, killers, reclean, outbox, reads, record, pi,
                   sends, ghost>>

\* session_start after a reload: takeReload, attachDelivery, reconcile, flush.
Attach ==
    /\ phase = "parked"
    /\ phase' = "up"
    /\ binding' = spent["reload"] + spent["restart"] + 1
    /\ Reconcile(jobs, outbox, binding')
    /\ UNCHANGED <<proc, spawning, finalizing, killers, reclean, record, pi, sends, ghost, spent>>

\* beginClosing for a quit, for a restart that auto-update announced while the
\* session was idle, or (parked) because no reload claimed the runtime.
BeginClosing(to) ==
    /\ \/ to = "closing" /\ phase \in {"up", "parked"}
       \/ /\ to = "leaving" /\ phase = "up" /\ ~busy /\ \A j \in Jobs : killers[j] = 0
          /\ Spend("restart")
    /\ to = "closing" => UNCHANGED spent
    /\ phase' = to
    /\ binding' = 0
    /\ outbox' = {}
    /\ UNCHANGED <<jobs, proc, spawning, finalizing, killers, reclean, reads, record, pi, sends,
                   ghost>>

\* stopEverything: no process of the session stays.
StopEverything ==
    /\ phase \in {"closing", "leaving"}
    /\ phase' = "over"
    /\ proc' = [j \in Jobs |-> IF proc[j] = "live" THEN "gone" ELSE proc[j]]
    /\ jobs' = [j \in Jobs |-> IF IsLive(j) THEN [jobs[j] EXCEPT !.state = "done"] ELSE jobs[j]]
    /\ UNCHANGED <<spawning, finalizing, killers, reclean, outbox, binding, reads, record, pi, sends,
                   ghost, spent>>

\* toHandoverJob: a job that is stopping has ended or will, so it goes as running.
Saved(job) ==
    IF job.state = "done" THEN job ELSE [job EXCEPT !.state = "running", !.dirty = FALSE]

\* handOver: the record is written, the groups stay, and this Pi's memory ends.
HandOver ==
    /\ phase = "leaving" /\ \E j \in Jobs : Held(j)
    /\ phase' = "down"
    /\ record' = [j \in Jobs |-> IF Held(j) THEN Saved(jobs[j]) ELSE NoJob]
    /\ proc' = [j \in Jobs |-> IF j \in spawning THEN "gone" ELSE proc[j]]
    /\ jobs' = NoJobs
    /\ spawning' = {} /\ finalizing' = {} /\ reads' = {} /\ reclean' = NoJobs
    /\ busy' = FALSE /\ settled' = FALSE
    /\ queue' = [j \in Jobs |-> 0]
    /\ UNCHANGED <<killers, outbox, binding, history, sends, ghost, spent>>

\* Mutant of FromHandover: the finished count as delivered.
FromHandoverDelivered(job) ==
    [job EXCEPT !.adopted = TRUE, !.delivered = @ \/ job.state = "done",
                !.attempts = IF job.state = "done" /\ ~job.claimed /\ @ = 0 THEN 1 ELSE @]

\* jobsFromHandover: what was never acknowledged counts as attempted, so that the
\* reconcile looks for it in the history.
FromHandover(job) ==
    [job EXCEPT !.adopted = TRUE,
                !.attempts = IF job.state = "done" /\ ~job.delivered /\ ~job.claimed /\ @ = 0
                               THEN 1 ELSE @]

\* firstLook and finalize: a job that ended in the gap ends now, its group untouched.
FirstLook(j, job) ==
    IF job.state = "running" /\ proc[j] = "gone"
      THEN [job EXCEPT !.state = "done",
                       !.attempts = IF job.claimed \/ job.delivered THEN @ ELSE @ + 1]
      ELSE job

Adopted(j) == IF record[j] = NoJob THEN NoJob ELSE FirstLook(j, FromHandover(record[j]))
EndedInGap == {j \in Jobs : record[j] # NoJob /\ record[j].state = "running"
                             /\ Adopted(j).state = "done" /\ Adopted(j).attempts > record[j].attempts}

\* session_start of the next process: claim the record, adopt, attach, reconcile.
Adopt ==
    /\ phase = "down"
    /\ phase' = "up"
    /\ record' = NoJobs
    /\ binding' = spent["reload"] + spent["restart"] + 1
    /\ Reconcile([j \in Jobs |-> Adopted(j)], EndedInGap, binding')
    /\ UNCHANGED <<proc, spawning, finalizing, killers, reclean, pi, sends, ghost, spent>>

\* claimForSession refuses the record: it is bad or names another session id, or its log
\* folder is gone (its jobs run on), or it is stale (those that run are stopped).  The
\* runtime is a new one and knows none of the jobs; only the log tells of it.
Refuse ==
    /\ phase = "down"
    /\ phase' = "up"
    /\ record' = NoJobs
    /\ binding' = spent["reload"] + spent["restart"] + 1
    /\ proc' \in {proc, [j \in Jobs |-> IF record[j] # NoJob /\ proc[j] = "live" THEN "gone"
                                                                          ELSE proc[j]]}
    /\ ghost' = [ghost EXCEPT
          !.silent = @ \cup {j \in Jobs : record[j] # NoJob /\ record[j].state = "done"
                                           /\ record[j].claimed},
          !.refused = @ \cup {j \in Jobs : record[j] # NoJob}]
    /\ UNCHANGED <<jobs, spawning, finalizing, killers, reclean, outbox, reads, pi, sends, spent>>

------------------------------------------------------------------------------

JobStep(j) ==
    \/ StartJob(j) \/ Spawned(j) \/ Exit(j) \/ Finalize(j) \/ Finalized(j)
    \/ Kill(j) \/ KillTold(j) \/ KillWaived(j) \/ Reclean(j) \/ Recleaned(j)
    \/ Enter(j) \/ (\E b \in Bindings : ReadTail(j, b))

SessionStep ==
    \/ Prompt \/ TurnEnds \/ Abort \/ AgentSettled
    \/ Park \/ Attach \/ (\E to \in {"closing", "leaving"} : BeginClosing(to))
    \/ StopEverything \/ HandOver \/ Adopt \/ Refuse

Next == (\E j \in Jobs : JobStep(j)) \/ SessionStep

Spec == Init /\ [][Next]_vars

\* Logs are read, turns and cleanups end, a reload or a restart comes back, a
\* closing session closes, and the user goes on with the session.
Fairness ==
    /\ \A j \in Jobs :
          /\ WF_vars(\E b \in Bindings : ReadTail(j, b))
          /\ WF_vars(Enter(j)) /\ WF_vars(Finalized(j))
    /\ WF_vars(AgentSettled) /\ WF_vars(TurnEnds) /\ WF_vars(Prompt)
    /\ WF_vars(Attach) /\ WF_vars(Adopt) /\ WF_vars(StopEverything)

FairSpec == Spec /\ Fairness

------------------------------------------------------------------------------
(* Properties *)

TypeOK ==
    /\ jobs \in [Jobs -> JobRecords \cup {NoJob}]
    /\ record \in [Jobs -> JobRecords \cup {NoJob}]
    /\ reclean \in [Jobs -> JobRecords \cup {NoJob}]
    /\ proc \in [Jobs -> {"none", "live", "gone"}]
    /\ spawning \subseteq Jobs /\ finalizing \subseteq Jobs /\ outbox \subseteq Jobs
    /\ killers \in [Jobs -> 0 .. Bound["kill"]]
    /\ binding \in Bindings \cup {0}
    /\ reads \subseteq Jobs \X Bindings
    /\ phase \in {"up", "parked", "closing", "leaving", "down", "over"}
    /\ busy \in BOOLEAN /\ settled \in BOOLEAN
    /\ \A f \in {queue, history, sends} : f \in [Jobs -> Nat]

\* What has become of a job, as the conversation and the job list tell it.
Fate(j) ==
    LET job == IF phase = "down" THEN record[j] ELSE jobs[j]
    IN  IF history[j] > 0 THEN "told"
        ELSE IF job = NoJob
          THEN IF j \in ghost.dropped THEN "dropped"
               ELSE IF j \in ghost.silent THEN "quiet"
               ELSE IF j \in ghost.refused THEN "refused" ELSE "new"
        ELSE IF job.state # "done" THEN "working"
        ELSE IF job.claimed THEN "quiet"
        ELSE IF phase = "over" THEN "over"
        ELSE IF job.failed THEN "failed" ELSE "owed"

Promise == INSTANCE JobCompletions WITH fate <- [j \in Jobs |-> Fate(j)], told <- history

\* The detailed runtime implements the promise: each completion is told at most
\* once and nothing that was told, killed or over is told later, through aborts,
\* reloads and restarts (shell-jobs.ts: "One bounded completion message per job").
TellsAtMostOnce == Promise!Spec

\* No completion stays owed for ever: it is told, or shown as failed or dropped, or
\* the session ends ("a user abort cannot silently swallow it"), or the process after a
\* restart refuses the record.
TellsOrShows == Promise!Settles

\* Three attempts at most, over all processes that held the job, unless a record
\* that a kill had read before its await was written back.
BoundedSends == \A j \in Jobs : sends[j] <= MaxAttempts \/ j \in ghost.rewrote

\* The records say how a job was told, through kills, aborts, reloads, restarts and records
\* written back.  A kill that told of a job in its result leaves no message of it, except
\* that another kill gave up and promised one (shell-jobs-manage.ts); and a job counts as
\* delivered only if the history has its completion (shell-jobs-delivery.ts, acknowledge).
ToldAsRecorded ==
    /\ \A j \in ghost.killed \ ghost.waived :
          history[j] = 0 /\ queue[j] = 0 /\ j \notin outbox
    /\ \A j \in Jobs :
          /\ Held(j) /\ jobs[j].delivered => history[j] > 0
          /\ record[j] # NoJob /\ record[j].delivered => history[j] > 0
=============================================================================
