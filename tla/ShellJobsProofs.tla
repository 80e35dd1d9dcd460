--------------------------- MODULE ShellJobsProofs ---------------------------
(***************************************************************************)
(* What MCJobs checks of the runtime of background jobs, proved for any number *)
(* of jobs, aborts, reloads, restarts and kills: how often the completion of   *)
(* a job is sent, that the records say how each job was told, and that the     *)
(* runtime implements JobCompletions, the promise made to the conversation.    *)
(***************************************************************************)
EXTENDS MCJobs, JobHandoverProofs, TLAPS

------------------------------------------------------------------------------
(* The inductive invariant *)

\* What the variables hold, as far as messages depend on it.
JobTypes ==
    /\ jobs \in [Jobs -> R!JobRecords \cup {NoJob}]
    /\ record \in [Jobs -> R!JobRecords \cup {NoJob}]
    /\ reclean \in [Jobs -> R!JobRecords \cup {NoJob}]
    /\ proc \in [Jobs -> {"none", "live", "gone"}]
    /\ spawning \subseteq Jobs /\ finalizing \subseteq Jobs /\ outbox \subseteq Jobs
    /\ killers \in [Jobs -> Nat] /\ queue \in [Jobs -> Nat]
    /\ history \in [Jobs -> Nat] /\ sends \in [Jobs -> Nat]
    /\ phase \in {"up", "parked", "closing", "leaving", "down", "over"}
    /\ ghost \in [killed : SUBSET Jobs, waived : SUBSET Jobs, rewrote : SUBSET Jobs,
                  dropped : SUBSET Jobs, silent : SUBSET Jobs, refused : SUBSET Jobs]

\* Memory and hand-over file are not used at the same time, and a runtime that closes sends
\* nothing.
Apart ==
    /\ phase \notin {"up", "parked"} => outbox = {}
    /\ phase = "down" => /\ jobs = R!NoJobs /\ reclean = R!NoJobs
                         /\ spawning = {} /\ finalizing = {}
    /\ phase # "down" => record = R!NoJobs

\* The conversation has not heard of the end of a job, and will not by what is under way.
Untold(j) == history[j] = 0 /\ queue[j] = 0 /\ j \notin outbox

\* A kill has told of the job, or will, and no kill gave up on it.
Told(j) == (j \in ghost.killed \/ killers[j] > 0) /\ j \notin ghost.waived

\* There is nothing of a job before its process is spawned.
Unstarted(j) ==
    proc[j] = "none" \/ j \in spawning =>
        /\ jobs[j] = NoJob /\ record[j] = NoJob /\ reclean[j] = NoJob
        /\ j \notin finalizing /\ killers[j] = 0 /\ j \notin ghost.killed
        /\ sends[j] = 0 /\ Untold(j)
        /\ proc[j] = "none" => j \notin spawning

\* A job whose cleanup is awaited has not ended, or the session is closing; one whose group a
\* kill cleans has ended, and was claimed or not.
Awaiting(j) ==
    /\ j \in finalizing => R!Held(j) /\ (R!IsLive(j) \/ R!Closing)
    /\ reclean[j] # NoJob =>
          /\ reclean[j].state = "done"
          /\ R!Held(j) => R!IsDone(j) /\ jobs[j].claimed = reclean[j].claimed

\* A record of a job: what runs, or is claimed by a kill, has had no attempt; what a kill told
\* is claimed; and what counts as delivered is in the history.
Kept(j, r) ==
    r # NoJob =>
        /\ r.state # "done" \/ r.claimed => r.attempts = 0 /\ Untold(j)
        /\ Told(j) => r.claimed
        /\ r.delivered => history[j] > 0

\* The record counts each message that was sent or is about to be.
Counted(j) ==
    j \notin ghost.rewrote =>
        /\ sends[j] <= MaxAttempts
        /\ jobs[j] # NoJob => sends[j] + (IF j \in outbox THEN 1 ELSE 0) <= jobs[j].attempts
        /\ record[j] # NoJob => sends[j] <= record[j].attempts

\* What is about to be sent has a record, and what a kill told is told by nobody else.
Sent(j) ==
    /\ j \in outbox => R!Held(j)
    /\ j \in ghost.killed \ ghost.waived => Untold(j)

JobInv(j) ==
    /\ Unstarted(j) /\ Awaiting(j) /\ Counted(j) /\ Sent(j)
    /\ Kept(j, jobs[j]) /\ Kept(j, record[j]) /\ Kept(j, reclean[j])

JobsInv == JobTypes /\ Apart /\ \A j \in Jobs : JobInv(j)

------------------------------------------------------------------------------
(* What the code does to a record *)

\* What messages depend on of a record.
Says(r, state, claimed, attempts, delivered) ==
    /\ r \in R!JobRecords
    /\ r.state = state /\ r.claimed = claimed /\ r.attempts = attempts /\ r.delivered = delivered

\* A record is one of a job, and no other value is.
LEMMA RecordFields ==
  ASSUME NEW r \in R!JobRecords
  PROVE  /\ r # NoJob
         /\ r.state \in {"running", "stopping", "done"} /\ r.attempts \in 0 .. MaxAttempts
         /\ r.claimed \in BOOLEAN /\ r.delivered \in BOOLEAN
BY RuntimeAssumption DEF R!JobRecords

\* There is a limit, of one attempt or more.
LEMMA Limit == MaxAttempts \in Nat /\ MaxAttempts > 0
BY RuntimeAssumption

\* A record with other attempts.
LEMMA AttemptsSet ==
  ASSUME NEW r \in R!JobRecords, NEW n \in 0 .. MaxAttempts, NEW d \in BOOLEAN
  PROVE  /\ Says([r EXCEPT !.attempts = n], r.state, r.claimed, n, r.delivered)
         /\ Says([r EXCEPT !.state = "done", !.attempts = n], "done", r.claimed, n, r.delivered)
         /\ Says([r EXCEPT !.state = "done", !.dirty = d, !.attempts = n],
                 "done", r.claimed, n, r.delivered)
         /\ Says([r EXCEPT !.adopted = TRUE, !.attempts = n], r.state, r.claimed, n, r.delivered)
BY DEF Says, R!JobRecords

\* The attempts are a number, and one more of them may be made below the limit.
LEMMA OneMore ==
  ASSUME NEW n \in 0 .. MaxAttempts
  PROVE  n \in Nat /\ 0 \in 0 .. MaxAttempts /\ 1 \in 0 .. MaxAttempts
         /\ (n < MaxAttempts => n + 1 \in 0 .. MaxAttempts)
BY Limit

\* The record of a job that starts.
LEMMA StartedSays == Says(R!Started, "running", FALSE, 0, FALSE)
<1>1. 0 \in 0 .. MaxAttempts
  BY Limit
<1>2. QED
  BY <1>1 DEF R!Started, R!JobRecords, Says

\* acknowledgeCompletion
LEMMA AcknowledgedSays ==
  ASSUME NEW r \in R!JobRecords
  PROVE  Says(R!Acknowledged(r), r.state, r.claimed, r.attempts, TRUE)
BY DEF Says, R!Acknowledged, R!JobRecords

\* An attempt more, and the last of them.
LEMMA AttemptSays ==
  ASSUME NEW r \in R!JobRecords
  PROVE  /\ r.attempts < MaxAttempts =>
              Says([r EXCEPT !.attempts = @ + 1], r.state, r.claimed, r.attempts + 1, r.delivered)
         /\ Says([r EXCEPT !.failed = TRUE], r.state, r.claimed, r.attempts, r.delivered)
<1>1. r.attempts < MaxAttempts =>
        Says([r EXCEPT !.attempts = @ + 1], r.state, r.claimed, r.attempts + 1, r.delivered)
  BY RecordFields, OneMore, AttemptsSet
<1>2. Says([r EXCEPT !.failed = TRUE], r.state, r.claimed, r.attempts, r.delivered)
  BY DEF Says, R!JobRecords
<1>3. QED
  BY <1>1, <1>2

\* finalize, before its await and after.
LEMMA FinalizeSays ==
  ASSUME NEW r \in R!JobRecords, NEW dirty \in BOOLEAN
  PROVE  /\ Says([r EXCEPT !.state = "stopping"], "stopping", r.claimed, r.attempts, r.delivered)
         /\ R!Suppressed(r) => Says(R!Ended(r, dirty), "done", r.claimed, r.attempts, r.delivered)
         /\ ~R!Suppressed(r) /\ r.attempts < MaxAttempts =>
              Says(R!Ended(r, dirty), "done", r.claimed, r.attempts + 1, r.delivered)
<1>1. Says([r EXCEPT !.state = "stopping"], "stopping", r.claimed, r.attempts, r.delivered)
  BY DEF Says, R!JobRecords
<1>2. CASE R!Suppressed(r)
  <2>1. R!Ended(r, dirty) = [r EXCEPT !.state = "done", !.dirty = dirty, !.attempts = r.attempts]
    BY <1>2 DEF R!Ended
  <2>2. Says([r EXCEPT !.state = "done", !.dirty = dirty, !.attempts = r.attempts],
             "done", r.claimed, r.attempts, r.delivered)
    BY RecordFields, AttemptsSet
  <2>3. QED
    BY <1>1, <1>2, <2>1, <2>2
<1>3. CASE ~R!Suppressed(r)
  <2>1. R!Ended(r, dirty) = [r EXCEPT !.state = "done", !.dirty = dirty, !.attempts = r.attempts + 1]
    BY <1>3 DEF R!Ended
  <2>2. r.attempts < MaxAttempts =>
          Says([r EXCEPT !.state = "done", !.dirty = dirty, !.attempts = r.attempts + 1],
               "done", r.claimed, r.attempts + 1, r.delivered)
    BY RecordFields, OneMore, AttemptsSet
  <2>3. QED
    BY <1>1, <1>3, <2>1, <2>2
<1>4. QED
  BY <1>2, <1>3

\* stopJob claims a job, and takes its claim back.
LEMMA ClaimSays ==
  ASSUME NEW r \in R!JobRecords
  PROVE  /\ Says([r EXCEPT !.claimed = TRUE, !.state = "stopping"],
                 "stopping", TRUE, r.attempts, r.delivered)
         /\ Says([r EXCEPT !.claimed = FALSE], r.state, FALSE, r.attempts, r.delivered)
BY DEF Says, R!JobRecords

\* recleanFinishedJob, stopEverything and toHandoverJob.
LEMMA EndSays ==
  ASSUME NEW r \in R!JobRecords
  PROVE  /\ Says([r EXCEPT !.dirty = FALSE], r.state, r.claimed, r.attempts, r.delivered)
         /\ Says([r EXCEPT !.state = "done"], "done", r.claimed, r.attempts, r.delivered)
         /\ Says(R!Saved(r), IF r.state = "done" THEN "done" ELSE "running", r.claimed,
                 r.attempts, r.delivered)
BY DEF Says, R!JobRecords, R!Saved

\* A job that another process takes over is what its record says; it has an attempt more only if
\* it ended and nobody claimed it.
LEMMA AdoptedSays ==
  ASSUME NEW j, record[j] \in R!JobRecords,
         record[j].state # "done" \/ record[j].claimed => record[j].attempts = 0
  PROVE  /\ R!Adopted(j) \in R!JobRecords
         /\ R!Adopted(j).claimed = record[j].claimed /\ R!Adopted(j).delivered = record[j].delivered
         /\ R!Adopted(j).attempts >= record[j].attempts
         /\ R!Adopted(j).state # "done" => record[j].state # "done"
         /\ R!Adopted(j).state # "done" \/ R!Adopted(j).claimed =>
              R!Adopted(j).attempts = record[j].attempts
<1> DEFINE r == record[j]
           f == R!FromHandover(r)
<1>1. r # NoJob /\ r \in R!JobRecords /\ r.attempts \in 0 .. MaxAttempts
  BY RecordFields
<1>2. /\ f \in R!JobRecords /\ f.state = r.state /\ f.claimed = r.claimed
      /\ f.delivered = r.delivered
      /\ f.attempts = IF r.state = "done" /\ ~r.delivered /\ ~r.claimed /\ r.attempts = 0
                        THEN 1 ELSE r.attempts
  <2> DEFINE n == IF r.state = "done" /\ ~r.delivered /\ ~r.claimed /\ r.attempts = 0
                    THEN 1 ELSE r.attempts
  <2>1. f = [r EXCEPT !.adopted = TRUE, !.attempts = n]
    BY DEF R!FromHandover
  <2>2. n \in 0 .. MaxAttempts
    BY <1>1, OneMore
  <2> HIDE DEF n, r, f
  <2>3. Says(f, r.state, r.claimed, n, r.delivered)
    BY <1>1, <2>1, <2>2, AttemptsSet
  <2>4. QED
    BY <2>3 DEF Says, n
<1>3. R!Adopted(j) = R!FirstLook(j, f)
  BY <1>1 DEF R!Adopted
<1> HIDE DEF r, f
<1>4. CASE f.state = "running" /\ proc[j] = "gone"
  <2>1. r.attempts = 0 /\ f.attempts = 0
    BY <1>2, <1>4 DEF r
  <2>2. /\ R!Adopted(j) \in R!JobRecords /\ R!Adopted(j).state = "done"
        /\ R!Adopted(j).claimed = f.claimed /\ R!Adopted(j).delivered = f.delivered
        /\ R!Adopted(j).attempts = IF f.claimed \/ f.delivered THEN 0 ELSE 1
    <3> DEFINE n == IF f.claimed \/ f.delivered THEN 0 ELSE 1
    <3>1. R!Adopted(j) = [f EXCEPT !.state = "done", !.attempts = n]
      BY <1>3, <1>4, <2>1 DEF R!FirstLook
    <3>2. n \in 0 .. MaxAttempts
      BY <1>1, OneMore
    <3> HIDE DEF n
    <3>3. Says(R!Adopted(j), "done", f.claimed, n, f.delivered)
      BY <1>2, <3>1, <3>2, AttemptsSet
    <3>4. QED
      BY <3>3 DEF Says, n
  <2>3. QED
    BY <1>2, <2>1, <2>2 DEF r
<1>5. CASE ~(f.state = "running" /\ proc[j] = "gone")
  <2>1. R!Adopted(j) = f
    BY <1>3, <1>5 DEF R!FirstLook
  <2>2. QED
    BY <1>1, <1>2, <2>1 DEF r
<1>6. QED
  BY <1>4, <1>5

\* What reconcileDeliveries does to a record: a job that has ended gets at most one attempt more,
\* if it is not about to be sent, and is acknowledged only if the history has it.
Moved(next, j, r, box) ==
    IF r = NoJob THEN next = NoJob
    ELSE /\ next \in R!JobRecords /\ next.state = r.state /\ next.claimed = r.claimed
         /\ next.delivered => r.delivered \/ history[j] > 0
         /\ \/ next.attempts = r.attempts
            \/ /\ next.attempts = r.attempts + 1 /\ r.attempts # 0 /\ j \notin box
               /\ r.state = "done" /\ ~(history[j] > 0)
         /\ r.state # "done" \/ (j \in box /\ ~(history[j] > 0)) => next = r

\* reconcileDeliveries, for one job.
LEMMA ReconciledSays ==
  ASSUME NEW j, NEW r \in R!JobRecords \cup {NoJob}, NEW box
  PROVE  Moved(R!Reconciled(j, r, box), j, r, box)
<1>1. CASE r = NoJob
  BY <1>1 DEF R!Reconciled, Moved
<1>2. CASE r # NoJob
  <2>1. r \in R!JobRecords /\ r.attempts \in 0 .. MaxAttempts
    BY <1>2, RecordFields
  <2>2. Says(R!Acknowledged(r), r.state, r.claimed, r.attempts, TRUE)
    BY <2>1, AcknowledgedSays
  <2>3. /\ r.attempts < MaxAttempts =>
              Says([r EXCEPT !.attempts = @ + 1], r.state, r.claimed, r.attempts + 1, r.delivered)
        /\ Says([r EXCEPT !.failed = TRUE], r.state, r.claimed, r.attempts, r.delivered)
    BY <2>1, AttemptSays
  <2>4. QED
    BY <1>2, <2>1, <2>2, <2>3, Limit DEF R!Reconciled, Says, Moved
<1>3. QED
  BY <1>1, <1>2

------------------------------------------------------------------------------
(* Steps *)

\* Nothing about a job changes, except that the session may be closing now.
Same(i) ==
    /\ jobs'[i] = jobs[i] /\ record'[i] = record[i] /\ reclean'[i] = reclean[i]
    /\ proc'[i] = proc[i] /\ killers'[i] = killers[i]
    /\ queue'[i] = queue[i] /\ history'[i] = history[i] /\ sends'[i] = sends[i]
    /\ i \in spawning' <=> i \in spawning
    /\ i \in finalizing' <=> i \in finalizing
    /\ i \in outbox' <=> i \in outbox
    /\ i \in ghost'.killed <=> i \in ghost.killed
    /\ i \in ghost'.waived <=> i \in ghost.waived
    /\ i \in ghost'.rewrote <=> i \in ghost.rewrote

\* Such a job keeps its invariant.
LEMMA SameKeeps ==
  ASSUME NEW i, JobInv(i), Same(i), R!Closing => R!Closing'
  PROVE  JobInv(i)'
<1>1. Unstarted(i)' /\ Counted(i)' /\ Sent(i)'
  BY DEF JobInv, Unstarted, Counted, Sent, Untold, Same, R!Held
<1>2. Awaiting(i)'
  BY DEF JobInv, Awaiting, Same, R!Held, R!IsLive, R!IsDone
<1>3. Kept(i, jobs[i])' /\ Kept(i, record[i])' /\ Kept(i, reclean[i])'
  BY DEF JobInv, Kept, Told, Untold, Same
<1>4. QED
  BY <1>1, <1>2, <1>3 DEF JobInv

\* A step of one job keeps the invariant if it does so for that job.
LEMMA OneJob ==
  ASSUME JobsInv, NEW j \in Jobs, JobTypes', Apart', JobInv(j)',
         \A i \in Jobs \ {j} : Same(i), R!Closing => R!Closing'
  PROVE  JobsInv'
<1>1. ASSUME NEW i \in Jobs PROVE JobInv(i)'
  <2>1. CASE i = j
    BY <2>1
  <2>2. CASE i # j
    BY <2>2, SameKeeps DEF JobsInv
  <2>3. QED
    BY <2>1, <2>2
<1>2. QED
  BY <1>1 DEF JobsInv

\* At the start there is no job.
LEMMA JobsStart == R!Init => JobsInv
<1> SUFFICES ASSUME R!Init PROVE JobsInv
  OBVIOUS
<1>1. JobTypes /\ Apart
  BY DEF R!Init, R!NoJobs, JobTypes, Apart
<1>2. ASSUME NEW j \in Jobs PROVE JobInv(j)
  BY Limit DEF R!Init, R!NoJobs, R!Held, JobInv, Unstarted, Awaiting, Counted, Sent, Kept, Untold
<1>3. QED
  BY <1>1, <1>2 DEF JobsInv

\* A start reserves its slot.
LEMMA StartKeeps ==
  ASSUME JobsInv, NEW j \in Jobs, R!StartJob(j)
  PROVE  JobsInv'
<1>1. JobTypes' /\ Apart'
  BY DEF JobsInv, JobTypes, Apart, R!StartJob, R!pi
<1>2. \A i \in Jobs \ {j} : Same(i)
  BY DEF JobsInv, JobTypes, R!StartJob, R!pi, Same
<1>3. JobInv(j)'
  BY DEF JobsInv, JobTypes, R!StartJob, R!pi, JobInv, Unstarted, Awaiting, Counted, Sent, Kept,
         Untold, Told, R!Held, R!IsLive, R!IsDone, R!Closing
<1>4. QED
  BY <1>1, <1>2, <1>3, OneJob DEF R!StartJob, R!Closing

\* A job's process ends.
LEMMA ExitKeeps ==
  ASSUME JobsInv, NEW j \in Jobs, R!Exit(j)
  PROVE  JobsInv'
<1> USE DEF R!Exit, R!runtime, R!pi
<1>1. JobTypes' /\ Apart'
  BY DEF JobsInv, JobTypes, Apart
<1>2. \A i \in Jobs \ {j} : Same(i)
  BY DEF JobsInv, JobTypes, Same
<1>3. JobInv(j)'
  BY DEF JobsInv, JobTypes, JobInv, Unstarted, Awaiting, Counted, Sent, Kept,
         Untold, Told, R!Held, R!IsLive, R!IsDone, R!Closing
<1>4. QED
  BY <1>1, <1>2, <1>3, OneJob DEF R!Closing

\* finalize up to its await.
LEMMA FinalizeKeeps ==
  ASSUME JobsInv, NEW j \in Jobs, R!Finalize(j)
  PROVE  JobsInv'
<1> USE DEF R!Finalize, R!pi
<1>0. /\ jobs[j] \in R!JobRecords /\ jobs'[j] # NoJob /\ R!IsLive(j) /\ phase # "down"
      /\ Says(jobs'[j], "stopping", jobs[j].claimed, jobs[j].attempts, jobs[j].delivered)
  <2>1. jobs[j] \in R!JobRecords /\ R!IsLive(j) /\ phase # "down"
    BY DEF JobsInv, JobTypes, R!IsLive, R!Held
  <2>2. jobs'[j] = [jobs[j] EXCEPT !.state = "stopping"]
    BY DEF JobsInv, JobTypes
  <2>3. Says(jobs'[j], "stopping", jobs[j].claimed, jobs[j].attempts, jobs[j].delivered)
    BY <2>1, <2>2, FinalizeSays
  <2>4. QED
    BY <2>1, <2>3, RecordFields DEF Says
<1>1. JobTypes' /\ Apart'
  BY <1>0 DEF JobsInv, JobTypes, Apart, Says
<1>2. \A i \in Jobs \ {j} : Same(i)
  BY DEF JobsInv, JobTypes, Same
<1>3. JobInv(j)'
  BY <1>0 DEF JobsInv, JobTypes, JobInv, Unstarted, Awaiting, Counted, Sent, Kept,
         Untold, Told, R!Held, R!IsLive, R!IsDone, R!Closing, Says
<1>4. QED
  BY <1>1, <1>2, <1>3, OneJob DEF R!Closing

\* finalize after its await: an end that is not suppressed is the job's first attempt.
LEMMA FinalizedKeeps ==
  ASSUME JobsInv, NEW j \in Jobs, R!Finalized(j)
  PROVE  JobsInv'
<1> USE DEF R!Finalized, R!Flush, R!pi
<1>0. /\ jobs[j] \in R!JobRecords /\ jobs'[j] # NoJob /\ phase # "down"
      /\ (R!IsLive(j) \/ R!Closing)
      /\ \A i \in Jobs \ {j} : jobs'[i] = jobs[i]
      /\ R!Suppressed(jobs[j]) =>
           Says(jobs'[j], "done", jobs[j].claimed, jobs[j].attempts, jobs[j].delivered)
      /\ ~R!Suppressed(jobs[j]) =>
           Says(jobs'[j], "done", jobs[j].claimed, jobs[j].attempts + 1, jobs[j].delivered)
  <2>1. /\ jobs[j] \in R!JobRecords /\ phase # "down" /\ (R!IsLive(j) \/ R!Closing)
        /\ R!IsLive(j) => jobs[j].attempts = 0
    BY DEF JobsInv, JobTypes, JobInv, Awaiting, Kept, R!IsLive, R!Held
  <2>2. PICK dirty \in BOOLEAN : jobs' = [jobs EXCEPT ![j] = R!Ended(@, dirty)]
    OBVIOUS
  <2>3. jobs'[j] = R!Ended(jobs[j], dirty) /\ \A i \in Jobs \ {j} : jobs'[i] = jobs[i]
    BY <2>2 DEF JobsInv, JobTypes
  <2>4. ~R!Suppressed(jobs[j]) => jobs[j].attempts < MaxAttempts
    BY <2>1, Limit DEF R!Suppressed
  <2>5. QED
    <3>1. R!Suppressed(jobs[j]) =>
            Says(jobs'[j], "done", jobs[j].claimed, jobs[j].attempts, jobs[j].delivered)
      BY <2>1, <2>3, FinalizeSays
    <3>2. ~R!Suppressed(jobs[j]) =>
            Says(jobs'[j], "done", jobs[j].claimed, jobs[j].attempts + 1, jobs[j].delivered)
      BY <2>1, <2>3, <2>4, FinalizeSays
    <3>3. jobs'[j] \in R!JobRecords
      BY <3>1, <3>2 DEF Says
    <3>4. QED
      BY <2>1, <2>3, <3>1, <3>2, <3>3, RecordFields
<1>1. CASE R!Suppressed(jobs[j])
  <2>1. JobTypes' /\ Apart'
    BY <1>0, <1>1 DEF JobsInv, JobTypes, Apart, Says
  <2>2. \A i \in Jobs \ {j} : Same(i)
    BY <1>0, <1>1 DEF JobsInv, JobTypes, Same
  <2>3. JobInv(j)'
    BY <1>0, <1>1 DEF JobsInv, JobTypes, JobInv, Unstarted, Awaiting, Counted, Sent, Kept,
           Untold, Told, R!Held, R!IsLive, R!IsDone, R!Closing, Says
  <2>4. QED
    BY <2>1, <2>2, <2>3, OneJob DEF R!Closing
<1>2. CASE ~R!Suppressed(jobs[j])
  <2>0. /\ R!IsLive(j) /\ ~R!Closing /\ ~jobs[j].claimed /\ ~jobs[j].delivered
        /\ jobs[j].attempts = 0 /\ (sends[j] = 0 \/ j \in ghost.rewrote)
        /\ outbox' \subseteq outbox \cup {j}
        /\ \A i \in outbox \ {j} : i \in outbox'
    BY <1>0, <1>2 DEF JobsInv, JobTypes, JobInv, Unstarted, Awaiting, Counted, Sent, Kept,
           Untold, Told, R!Held, R!IsLive, R!IsDone, R!Closing, R!Suppressed
  <2>1. JobTypes' /\ Apart'
    BY <1>0, <1>2, <2>0 DEF JobsInv, JobTypes, Apart, Says, R!Closing
  <2>2. \A i \in Jobs \ {j} : Same(i)
    BY <1>0, <1>2, <2>0 DEF JobsInv, JobTypes, Same
  <2>3. JobInv(j)'
    BY <1>0, <1>2, <2>0, Limit DEF Apart, R!NoJobs, JobsInv, JobTypes, JobInv, Unstarted,
           Awaiting, Counted, Sent, Kept,
           Untold, Told, R!Held, R!IsLive, R!IsDone, R!Closing, Says
  <2>4. QED
    BY <2>1, <2>2, <2>3, OneJob DEF R!Closing
<1>3. QED
  BY <1>1, <1>2

\* stopJob claims a job that runs, and has had no attempt.
LEMMA KillKeeps ==
  ASSUME JobsInv, NEW j \in Jobs, R!Kill(j)
  PROVE  JobsInv'
<1> USE DEF R!Kill, R!pi
<1>0. /\ jobs[j] \in R!JobRecords /\ jobs'[j] # NoJob /\ R!IsLive(j)
      /\ Says(jobs'[j], "stopping", TRUE, jobs[j].attempts, jobs[j].delivered)
  <2>1. jobs[j] \in R!JobRecords /\ R!IsLive(j)
    BY DEF JobsInv, JobTypes, R!IsLive, R!Held
  <2>2. jobs'[j] = [jobs[j] EXCEPT !.claimed = TRUE, !.state = "stopping"]
    BY DEF JobsInv, JobTypes
  <2>3. Says(jobs'[j], "stopping", TRUE, jobs[j].attempts, jobs[j].delivered)
    BY <2>1, <2>2, ClaimSays
  <2>4. QED
    BY <2>1, <2>3, RecordFields DEF Says
<1>1. JobTypes' /\ Apart'
  BY <1>0 DEF JobsInv, JobTypes, Apart, Says
<1>2. \A i \in Jobs \ {j} : Same(i)
  BY DEF JobsInv, JobTypes, Same
<1>3. JobInv(j)'
  BY <1>0 DEF Apart, R!NoJobs, JobsInv, JobTypes, JobInv, Unstarted, Awaiting, Counted, Sent, Kept,
         Untold, Told, R!Held, R!IsLive, R!IsDone, R!Closing, Says
<1>4. QED
  BY <1>1, <1>2, <1>3, OneJob DEF R!Closing

\* A kill whose job ended in time tells of it: it is claimed, and nobody else told it.
LEMMA KillToldKeeps ==
  ASSUME JobsInv, NEW j \in Jobs, R!KillTold(j)
  PROVE  JobsInv'
<1> USE DEF R!KillTold, R!pi
<1>0. /\ ghost'.killed = ghost.killed \cup {j} /\ ghost'.waived = ghost.waived
      /\ ghost'.rewrote = ghost.rewrote /\ ghost'.dropped = ghost.dropped
      /\ ghost'.silent = ghost.silent
      /\ ghost' \in [killed : SUBSET Jobs, waived : SUBSET Jobs, rewrote : SUBSET Jobs,
                     dropped : SUBSET Jobs, silent : SUBSET Jobs, refused : SUBSET Jobs]
  BY DEF JobsInv, JobTypes
<1>1. JobTypes' /\ Apart'
  BY <1>0 DEF JobsInv, JobTypes, Apart
<1>2. \A i \in Jobs \ {j} : Same(i)
  BY <1>0 DEF JobsInv, JobTypes, Same
<1>3. JobInv(j)'
  BY <1>0 DEF JobsInv, JobTypes, JobInv, Unstarted, Awaiting, Counted, Sent, Kept,
         Untold, Told, R!Held, R!IsLive, R!IsDone, R!Closing
<1>4. QED
  BY <1>1, <1>2, <1>3, OneJob DEF R!Closing

\* A kill whose job goes on takes its claim back.
LEMMA KillWaivedKeeps ==
  ASSUME JobsInv, NEW j \in Jobs, R!KillWaived(j)
  PROVE  JobsInv'
<1> USE DEF R!KillWaived, R!pi
<1>0. /\ jobs[j] \in R!JobRecords /\ jobs'[j] # NoJob /\ R!IsLive(j)
      /\ Says(jobs'[j], jobs[j].state, FALSE, jobs[j].attempts, jobs[j].delivered)
  <2>1. jobs[j] \in R!JobRecords /\ R!IsLive(j)
    BY DEF JobsInv, JobTypes, R!IsLive, R!Held
  <2>2. jobs'[j] = [jobs[j] EXCEPT !.claimed = FALSE]
    BY DEF JobsInv, JobTypes
  <2>3. Says(jobs'[j], jobs[j].state, FALSE, jobs[j].attempts, jobs[j].delivered)
    BY <2>1, <2>2, ClaimSays
  <2>4. QED
    BY <2>1, <2>3, RecordFields DEF Says
<1>5. /\ ghost'.waived = ghost.waived \cup {j} /\ ghost'.killed = ghost.killed
      /\ ghost'.rewrote = ghost.rewrote
      /\ ghost' \in [killed : SUBSET Jobs, waived : SUBSET Jobs, rewrote : SUBSET Jobs,
                     dropped : SUBSET Jobs, silent : SUBSET Jobs, refused : SUBSET Jobs]
  BY DEF JobsInv, JobTypes
<1>1. JobTypes' /\ Apart'
  BY <1>0, <1>5 DEF JobsInv, JobTypes, Apart, Says
<1>2. \A i \in Jobs \ {j} : Same(i)
  BY <1>5 DEF JobsInv, JobTypes, Same
<1>3. JobInv(j)'
  BY <1>0, <1>5 DEF JobsInv, JobTypes, JobInv, Unstarted, Awaiting, Counted, Sent, Kept,
         Untold, Told, R!Held, R!IsLive, R!IsDone, R!Closing, Says
<1>4. QED
  BY <1>1, <1>2, <1>3, OneJob DEF R!Closing

\* recleanFinishedJob keeps the record of a job that has ended ...
LEMMA RecleanKeeps ==
  ASSUME JobsInv, NEW j \in Jobs, R!Reclean(j)
  PROVE  JobsInv'
<1> USE DEF R!Reclean, R!pi
<1>1. JobTypes' /\ Apart'
  BY DEF JobsInv, JobTypes, Apart
<1>2. \A i \in Jobs \ {j} : Same(i)
  BY DEF JobsInv, JobTypes, Same
<1>3. JobInv(j)'
  BY DEF JobsInv, JobTypes, JobInv, Unstarted, Awaiting, Counted, Sent, Kept,
         Untold, Told, R!Held, R!IsLive, R!IsDone, R!Closing
<1>4. QED
  BY <1>1, <1>2, <1>3, OneJob DEF R!Closing

\* ... and writes it back: what the job list said meanwhile is lost, and the job is one that was
\* written back, unless it said the same.
LEMMA RecleanedKeeps ==
  ASSUME JobsInv, NEW j \in Jobs, R!Recleaned(j)
  PROVE  JobsInv'
<1> USE DEF R!Recleaned, R!pi
<1>1. reclean[j] \in R!JobRecords
  BY DEF JobsInv, JobTypes
<1>2. \A i \in Jobs \ {j} : reclean'[i] = reclean[i]
  BY DEF JobsInv, JobTypes
<1>3. CASE UNCHANGED <<jobs, ghost>>
  <2>1. JobTypes' /\ Apart'
    BY <1>3 DEF JobsInv, JobTypes, Apart
  <2>2. \A i \in Jobs \ {j} : Same(i)
    BY <1>2, <1>3 DEF JobsInv, JobTypes, Same
  <2>3. JobInv(j)'
    BY <1>3 DEF JobsInv, JobTypes, JobInv, Unstarted, Awaiting, Counted, Sent, Kept,
         Untold, Told, R!Held, R!IsLive, R!IsDone, R!Closing
  <2>4. QED
    BY <2>1, <2>2, <2>3, OneJob DEF R!Closing
<1>4. ASSUME jobs' = [jobs EXCEPT ![j] = [reclean[j] EXCEPT !.dirty = FALSE]],
             ghost' = [ghost EXCEPT !.rewrote = IF jobs[j] = reclean[j] THEN @ ELSE @ \cup {j}]
      PROVE  JobsInv'
  <2>0. /\ jobs'[j] # NoJob
        /\ Says(jobs'[j], reclean[j].state, reclean[j].claimed, reclean[j].attempts,
                reclean[j].delivered)
        /\ \A i \in Jobs \ {j} : jobs'[i] = jobs[i]
    <3>1. /\ jobs'[j] = [reclean[j] EXCEPT !.dirty = FALSE]
          /\ \A i \in Jobs \ {j} : jobs'[i] = jobs[i]
      BY <1>4 DEF JobsInv, JobTypes
    <3>2. Says(jobs'[j], reclean[j].state, reclean[j].claimed, reclean[j].attempts,
               reclean[j].delivered)
      BY <1>1, <3>1, EndSays
    <3>3. QED
      BY <3>1, <3>2, RecordFields DEF Says
  <2>5. /\ ghost'.killed = ghost.killed /\ ghost'.waived = ghost.waived
        /\ ghost'.rewrote = IF jobs[j] = reclean[j] THEN ghost.rewrote ELSE ghost.rewrote \cup {j}
        /\ ghost' \in [killed : SUBSET Jobs, waived : SUBSET Jobs, rewrote : SUBSET Jobs,
                       dropped : SUBSET Jobs, silent : SUBSET Jobs, refused : SUBSET Jobs]
    BY <1>4 DEF JobsInv, JobTypes
  <2>1. JobTypes' /\ Apart'
    BY <1>4, <2>0, <2>5 DEF JobsInv, JobTypes, Apart, Says
  <2>2. \A i \in Jobs \ {j} : Same(i)
    BY <1>2, <2>0, <2>5 DEF JobsInv, JobTypes, Same
  <2>3. JobInv(j)'
    BY <1>1, <2>0, <2>5 DEF JobsInv, JobTypes, JobInv, Unstarted, Awaiting, Counted, Sent, Kept,
         Untold, Told, R!Held, R!IsLive, R!IsDone, R!Closing, Says
  <2>4. QED
    BY <2>1, <2>2, <2>3, OneJob DEF R!Closing
<1>5. QED
  BY <1>3, <1>4

\* sendCompletion: what is sent was attempted and is told by nobody else, and it is not about to be
\* sent any more.
LEMMA ReadTailKeeps ==
  ASSUME JobsInv, NEW j \in Jobs, NEW b \in R!Bindings, R!ReadTail(j, b)
  PROVE  JobsInv'
<1> USE DEF R!ReadTail
<1>1. CASE UNCHANGED <<outbox, queue, sends>>
  <2>1. JobTypes' /\ Apart'
    BY <1>1 DEF JobsInv, JobTypes, Apart
  <2>2. \A i \in Jobs : Same(i)
    BY <1>1 DEF Same
  <2>3. QED
    BY <2>1, <2>2, SameKeeps DEF JobsInv, R!Closing
<1>2. CASE outbox' = outbox \ {j} /\ UNCHANGED <<queue, sends>>
  <2>1. JobTypes' /\ Apart'
    BY <1>2 DEF JobsInv, JobTypes, Apart
  <2>2. \A i \in Jobs \ {j} : Same(i)
    BY <1>2 DEF Same
  <2>3. Counted(j)'
    <3>1. sends[j] \in Nat /\ (jobs[j] # NoJob => jobs[j].attempts \in 0 .. MaxAttempts)
      BY RecordFields DEF JobsInv, JobTypes
    <3>2. QED
      BY <1>2, <3>1, Limit DEF JobsInv, JobInv, Counted
  <2>4. (Unstarted(j) /\ Awaiting(j) /\ Sent(j))'
    BY <1>2 DEF JobsInv, JobInv, Unstarted, Awaiting, Sent, Untold, R!Held, R!IsLive, R!IsDone,
       R!Closing
  <2>5. (Kept(j, jobs[j]) /\ Kept(j, record[j]) /\ Kept(j, reclean[j]))'
    BY <1>2 DEF JobsInv, JobInv, Kept, Untold, Told
  <2>6. QED
    BY <2>1, <2>2, <2>3, <2>4, <2>5, OneJob DEF R!Closing, JobInv
<1>3. CASE /\ ~R!Closing /\ j \in outbox /\ outbox' = outbox \ {j}
           /\ R!Held(j) /\ ~jobs[j].delivered /\ ~jobs[j].claimed
           /\ sends' = [sends EXCEPT ![j] = @ + 1]
           /\ queue' = [queue EXCEPT ![j] = @ + 1] \/ UNCHANGED queue
  <2>0. /\ jobs[j] \in R!JobRecords /\ jobs[j].attempts \in 0 .. MaxAttempts
        /\ record[j] = NoJob /\ jobs[j].state = "done"
    BY <1>3, RecordFields DEF Apart, R!NoJobs, JobsInv, JobTypes, JobInv, Unstarted, Awaiting,
           Counted,
           Sent, Kept, Untold, Told, R!Held, R!IsLive, R!IsDone, R!Closing
  <2>1. JobTypes' /\ Apart'
    BY <1>3 DEF JobsInv, JobTypes, Apart
  <2>2. \A i \in Jobs \ {j} : Same(i)
    BY <1>3 DEF JobsInv, JobTypes, Same
  <2>3. Counted(j)'
    BY <1>3, <2>0, Limit DEF JobsInv, JobTypes, JobInv, Counted, R!Held
  <2>4. (Unstarted(j) /\ Awaiting(j) /\ Sent(j))'
    BY <1>3, <2>0 DEF Apart, R!NoJobs, JobsInv, JobTypes, JobInv, Unstarted, Awaiting, Counted,
           Sent, Kept, Untold, Told, R!Held, R!IsLive, R!IsDone, R!Closing
  <2>5. (Kept(j, jobs[j]) /\ Kept(j, record[j]) /\ Kept(j, reclean[j]))'
    BY <1>3, <2>0 DEF Apart, R!NoJobs, JobsInv, JobTypes, JobInv, Unstarted, Awaiting, Counted,
           Sent, Kept, Untold, Told, R!Held, R!IsLive, R!IsDone, R!Closing
  <2>6. QED
    BY <2>1, <2>2, <2>3, <2>4, <2>5, OneJob DEF R!Closing, JobInv
<1>4. QED
  BY <1>1, <1>2, <1>3

\* A message enters the history, and is acknowledged by a runtime that hears it.
LEMMA EnterKeeps ==
  ASSUME JobsInv, NEW j \in Jobs, R!Enter(j)
  PROVE  JobsInv'
<1> USE DEF R!Enter
<1>0. history'[j] > 0 /\ queue[j] > 0 /\ (\A i \in Jobs \ {j} : history'[i] = history[i])
      /\ (\A i \in Jobs \ {j} : queue'[i] = queue[i])
      /\ history' \in [Jobs -> Nat] /\ queue' \in [Jobs -> Nat]
  BY DEF JobsInv, JobTypes
<1>1. CASE UNCHANGED <<jobs, outbox>>
  <2>1. JobTypes' /\ Apart'
    BY <1>0, <1>1 DEF JobsInv, JobTypes, Apart
  <2>2. \A i \in Jobs \ {j} : Same(i)
    BY <1>0, <1>1 DEF Same
  <2>3. JobInv(j)'
    BY <1>0, <1>1 DEF Apart, R!NoJobs, JobsInv, JobTypes, JobInv, Unstarted, Awaiting, Counted,
           Sent, Kept, Untold, Told, R!Held, R!IsLive, R!IsDone, R!Closing
  <2>4. QED
    BY <2>1, <2>2, <2>3, OneJob DEF R!Closing
<1>2. CASE /\ phase = "up" /\ R!Held(j) /\ outbox' = outbox \ {j}
           /\ jobs' = [jobs EXCEPT ![j] = R!Acknowledged(@)]
  <2>0. /\ jobs[j] \in R!JobRecords /\ jobs'[j] # NoJob
        /\ Says(jobs'[j], jobs[j].state, jobs[j].claimed, jobs[j].attempts, TRUE)
        /\ \A i \in Jobs \ {j} : jobs'[i] = jobs[i]
    <3>1. /\ jobs[j] \in R!JobRecords /\ jobs'[j] = R!Acknowledged(jobs[j])
          /\ \A i \in Jobs \ {j} : jobs'[i] = jobs[i]
      BY <1>2 DEF JobsInv, JobTypes, R!Held
    <3>2. Says(jobs'[j], jobs[j].state, jobs[j].claimed, jobs[j].attempts, TRUE)
      BY <3>1, AcknowledgedSays
    <3>3. QED
      BY <3>1, <3>2, RecordFields DEF Says
  <2>1. JobTypes' /\ Apart'
    BY <1>0, <1>2, <2>0 DEF JobsInv, JobTypes, Apart, Says
  <2>2. \A i \in Jobs \ {j} : Same(i)
    BY <1>0, <1>2, <2>0 DEF Same
  <2>3. JobInv(j)'
    BY <1>0, <1>2, <2>0, RecordFields DEF Apart, R!NoJobs, JobsInv, JobTypes, JobInv, Unstarted,
       Awaiting,
           Counted,
           Sent, Kept, Untold, Told, R!Held, R!IsLive, R!IsDone, R!Closing, Says
  <2>4. QED
    BY <2>1, <2>2, <2>3, OneJob DEF R!Closing
<1>3. QED
  BY <1>1, <1>2

\* A job of which there was nothing before has its first record.
LEMMA StartedKeeps ==
  ASSUME NEW i, jobs'[i] = R!Started, record'[i] = NoJob, reclean'[i] = NoJob, proc'[i] # "none",
         i \notin spawning', i \notin finalizing', killers'[i] = 0, i \notin ghost'.killed,
         sends'[i] = 0, Untold(i)', i \notin outbox'
  PROVE  JobInv(i)'
<1>1. Unstarted(i)' /\ Awaiting(i)' /\ Sent(i)'
  BY DEF Unstarted, Awaiting, Sent
<1>2. Counted(i)'
  BY Limit, StartedSays DEF Counted, Says
<1>3. Kept(i, jobs[i])' /\ Kept(i, record[i])' /\ Kept(i, reclean[i])'
  BY StartedSays DEF Kept, Told, Says
<1>4. QED
  BY <1>1, <1>2, <1>3 DEF JobInv

\* The spawn event while the session goes on: the job has its first record, and the jobs that are
\* trimmed have ended, and are not about to be sent any more.
SpawnedMoves(j, gone) ==
    /\ \A i \in gone : i # j /\ R!IsDone(i)
    /\ \A i \in Jobs : jobs'[i] = IF i \in gone THEN NoJob ELSE IF i = j THEN R!Started ELSE jobs[i]
    /\ jobs' \in [Jobs -> R!JobRecords \cup {NoJob}]
    /\ outbox' = outbox \ gone
    /\ ghost'.killed = ghost.killed /\ ghost'.waived = ghost.waived /\ ghost'.rewrote = ghost.rewrote
    /\ ghost'.dropped = ghost.dropped \cup {i \in gone : R!IsOwed(jobs[i])}
    /\ ghost'.silent = ghost.silent \cup {i \in gone : jobs[i].claimed}
    /\ ghost'.refused = ghost.refused
    /\ ghost' \in [killed : SUBSET Jobs, waived : SUBSET Jobs, rewrote : SUBSET Jobs,
                   dropped : SUBSET Jobs, silent : SUBSET Jobs, refused : SUBSET Jobs]

\* That is what it does.
LEMMA SpawnedDoes ==
  ASSUME JobsInv, NEW j \in Jobs, R!Spawned(j), ~R!Closing
  PROVE  /\ UNCHANGED <<finalizing, killers, reclean, phase, record, queue, history, sends, proc>>
         /\ spawning' = spawning \ {j} /\ j \in spawning /\ phase # "down"
         /\ \E gone \in SUBSET Jobs : SpawnedMoves(j, gone)
<1> USE DEF R!Spawned, R!pi
<1> DEFINE js == [jobs EXCEPT ![j] = R!Started]
<1>1. PICK gone \in SUBSET Jobs :
        /\ R!Trimmed(js, gone)
        /\ jobs' = [i \in Jobs |-> IF i \in gone THEN NoJob ELSE js[i]]
        /\ outbox' = outbox \ gone
        /\ ghost' = [ghost EXCEPT !.dropped = @ \cup {i \in gone : R!IsOwed(jobs[i])},
                                  !.silent = @ \cup {i \in gone : jobs[i].claimed}]
  OBVIOUS
<1>2. Says(R!Started, "running", FALSE, 0, FALSE)
  BY StartedSays
<1>3. \A i \in Jobs : js[i] = IF i = j THEN R!Started ELSE jobs[i]
  BY DEF JobsInv, JobTypes
<1>4. \A i \in gone : i # j /\ R!IsDone(i)
  <2>1. \A i \in gone : js[i] # NoJob /\ js[i].state = "done"
    BY <1>1 DEF R!Trimmed, R!Goes
  <2>2. QED
    BY <1>2, <1>3, <2>1 DEF Says, R!IsDone, R!Held
<1>5. /\ ghost'.killed = ghost.killed /\ ghost'.waived = ghost.waived
      /\ ghost'.rewrote = ghost.rewrote
      /\ ghost'.dropped = ghost.dropped \cup {i \in gone : R!IsOwed(jobs[i])}
      /\ ghost'.silent = ghost.silent \cup {i \in gone : jobs[i].claimed}
      /\ ghost'.refused = ghost.refused
      /\ ghost' \in [killed : SUBSET Jobs, waived : SUBSET Jobs, rewrote : SUBSET Jobs,
                     dropped : SUBSET Jobs, silent : SUBSET Jobs, refused : SUBSET Jobs]
  BY <1>1 DEF JobsInv, JobTypes
<1>6. UNCHANGED <<finalizing, killers, reclean, phase, record, queue, history, sends, proc>>
      /\ spawning' = spawning \ {j} /\ j \in spawning /\ phase # "down"
  OBVIOUS
<1> HIDE DEF js
<1>7. \A i \in Jobs : jobs'[i] = IF i \in gone THEN NoJob ELSE IF i = j THEN R!Started ELSE jobs[i]
  BY <1>1, <1>3
<1>8. jobs' \in [Jobs -> R!JobRecords \cup {NoJob}]
  <2>1. \A i \in Jobs : jobs'[i] \in R!JobRecords \cup {NoJob}
    BY <1>2, <1>7 DEF JobsInv, JobTypes, Says
  <2>2. jobs' = [i \in Jobs |-> jobs'[i]]
    BY <1>1
  <2>3. QED
    BY <2>1, <2>2
<1>9. SpawnedMoves(j, gone)
  BY <1>1, <1>4, <1>5, <1>7, <1>8 DEF SpawnedMoves
<1>10. QED
  BY <1>6, <1>9

\* The spawn event keeps the invariant.
LEMMA SpawnedKeeps ==
  ASSUME JobsInv, NEW j \in Jobs, R!Spawned(j)
  PROVE  JobsInv'
<1> USE DEF R!Spawned, R!pi
<1>1. CASE R!Closing
  <2>1. JobTypes' /\ Apart'
    BY <1>1 DEF JobsInv, JobTypes, Apart
  <2>2. \A i \in Jobs \ {j} : Same(i)
    BY <1>1 DEF JobsInv, JobTypes, Same
  <2>3. JobInv(j)'
    BY <1>1 DEF Apart, R!NoJobs, JobsInv, JobTypes, JobInv, Unstarted, Awaiting, Counted,
           Sent, Kept, Untold, Told, R!Held, R!IsLive, R!IsDone, R!Closing
  <2>4. QED
    BY <2>1, <2>2, <2>3, OneJob DEF R!Closing
<1>2. CASE ~R!Closing
  <2>6. /\ UNCHANGED <<finalizing, killers, reclean, phase, record, queue, history, sends, proc>>
        /\ spawning' = spawning \ {j} /\ j \in spawning /\ phase # "down"
    BY <1>2, SpawnedDoes
  <2>1. PICK gone \in SUBSET Jobs : SpawnedMoves(j, gone)
    BY <1>2, SpawnedDoes
  <2>3. outbox' = outbox \ gone
    BY <2>1 DEF SpawnedMoves
  <2>4. \A i \in gone : i # j /\ R!IsDone(i)
    BY <2>1 DEF SpawnedMoves
  <2>5. /\ ghost'.killed = ghost.killed /\ ghost'.waived = ghost.waived
        /\ ghost'.rewrote = ghost.rewrote
        /\ ghost' \in [killed : SUBSET Jobs, waived : SUBSET Jobs, rewrote : SUBSET Jobs,
                       dropped : SUBSET Jobs, silent : SUBSET Jobs, refused : SUBSET Jobs]
    BY <2>1 DEF SpawnedMoves
  <2>7. /\ \A i \in Jobs : jobs'[i] = IF i \in gone THEN NoJob ELSE IF i = j THEN R!Started ELSE jobs[i]
        /\ jobs' \in [Jobs -> R!JobRecords \cup {NoJob}]
    BY <2>1 DEF SpawnedMoves
  <2>8. JobTypes' /\ Apart'
    BY <1>2, <2>3, <2>5, <2>6, <2>7 DEF JobsInv, JobTypes, Apart, R!Closing
  <2>9. ASSUME NEW i \in Jobs PROVE JobInv(i)'
    <3>1. CASE i = j
      <4>1. /\ jobs[i] = NoJob /\ record[i] = NoJob /\ reclean[i] = NoJob /\ i \notin finalizing
            /\ killers[i] = 0 /\ i \notin ghost.killed /\ sends[i] = 0 /\ Untold(i)
            /\ proc[i] # "none"
        BY <1>2, <3>1 DEF JobsInv, JobInv, Unstarted
      <4>2. jobs'[i] = R!Started
        BY <2>4, <2>7, <3>1
      <4>3. Untold(i)' /\ i \notin spawning' /\ i \notin outbox'
        BY <2>3, <2>6, <3>1, <4>1 DEF Untold
      <4>4. QED
        BY <2>5, <2>6, <4>1, <4>2, <4>3, StartedKeeps
    <3>2. CASE i \in gone
      <4>1. jobs'[i] = NoJob /\ R!IsDone(i) /\ ~R!IsLive(i) /\ i \notin outbox'
        BY <2>3, <2>4, <2>7, <3>2 DEF R!IsDone, R!IsLive
      <4>2. i \notin finalizing /\ proc[i] # "none" /\ i \notin spawning
        BY <1>2, <4>1 DEF JobsInv, JobInv, Awaiting, Unstarted, R!IsDone, R!Held
      <4>3. Counted(i)' /\ Sent(i)'
        BY <2>5, <2>6, <4>1, <4>2 DEF JobsInv, JobInv, Counted, Sent, Untold
      <4>4. Unstarted(i)' /\ Awaiting(i)'
        BY <2>6, <4>1, <4>2 DEF JobsInv, JobInv, Unstarted, Awaiting, R!Held
      <4>5. Kept(i, jobs[i])' /\ Kept(i, record[i])' /\ Kept(i, reclean[i])'
        BY <2>5, <2>6, <4>1 DEF JobsInv, JobInv, Kept, Told, Untold
      <4>6. QED
        BY <4>3, <4>4, <4>5 DEF JobInv
    <3>3. CASE i # j /\ i \notin gone
      <4>1. Same(i)
        BY <2>3, <2>5, <2>6, <2>7, <3>3 DEF Same
      <4>2. QED
        BY <2>6, <4>1, SameKeeps DEF JobsInv, R!Closing
    <3>4. QED
      BY <3>1, <3>2, <3>3
  <2>10. QED
    BY <2>8, <2>9 DEF JobsInv
<1>3. QED
  BY <1>1, <1>2

\* What reconcileDeliveries does to each job.
LEMMA ReconcileMoves ==
  ASSUME NEW js \in [Jobs -> R!JobRecords \cup {NoJob}], NEW box \in SUBSET Jobs, NEW b,
         \A i \in box : js[i] # NoJob, R!Reconcile(js, box, b)
  PROVE  /\ jobs' \in [Jobs -> R!JobRecords \cup {NoJob}] /\ outbox' \subseteq Jobs
         /\ \A j \in Jobs : /\ Moved(jobs'[j], j, js[j], box)
                            /\ j \in outbox' => /\ js[j] # NoJob
                                                /\ j \in box \/ jobs'[j].attempts > js[j].attempts
<1> DEFINE again == {j \in Jobs : js[j] # NoJob /\ jobs'[j].attempts > js[j].attempts}
<1>1. /\ jobs' = [j \in Jobs |-> R!Reconciled(j, js[j], box)]
      /\ outbox' \subseteq box \cup again
  BY DEF R!Reconcile, R!Flush
<1>2. ASSUME NEW j \in Jobs PROVE Moved(jobs'[j], j, js[j], box)
  <2>1. js[j] \in R!JobRecords \cup {NoJob} /\ jobs'[j] = R!Reconciled(j, js[j], box)
    BY <1>1
  <2>2. Moved(R!Reconciled(j, js[j], box), j, js[j], box)
    BY <2>1, ReconciledSays
  <2>3. QED
    BY <2>1, <2>2
<1>3. jobs' \in [Jobs -> R!JobRecords \cup {NoJob}]
  <2>1. \A j \in Jobs : jobs'[j] \in R!JobRecords \cup {NoJob}
    BY <1>2 DEF Moved
  <2>2. jobs' = [j \in Jobs |-> jobs'[j]]
    BY <1>1
  <2>3. QED
    BY <2>1, <2>2
<1>4. outbox' \subseteq Jobs
  BY <1>1
<1>5. ASSUME NEW j \in Jobs, j \in outbox'
      PROVE  js[j] # NoJob /\ (j \in box \/ jobs'[j].attempts > js[j].attempts)
  BY <1>1, <1>5
<1>6. QED
  BY <1>2, <1>3, <1>4, <1>5

\* What becomes of one job when its record is reconciled while its process goes on.
LEMMA MovedKeeps ==
  ASSUME NEW j \in Jobs, JobInv(j), jobs[j] \in R!JobRecords \cup {NoJob}, sends[j] \in Nat,
         record[j] = NoJob, record'[j] = NoJob, Moved(jobs'[j], j, jobs[j], outbox),
         j \in outbox' => /\ jobs[j] # NoJob
                          /\ j \in outbox \/ jobs'[j].attempts > jobs[j].attempts,
         UNCHANGED <<proc, spawning, finalizing, killers, reclean, queue, history, sends, ghost>>,
         ~R!Closing
  PROVE  JobInv(j)'
<1>1. CASE jobs[j] = NoJob
  <2>1. jobs'[j] = NoJob /\ j \notin outbox' /\ j \notin outbox
    BY <1>1 DEF Moved, JobInv, Sent, R!Held
  <2>2. Unstarted(j)' /\ Awaiting(j)' /\ Counted(j)' /\ Sent(j)'
    BY <1>1, <2>1 DEF JobInv, Unstarted, Awaiting, Counted, Sent, Untold, R!Held, R!IsLive, R!IsDone
  <2>3. Kept(j, jobs[j])' /\ Kept(j, record[j])' /\ Kept(j, reclean[j])'
    BY <1>1, <2>1 DEF JobInv, Kept, Told, Untold
  <2>4. QED
    BY <2>2, <2>3 DEF JobInv
<1>2. CASE jobs[j] # NoJob
  <2> DEFINE old == jobs[j]
             new == jobs'[j]
  <2>1. /\ old \in R!JobRecords /\ old # NoJob /\ old.attempts \in 0 .. MaxAttempts
        /\ new \in R!JobRecords /\ new # NoJob /\ new.attempts \in 0 .. MaxAttempts
        /\ new.state = old.state /\ new.claimed = old.claimed
        /\ new.delivered => old.delivered \/ history[j] > 0
        /\ \/ new.attempts = old.attempts
           \/ /\ new.attempts = old.attempts + 1 /\ old.attempts # 0 /\ j \notin outbox
              /\ old.state = "done"
    BY <1>2, RecordFields DEF Moved
  <2>2. j \in outbox' => j \in outbox \/ new.attempts = old.attempts + 1
    BY <2>1, Limit
  <2>3. old.state # "done" \/ old.claimed => new.attempts = 0 /\ j \notin outbox'
    BY <2>1, <2>2 DEF JobInv, Kept, Untold
  <2> HIDE DEF old, new
  <2>4. Counted(j)'
    BY <1>2, <2>1, <2>2, Limit DEF JobInv, Counted, old, new
  <2>5. Unstarted(j)' /\ Awaiting(j)'
    BY <1>2, <2>1 DEF JobInv, Unstarted, Awaiting, R!Held, R!IsLive, R!IsDone, R!Closing, old, new
  <2>6. Sent(j)'
    BY <1>2, <2>1, <2>2, <2>3 DEF JobInv, Sent, Kept, Told, Untold, R!Held, old, new
  <2>7. Kept(j, jobs[j])' /\ Kept(j, record[j])'
    BY <1>2, <2>1, <2>3 DEF JobInv, Kept, Told, Untold, old, new
  <2>8. Kept(j, reclean[j])'
    BY <1>2, <2>1, <2>3 DEF JobInv, Kept, Told, Untold, Awaiting, R!Held, R!IsDone, old, new
  <2>9. QED
    BY <2>4, <2>5, <2>6, <2>7, <2>8 DEF JobInv
<1>3. QED
  BY <1>1, <1>2

\* A reconcile in the same process keeps the invariant.
LEMMA ReconcileKeeps ==
  ASSUME JobsInv, NEW b, R!Reconcile(jobs, outbox, b), phase \in {"up", "parked"}, phase' = "up",
         UNCHANGED <<proc, spawning, finalizing, killers, reclean, record, queue, history, sends,
                     ghost>>
  PROVE  JobsInv'
<1>1. /\ jobs \in [Jobs -> R!JobRecords \cup {NoJob}] /\ outbox \in SUBSET Jobs
      /\ \A i \in outbox : jobs[i] # NoJob
  BY DEF JobsInv, JobTypes, JobInv, Sent, R!Held
<1>2. /\ jobs' \in [Jobs -> R!JobRecords \cup {NoJob}] /\ outbox' \subseteq Jobs
      /\ \A j \in Jobs : /\ Moved(jobs'[j], j, jobs[j], outbox)
                         /\ j \in outbox' => /\ jobs[j] # NoJob
                                             /\ j \in outbox \/ jobs'[j].attempts > jobs[j].attempts
  BY <1>1, ReconcileMoves
<1>3. JobTypes' /\ Apart'
  BY <1>2 DEF JobsInv, JobTypes, Apart
<1>4. ASSUME NEW j \in Jobs PROVE JobInv(j)'
  <2>1. /\ JobInv(j) /\ jobs[j] \in R!JobRecords \cup {NoJob} /\ sends[j] \in Nat
        /\ record[j] = NoJob /\ record'[j] = NoJob /\ ~R!Closing
    BY DEF JobsInv, JobTypes, Apart, R!NoJobs, R!Closing
  <2>2. Moved(jobs'[j], j, jobs[j], outbox)
    BY <1>2
  <2>3. j \in outbox' => jobs[j] # NoJob /\ (j \in outbox \/ jobs'[j].attempts > jobs[j].attempts)
    BY <1>2
  <2>4. QED
    BY <2>1, <2>2, <2>3, MovedKeeps
<1>5. QED
  BY <1>3, <1>4 DEF JobsInv

\* What becomes of a job that a record hands over, if its process goes on.
LEMMA AdoptedKeeps ==
  ASSUME NEW j \in Jobs, JobInv(j), record[j] \in R!JobRecords, sends[j] \in Nat,
         jobs[j] = NoJob, reclean[j] = NoJob, j \notin finalizing, j \notin spawning, j \notin outbox,
         record'[j] = NoJob, Moved(jobs'[j], j, R!Adopted(j), R!EndedInGap),
         j \in outbox' => \/ j \in R!EndedInGap
                          \/ jobs'[j].attempts > R!Adopted(j).attempts,
         UNCHANGED <<proc, spawning, finalizing, killers, reclean, queue, history, sends, ghost>>
  PROVE  JobInv(j)'
<1> DEFINE old == record[j]
           mid == R!Adopted(j)
           new == jobs'[j]
<1>1. /\ old # NoJob /\ old.attempts \in 0 .. MaxAttempts
      /\ old.state # "done" \/ old.claimed => old.attempts = 0 /\ Untold(j)
  BY RecordFields DEF JobInv, Kept
<1>2. /\ mid \in R!JobRecords /\ mid.claimed = old.claimed /\ mid.delivered = old.delivered
      /\ mid.attempts >= old.attempts
      /\ mid.state # "done" => old.state # "done"
      /\ mid.state # "done" \/ mid.claimed => mid.attempts = old.attempts
  BY <1>1, AdoptedSays
<1>3. mid # NoJob /\ mid.attempts \in 0 .. MaxAttempts
  BY <1>2, RecordFields
<1>4. j \in R!EndedInGap => mid.attempts > old.attempts
  BY DEF R!EndedInGap
<1> HIDE DEF mid
<1>5. /\ new \in R!JobRecords /\ new.state = mid.state /\ new.claimed = mid.claimed
      /\ new.delivered => mid.delivered \/ history[j] > 0
      /\ \/ new.attempts = mid.attempts
         \/ new.attempts = mid.attempts + 1 /\ mid.attempts # 0
  BY <1>3 DEF Moved, mid
<1>6. new # NoJob /\ new.attempts \in 0 .. MaxAttempts
  BY <1>5, RecordFields
<1>7. j \in outbox' => new.attempts > old.attempts
  BY <1>1, <1>2, <1>3, <1>4, <1>5, <1>6, Limit DEF mid
<1>8. new.state # "done" \/ new.claimed => new.attempts = 0 /\ Untold(j) /\ j \notin outbox'
  BY <1>1, <1>2, <1>3, <1>5, <1>6, <1>7
<1> HIDE DEF old, new
<1>9. Counted(j)'
  BY <1>1, <1>2, <1>3, <1>5, <1>6, <1>7, Limit DEF JobInv, Counted, old, new
<1>10. Unstarted(j)' /\ Awaiting(j)'
  BY <1>1 DEF JobInv, Unstarted, Awaiting, R!Held, R!IsLive, R!IsDone, R!Closing, old, new
<1>11. Told(j) => old.claimed
  BY <1>1 DEF JobInv, Kept, old
<1>12. Sent(j)'
  BY <1>2, <1>5, <1>6, <1>8, <1>11 DEF Sent, Told, Untold, R!Held, new
<1>13. Kept(j, jobs[j])' /\ Kept(j, record[j])' /\ Kept(j, reclean[j])'
  <2>1. old.delivered => history[j] > 0
    BY <1>1 DEF JobInv, Kept, old
  <2>2. QED
    BY <1>2, <1>5, <1>8, <1>11, <2>1 DEF Kept, Told, Untold, new
<1>14. QED
  BY <1>9, <1>10, <1>12, <1>13 DEF JobInv

\* The next process adopts the jobs of the record, and reconciles them with the history.
LEMMA AdoptKeeps ==
  ASSUME JobsInv, R!Adopt
  PROVE  JobsInv'
<1> DEFINE js == [j \in Jobs |-> R!Adopted(j)]
<1>1. /\ phase = "down" /\ phase' = "up" /\ record' = R!NoJobs
      /\ UNCHANGED <<proc, spawning, finalizing, killers, reclean, queue, history, sends, ghost>>
      /\ R!Reconcile(js, R!EndedInGap, binding')
  BY DEF R!Adopt, R!pi
<1>2. /\ jobs = R!NoJobs /\ reclean = R!NoJobs /\ spawning = {} /\ finalizing = {} /\ outbox = {}
  BY <1>1 DEF JobsInv, Apart
<1>3. ASSUME NEW j \in Jobs, record[j] # NoJob
      PROVE  record[j] \in R!JobRecords /\ R!Adopted(j) \in R!JobRecords /\ R!Adopted(j) # NoJob
  <2>1. /\ record[j] \in R!JobRecords
        /\ record[j].state # "done" \/ record[j].claimed => record[j].attempts = 0
    BY <1>3 DEF JobsInv, JobTypes, JobInv, Kept
  <2>2. R!Adopted(j) \in R!JobRecords
    BY <2>1, AdoptedSays
  <2>3. QED
    BY <2>1, <2>2, RecordFields
<1>4. ASSUME NEW j \in Jobs, record[j] = NoJob
      PROVE  R!Adopted(j) = NoJob
  BY <1>4 DEF R!Adopted
<1>5. js \in [Jobs -> R!JobRecords \cup {NoJob}]
  BY <1>3, <1>4
<1>6. R!EndedInGap \in SUBSET Jobs /\ \A i \in R!EndedInGap : js[i] # NoJob
  BY <1>3 DEF R!EndedInGap
<1>7. \A j \in Jobs : js[j] = R!Adopted(j)
  OBVIOUS
<1> HIDE DEF js
<1>8. /\ jobs' \in [Jobs -> R!JobRecords \cup {NoJob}] /\ outbox' \subseteq Jobs
      /\ \A j \in Jobs : /\ Moved(jobs'[j], j, js[j], R!EndedInGap)
                         /\ j \in outbox' =>
                              /\ js[j] # NoJob
                              /\ j \in R!EndedInGap \/ jobs'[j].attempts > js[j].attempts
  BY <1>1, <1>5, <1>6, ReconcileMoves
<1>9. JobTypes' /\ Apart'
  <2>1. record' \in [Jobs -> R!JobRecords \cup {NoJob}]
    BY <1>1 DEF R!NoJobs
  <2>2. QED
    BY <1>1, <1>8, <2>1 DEF JobsInv, JobTypes, Apart
<1>10. ASSUME NEW j \in Jobs PROVE JobInv(j)'
  <2>1. /\ JobInv(j) /\ sends[j] \in Nat /\ jobs[j] = NoJob /\ reclean[j] = NoJob
        /\ j \notin finalizing /\ j \notin spawning /\ j \notin outbox /\ record'[j] = NoJob
    BY <1>1, <1>2 DEF JobsInv, JobTypes, R!NoJobs
  <2>5. js[j] = R!Adopted(j) /\ Moved(jobs'[j], j, js[j], R!EndedInGap)
    BY <1>7, <1>8
  <2>6. j \in outbox' => js[j] # NoJob /\ (j \in R!EndedInGap \/ jobs'[j].attempts > js[j].attempts)
    BY <1>8
  <2>7. Moved(jobs'[j], j, R!Adopted(j), R!EndedInGap)
    BY <2>5
  <2>2. CASE record[j] # NoJob
    <3>1. record[j] \in R!JobRecords
      BY <1>3, <2>2
    <3>2. j \in outbox' => j \in R!EndedInGap \/ jobs'[j].attempts > R!Adopted(j).attempts
      BY <2>5, <2>6
    <3>3. QED
      BY <1>1, <2>1, <2>7, <3>1, <3>2, AdoptedKeeps
  <2>3. CASE record[j] = NoJob
    <3>1. jobs'[j] = NoJob /\ j \notin outbox'
      BY <1>4, <2>3, <2>5, <2>6 DEF Moved
    <3>2. Same(j)
      BY <1>1, <2>1, <2>3, <3>1 DEF Same
    <3>3. QED
      BY <1>1, <2>1, <3>2, SameKeeps DEF R!Closing
  <2>4. QED
    BY <2>2, <2>3
<1>11. QED
  BY <1>9, <1>10 DEF JobsInv

\* A runtime that refuses the record knows no job.
LEMMA RefuseKeeps ==
  ASSUME JobsInv, R!Refuse
  PROVE  JobsInv'
<1>1. /\ phase = "down" /\ phase' = "up" /\ record' = R!NoJobs
      /\ UNCHANGED <<jobs, spawning, finalizing, killers, reclean, outbox, queue, history, sends>>
      /\ proc' \in [Jobs -> {"none", "live", "gone"}]
      /\ \A j \in Jobs : proc'[j] = "none" => proc[j] = "none"
  BY DEF R!Refuse, R!pi, JobsInv, JobTypes
<1>2. /\ ghost'.killed = ghost.killed /\ ghost'.waived = ghost.waived
      /\ ghost'.rewrote = ghost.rewrote
      /\ ghost' \in [killed : SUBSET Jobs, waived : SUBSET Jobs, rewrote : SUBSET Jobs,
                     dropped : SUBSET Jobs, silent : SUBSET Jobs, refused : SUBSET Jobs]
  BY DEF R!Refuse, JobsInv, JobTypes
<1>3. /\ jobs = R!NoJobs /\ reclean = R!NoJobs /\ spawning = {} /\ finalizing = {} /\ outbox = {}
  BY <1>1 DEF JobsInv, Apart
<1>4. JobTypes'
  <2>1. record' \in [Jobs -> R!JobRecords \cup {NoJob}]
    BY <1>1 DEF R!NoJobs
  <2>2. QED
    BY <1>1, <1>2, <2>1 DEF JobsInv, JobTypes
<1>5. Apart'
  BY <1>1 DEF Apart
<1>6. ASSUME NEW j \in Jobs PROVE JobInv(j)'
  <2>1. /\ JobInv(j) /\ jobs[j] = NoJob /\ record'[j] = NoJob /\ reclean[j] = NoJob
        /\ j \notin spawning /\ j \notin finalizing /\ j \notin outbox
    BY <1>1, <1>3 DEF JobsInv, R!NoJobs
  <2>2. Unstarted(j)'
    BY <1>1, <1>2, <2>1 DEF JobInv, Unstarted, Untold
  <2>3. Awaiting(j)' /\ Counted(j)' /\ Sent(j)'
    BY <1>1, <1>2, <2>1 DEF JobInv, Awaiting, Counted, Sent, Untold
  <2>4. Kept(j, jobs[j])' /\ Kept(j, record[j])' /\ Kept(j, reclean[j])'
    BY <1>1, <2>1 DEF Kept
  <2>5. QED
    BY <2>2, <2>3, <2>4 DEF JobInv
<1>7. QED
  BY <1>4, <1>5, <1>6 DEF JobsInv

\* A step after which nothing about any job is different keeps the invariant.
LEMMA NothingNew ==
  ASSUME JobsInv, JobTypes', Apart', \A i \in Jobs : Same(i), R!Closing => R!Closing'
  PROVE  JobsInv'
<1>1. ASSUME NEW i \in Jobs PROVE JobInv(i)'
  BY SameKeeps DEF JobsInv
<1>2. QED
  BY <1>1 DEF JobsInv

\* A turn starts or ends, and a runtime waits for the extension that takes it over.
LEMMA TurnKeeps ==
  ASSUME JobsInv, R!Prompt \/ R!TurnEnds \/ R!Park
  PROVE  JobsInv'
<1>1. /\ UNCHANGED <<jobs, proc, spawning, finalizing, killers, reclean, outbox, record, queue,
                     history, sends, ghost>>
      /\ phase' = phase \/ (phase = "up" /\ phase' = "parked")
  BY DEF R!Prompt, R!TurnEnds, R!Park, R!runtime, R!pi
<1>2. JobTypes' /\ Apart'
  BY <1>1 DEF JobsInv, JobTypes, Apart
<1>3. \A i \in Jobs : Same(i)
  BY <1>1 DEF Same
<1>4. QED
  BY <1>1, <1>2, <1>3, NothingNew DEF R!Closing

\* An abort forgets messages, which no job depends on.
LEMMA AbortKeeps ==
  ASSUME JobsInv, R!Abort
  PROVE  JobsInv'
<1>1. /\ UNCHANGED <<jobs, proc, spawning, finalizing, killers, reclean, outbox, record, phase,
                     history, sends, ghost>>
      /\ queue' = [j \in Jobs |-> 0]
  BY DEF R!Abort, R!runtime, R!pi
<1>2. JobTypes' /\ Apart'
  BY <1>1 DEF JobsInv, JobTypes, Apart
<1>3. ASSUME NEW j \in Jobs PROVE JobInv(j)'
  <2>1. JobInv(j) /\ queue'[j] = 0
    BY <1>1 DEF JobsInv
  <2>2. Unstarted(j)' /\ Awaiting(j)' /\ Counted(j)' /\ Sent(j)'
    BY <1>1, <2>1 DEF JobInv, Unstarted, Awaiting, Counted, Sent, Untold, R!Held, R!IsLive,
       R!IsDone,
       R!Closing
  <2>3. Kept(j, jobs[j])' /\ Kept(j, record[j])' /\ Kept(j, reclean[j])'
    BY <1>1, <2>1 DEF JobInv, Kept, Told, Untold
  <2>4. QED
    BY <2>2, <2>3 DEF JobInv
<1>4. QED
  BY <1>2, <1>3 DEF JobsInv

\* A turn has settled: what it discarded is sent again, unless the history cannot be read.
LEMMA SettledKeeps ==
  ASSUME JobsInv, R!AgentSettled
  PROVE  JobsInv'
<1>1. UNCHANGED <<proc, spawning, finalizing, killers, reclean, record, phase, queue, history,
                  sends, ghost>>
  BY DEF R!AgentSettled
<1>2. CASE phase = "up" /\ R!Reconcile(jobs, outbox, binding)
  BY <1>1, <1>2, ReconcileKeeps
<1>3. CASE UNCHANGED jobs /\ (UNCHANGED outbox \/ R!Flush(outbox, jobs, binding))
  <2>1. \A i \in outbox : jobs[i] # NoJob
    BY DEF JobsInv, JobTypes, JobInv, Sent, R!Held
  <2>2. outbox' = outbox
    BY <1>3, <2>1 DEF R!Flush
  <2>3. JobTypes' /\ Apart'
    BY <1>1, <1>3, <2>2 DEF JobsInv, JobTypes, Apart
  <2>4. \A i \in Jobs : Same(i)
    BY <1>1, <1>3, <2>2 DEF Same
  <2>5. QED
    BY <1>1, <2>3, <2>4, NothingNew DEF R!Closing
<1>4. QED
  BY <1>2, <1>3 DEF R!AgentSettled

\* The extension that was reloaded takes the runtime over.
LEMMA AttachKeeps ==
  ASSUME JobsInv, R!Attach
  PROVE  JobsInv'
<1>1. /\ phase = "parked" /\ phase' = "up" /\ R!Reconcile(jobs, outbox, binding')
      /\ UNCHANGED <<proc, spawning, finalizing, killers, reclean, record, queue, history, sends,
                     ghost>>
  BY DEF R!Attach, R!pi
<1>2. QED
  BY <1>1, ReconcileKeeps

\* The session begins to close, and forgets what it was about to send.
LEMMA BeginKeeps ==
  ASSUME JobsInv, NEW to \in {"closing", "leaving"}, R!BeginClosing(to)
  PROVE  JobsInv'
<1>1. /\ UNCHANGED <<jobs, proc, spawning, finalizing, killers, reclean, record, queue, history,
                     sends, ghost>>
      /\ outbox' = {} /\ phase' = to /\ phase # "down"
  BY DEF R!BeginClosing, R!pi
<1>2. JobTypes' /\ Apart'
  BY <1>1 DEF JobsInv, JobTypes, Apart
<1>3. ASSUME NEW j \in Jobs PROVE JobInv(j)'
  <2>1. JobInv(j) /\ R!Closing'
    BY <1>1 DEF JobsInv, R!Closing
  <2>2. Unstarted(j)' /\ Awaiting(j)' /\ Sent(j)'
    BY <1>1, <2>1 DEF JobInv, Unstarted, Awaiting, Sent, Untold, R!Held, R!IsLive, R!IsDone
  <2>3. Counted(j)'
    <3>1. jobs[j] # NoJob => jobs[j].attempts \in Nat
      BY RecordFields, Limit DEF JobsInv, JobTypes
    <3>2. sends[j] \in Nat
      BY DEF JobsInv, JobTypes
    <3>3. QED
      BY <1>1, <2>1, <3>1, <3>2 DEF JobInv, Counted
  <2>4. Kept(j, jobs[j])' /\ Kept(j, record[j])' /\ Kept(j, reclean[j])'
    BY <1>1, <2>1 DEF JobInv, Kept, Told, Untold
  <2>5. QED
    BY <2>2, <2>3, <2>4 DEF JobInv
<1>4. QED
  BY <1>2, <1>3 DEF JobsInv

\* What becomes of one job when the record of it ends, is handed over or goes, and the session is
\* past sending.
LEMMA StoppedKeeps ==
  ASSUME NEW j \in Jobs, JobInv(j), jobs[j] \in R!JobRecords \cup {NoJob}, sends[j] \in Nat,
         record[j] = NoJob, record'[j] = NoJob, j \notin outbox, j \notin outbox',
         jobs[j] = NoJob => jobs'[j] = NoJob,
         jobs[j] # NoJob =>
            \E state \in {jobs[j].state, "done"} :
               Says(jobs'[j], state, jobs[j].claimed, jobs[j].attempts, jobs[j].delivered),
         proc'[j] = "none" <=> proc[j] = "none", R!Closing',
         UNCHANGED <<spawning, finalizing, killers, reclean, queue, history, sends, ghost>>
  PROVE  JobInv(j)'
<1>1. CASE jobs[j] = NoJob
  <2>1. Unstarted(j)' /\ Awaiting(j)' /\ Counted(j)' /\ Sent(j)'
    BY <1>1 DEF JobInv, Unstarted, Awaiting, Counted, Sent, Untold, R!Held
  <2>2. Kept(j, jobs[j])' /\ Kept(j, record[j])' /\ Kept(j, reclean[j])'
    BY <1>1 DEF JobInv, Kept, Told, Untold
  <2>3. QED
    BY <2>1, <2>2 DEF JobInv
<1>2. CASE jobs[j] # NoJob
  <2> DEFINE old == jobs[j]
             new == jobs'[j]
  <2>1. PICK state \in {old.state, "done"} :
          Says(new, state, old.claimed, old.attempts, old.delivered)
    BY <1>2
  <2>2. /\ new # NoJob /\ new.state = state /\ new.claimed = old.claimed
        /\ new.attempts = old.attempts /\ new.delivered = old.delivered
        /\ old.attempts \in Nat
    BY <1>2, <2>1, RecordFields, Limit DEF Says
  <2> HIDE DEF old, new
  <2>3. Counted(j)'
    BY <1>2, <2>2 DEF JobInv, Counted, old, new
  <2>4. Unstarted(j)' /\ Awaiting(j)'
    BY <1>2, <2>1, <2>2 DEF JobInv, Unstarted, Awaiting, Untold, R!Held, R!IsDone, old, new
  <2>5. Sent(j)'
    BY DEF JobInv, Sent, Untold
  <2>6. Kept(j, jobs[j])' /\ Kept(j, record[j])'
    BY <1>2, <2>1, <2>2 DEF JobInv, Kept, Told, Untold, old, new
  <2>7. Kept(j, reclean[j])'
    BY DEF JobInv, Kept, Told, Untold
  <2>8. QED
    BY <2>3, <2>4, <2>5, <2>6, <2>7 DEF JobInv
<1>3. QED
  BY <1>1, <1>2

\* The session ends every job.
LEMMA StopKeeps ==
  ASSUME JobsInv, R!StopEverything
  PROVE  JobsInv'
<1>1. /\ phase \in {"closing", "leaving"} /\ phase' = "over"
      /\ proc' = [j \in Jobs |-> IF proc[j] = "live" THEN "gone" ELSE proc[j]]
      /\ jobs' = [j \in Jobs |-> IF R!IsLive(j) THEN [jobs[j] EXCEPT !.state = "done"] ELSE jobs[j]]
      /\ UNCHANGED <<spawning, finalizing, killers, reclean, outbox, record, queue, history, sends,
                     ghost>>
  BY DEF R!StopEverything, R!pi
<1>2. outbox = {} /\ record = R!NoJobs
  BY <1>1 DEF JobsInv, Apart
<1>3. ASSUME NEW j \in Jobs
      PROVE  /\ jobs[j] \in R!JobRecords \cup {NoJob}
             /\ jobs[j] = NoJob => jobs'[j] = NoJob
             /\ jobs[j] # NoJob =>
                  \E state \in {jobs[j].state, "done"} :
                    Says(jobs'[j], state, jobs[j].claimed, jobs[j].attempts, jobs[j].delivered)
  <2>1. jobs[j] \in R!JobRecords \cup {NoJob}
    BY DEF JobsInv, JobTypes
  <2>2. jobs[j] = NoJob => jobs'[j] = NoJob
    BY <1>1 DEF R!IsLive, R!Held
  <2>3. CASE jobs[j] # NoJob /\ R!IsLive(j)
    <3>1. Says(jobs'[j], "done", jobs[j].claimed, jobs[j].attempts, jobs[j].delivered)
      BY <1>1, <2>1, <2>3, EndSays
    <3>2. QED
      BY <2>1, <2>3, <3>1
  <2>4. CASE jobs[j] # NoJob /\ ~R!IsLive(j)
    <3>1. Says(jobs'[j], jobs[j].state, jobs[j].claimed, jobs[j].attempts, jobs[j].delivered)
      BY <1>1, <2>1, <2>4 DEF Says
    <3>2. QED
      BY <2>1, <2>4, <3>1
  <2>5. QED
    BY <2>1, <2>2, <2>3, <2>4
<1>4. JobTypes' /\ Apart'
  <2>1. jobs' \in [Jobs -> R!JobRecords \cup {NoJob}]
    <3>1. \A j \in Jobs : jobs'[j] \in R!JobRecords \cup {NoJob}
      BY <1>3 DEF Says
    <3>2. jobs' = [j \in Jobs |-> jobs'[j]]
      BY <1>1
    <3>3. QED
      BY <3>1, <3>2
  <2>2. proc' \in [Jobs -> {"none", "live", "gone"}]
    BY <1>1 DEF JobsInv, JobTypes
  <2>3. QED
    BY <1>1, <1>2, <2>1, <2>2 DEF JobsInv, JobTypes, Apart
<1>5. ASSUME NEW j \in Jobs PROVE JobInv(j)'
  <2>1. /\ JobInv(j) /\ sends[j] \in Nat /\ record[j] = NoJob /\ record'[j] = NoJob
        /\ j \notin outbox /\ j \notin outbox' /\ R!Closing'
        /\ proc'[j] = "none" <=> proc[j] = "none"
    BY <1>1, <1>2 DEF JobsInv, JobTypes, R!NoJobs, R!Closing
  <2>2. QED
    BY <1>1, <1>3, <2>1, StoppedKeeps
<1>6. QED
  BY <1>4, <1>5 DEF JobsInv

\* The session hands its jobs over, and its memory ends.
LEMMA HandOverKeeps ==
  ASSUME JobsInv, R!HandOver
  PROVE  JobsInv'
<1>1. /\ phase = "leaving" /\ phase' = "down"
      /\ record' = [j \in Jobs |-> IF R!Held(j) THEN R!Saved(jobs[j]) ELSE NoJob]
      /\ proc' = [j \in Jobs |-> IF j \in spawning THEN "gone" ELSE proc[j]]
      /\ jobs' = R!NoJobs /\ reclean' = R!NoJobs /\ spawning' = {} /\ finalizing' = {}
      /\ queue' = [j \in Jobs |-> 0]
      /\ UNCHANGED <<killers, outbox, history, sends, ghost>>
  BY DEF R!HandOver
<1>2. outbox = {}
  BY <1>1 DEF JobsInv, Apart
<1>3. ASSUME NEW j \in Jobs, jobs[j] # NoJob
      PROVE  /\ record'[j] # NoJob
             /\ Says(record'[j], IF jobs[j].state = "done" THEN "done" ELSE "running",
                     jobs[j].claimed, jobs[j].attempts, jobs[j].delivered)
  <2>1. jobs[j] \in R!JobRecords /\ record'[j] = R!Saved(jobs[j])
    BY <1>1, <1>3 DEF JobsInv, JobTypes, R!Held
  <2>2. Says(R!Saved(jobs[j]), IF jobs[j].state = "done" THEN "done" ELSE "running",
             jobs[j].claimed, jobs[j].attempts, jobs[j].delivered)
    BY <2>1, EndSays
  <2>3. R!Saved(jobs[j]) # NoJob
    BY <2>2, RecordFields DEF Says
  <2>4. QED
    BY <2>1, <2>2, <2>3
<1>4. ASSUME NEW j \in Jobs, jobs[j] = NoJob
      PROVE  record'[j] = NoJob
  BY <1>1, <1>4 DEF R!Held
<1>5. JobTypes' /\ Apart'
  <2>1. record' \in [Jobs -> R!JobRecords \cup {NoJob}]
    <3>1. \A j \in Jobs : record'[j] \in R!JobRecords \cup {NoJob}
      BY <1>3, <1>4 DEF Says
    <3>2. record' = [j \in Jobs |-> record'[j]]
      BY <1>1
    <3>3. QED
      BY <3>1, <3>2
  <2>2. proc' \in [Jobs -> {"none", "live", "gone"}]
    BY <1>1 DEF JobsInv, JobTypes
  <2>3. jobs' \in [Jobs -> R!JobRecords \cup {NoJob}] /\ reclean' \in [Jobs -> R!JobRecords \cup {NoJob}]
    BY <1>1 DEF R!NoJobs
  <2>4. QED
    BY <1>1, <1>2, <2>1, <2>2, <2>3 DEF JobsInv, JobTypes, Apart
<1>6. ASSUME NEW j \in Jobs PROVE JobInv(j)'
  <2>1. /\ JobInv(j) /\ sends[j] \in Nat /\ jobs'[j] = NoJob /\ reclean'[j] = NoJob
        /\ j \notin spawning' /\ j \notin finalizing' /\ j \notin outbox' /\ queue'[j] = 0
        /\ proc'[j] = "none" => proc[j] = "none"
    BY <1>1, <1>2 DEF JobsInv, JobTypes, R!NoJobs
  <2>2. Unstarted(j)'
    BY <1>1, <1>4, <2>1 DEF JobInv, Unstarted, Untold
  <2>3. Awaiting(j)'
    BY <2>1 DEF Awaiting
  <2>4. Sent(j)'
    BY <1>1, <2>1 DEF JobInv, Sent, Untold
  <2>5. Kept(j, jobs[j])' /\ Kept(j, reclean[j])'
    BY <2>1 DEF Kept
  <2>6. Kept(j, record[j])' /\ Counted(j)'
    <3>1. CASE jobs[j] = NoJob
      <4>1. j \notin ghost.rewrote => sends[j] <= MaxAttempts
        BY <2>1 DEF JobInv, Counted
      <4>2. QED
        BY <1>1, <1>4, <2>1, <3>1, <4>1 DEF Kept, Counted
    <3>2. CASE jobs[j] # NoJob
      <4> DEFINE old == jobs[j]
                 new == record'[j]
      <4>1. /\ new # NoJob /\ new.state = "done" <=> old.state = "done"
            /\ new.claimed = old.claimed /\ new.attempts = old.attempts
            /\ new.delivered = old.delivered
        BY <1>3, <3>2 DEF Says
      <4> HIDE DEF old, new
      <4>2. Kept(j, record[j])'
        BY <1>1, <2>1, <3>2, <4>1 DEF JobInv, Kept, Told, Untold, old, new
      <4>3. old.attempts \in Nat /\ j \notin outbox
        BY <1>2, <3>2, RecordFields, Limit DEF JobsInv, JobTypes, old
      <4>4. Counted(j)'
        BY <1>1, <2>1, <3>2, <4>1, <4>3 DEF JobInv, Counted, old, new
      <4>5. QED
        BY <4>2, <4>4
    <3>3. QED
      BY <3>1, <3>2
  <2>7. QED
    BY <2>2, <2>3, <2>4, <2>5, <2>6 DEF JobInv
<1>7. QED
  BY <1>5, <1>6 DEF JobsInv

------------------------------------------------------------------------------
(* Every step *)

\* A step that the runtime, Pi or a process takes.
LEMMA JobsStep ==
  ASSUME JobsInv, [R!Next]_runtimeVars
  PROVE  JobsInv'
<1>1. ASSUME NEW j \in Jobs, R!JobStep(j)
      PROVE  JobsInv'
  <2>1. CASE R!StartJob(j)
    BY <2>1, StartKeeps
  <2>2. CASE R!Spawned(j)
    BY <2>2, SpawnedKeeps
  <2>3. CASE R!Exit(j)
    BY <2>3, ExitKeeps
  <2>4. CASE R!Finalize(j)
    BY <2>4, FinalizeKeeps
  <2>5. CASE R!Finalized(j)
    BY <2>5, FinalizedKeeps
  <2>6. CASE R!Kill(j)
    BY <2>6, KillKeeps
  <2>7. CASE R!KillTold(j)
    BY <2>7, KillToldKeeps
  <2>8. CASE R!KillWaived(j)
    BY <2>8, KillWaivedKeeps
  <2>9. CASE R!Reclean(j)
    BY <2>9, RecleanKeeps
  <2>10. CASE R!Recleaned(j)
    BY <2>10, RecleanedKeeps
  <2>11. CASE R!Enter(j)
    BY <2>11, EnterKeeps
  <2>12. CASE \E b \in R!Bindings : R!ReadTail(j, b)
    BY <2>12, ReadTailKeeps
  <2>13. QED
    BY <1>1, <2>1, <2>2, <2>3, <2>4, <2>5, <2>6, <2>7, <2>8, <2>9, <2>10, <2>11, <2>12
       DEF R!JobStep
<1>2. CASE R!SessionStep
  <2>1. CASE R!Prompt \/ R!TurnEnds \/ R!Park
    BY <2>1, TurnKeeps
  <2>2. CASE R!Abort
    BY <2>2, AbortKeeps
  <2>3. CASE R!AgentSettled
    BY <2>3, SettledKeeps
  <2>4. CASE R!Attach
    BY <2>4, AttachKeeps
  <2>5. CASE \E to \in {"closing", "leaving"} : R!BeginClosing(to)
    BY <2>5, BeginKeeps
  <2>6. CASE R!StopEverything
    BY <2>6, StopKeeps
  <2>7. CASE R!HandOver
    BY <2>7, HandOverKeeps
  <2>8. CASE R!Adopt
    BY <2>8, AdoptKeeps
  <2>9. CASE R!Refuse
    BY <2>9, RefuseKeeps
  <2>10. QED
    BY <1>2, <2>1, <2>2, <2>3, <2>4, <2>5, <2>6, <2>7, <2>8, <2>9 DEF R!SessionStep
<1>3. CASE UNCHANGED runtimeVars
  <2>1. JobTypes' /\ Apart'
    BY <1>3 DEF runtimeVars, JobsInv, JobTypes, Apart
  <2>2. \A i \in Jobs : Same(i)
    BY <1>3 DEF runtimeVars, Same
  <2>3. R!Closing => R!Closing'
    BY <1>3 DEF runtimeVars, R!Closing
  <2>4. QED
    BY <2>1, <2>2, <2>3, NothingNew
<1>4. QED
  BY <1>1, <1>2, <1>3 DEF R!Next

\* The runtime keeps its invariant.
LEMMA JobsHold == R!Spec => []JobsInv
<1>1. R!Init => JobsInv
  BY JobsStart
<1>2. JobsInv /\ [R!Next]_(R!vars) => JobsInv'
  BY JobsStep DEF R!vars, runtimeVars
<1>3. QED
  BY <1>1, <1>2, PTL DEF R!Spec

\* However often turns are aborted, the session reloads or restarts, and jobs are killed, the
\* completion of a job is submitted MAX_COMPLETION_ATTEMPTS times at most, over all processes that
\* held the job, unless a kill wrote a record back that it had read before its await
\* (shell-jobs-delivery.ts, reconcileDeliveries).
THEOREM BoundedSendsHolds == R!Spec => []BoundedSends
<1>1. JobsInv => BoundedSends
  BY DEF JobsInv, JobInv, Counted, BoundedSends, R!BoundedSends
<1>2. QED
  BY <1>1, JobsHold, PTL

\* A kill that told of a job in its result leaves no message of it, and a job counts as delivered
\* only if the history has its completion, in memory and in the record that is handed over
\* (shell-jobs-manage.ts, stopJob; shell-jobs-delivery.ts, acknowledgeCompletion).
THEOREM ToldAsRecordedHolds == R!Spec => []ToldAsRecorded
<1>1. JobsInv => ToldAsRecorded
  <2>1. ASSUME JobsInv, NEW j \in Jobs
        PROVE  /\ j \in ghost.killed \ ghost.waived =>
                    history[j] = 0 /\ queue[j] = 0 /\ j \notin outbox
               /\ R!Held(j) /\ jobs[j].delivered => history[j] > 0
               /\ record[j] # NoJob /\ record[j].delivered => history[j] > 0
    BY <2>1 DEF JobsInv, JobInv, Sent, Kept, Untold, R!Held
  <2>2. JobsInv => ghost.killed \subseteq Jobs
    BY DEF JobsInv, JobTypes
  <2>3. QED
    BY <2>1, <2>2 DEF ToldAsRecorded, R!ToldAsRecorded
<1>2. QED
  BY <1>1, JobsHold, PTL
------------------------------------------------------------------------------
(* The promise *)

\* A completion is in one place at most: about to be sent, in Pi's queue or in the history.
Once(j) == queue[j] + history[j] + (IF j \in outbox THEN 1 ELSE 0) <= 1

\* What the ghosts say of a job with the record r: it was removed from the list when it had ended,
\* as a job that was owed or as one that a kill had claimed.
Story(j, r) ==
    r # NoJob =>
        /\ r.state # "done" => ~r.failed /\ j \notin ghost.dropped /\ j \notin ghost.silent
        /\ j \in ghost.dropped => ~r.claimed
        /\ j \in ghost.silent => r.claimed

\* What has ended and was not claimed was attempted, or is in the history.
Owing(j, r) == r # NoJob /\ r.state = "done" /\ ~r.claimed => r.attempts > 0 \/ history[j] > 0

\* A job that the list does not have any more was told, dropped or claimed.
Gone(j) ==
    ~R!Held(j) /\ phase # "down" =>
        /\ queue[j] > 0 => j \in ghost.dropped
        /\ reclean[j] # NoJob => history[j] > 0 \/ j \in ghost.dropped \/ j \in ghost.silent

Tale(j) ==
    /\ Once(j) /\ Gone(j)
    /\ Story(j, jobs[j]) /\ Story(j, record[j]) /\ Story(j, reclean[j])
    /\ Owing(j, reclean[j]) /\ (phase \in {"up", "parked"} => Owing(j, jobs[j]))
    /\ phase = "over" => ~R!IsLive(j)
    /\ j \in ghost.dropped => j \notin ghost.silent
    /\ proc[j] = "none" \/ j \in spawning =>
          j \notin ghost.dropped /\ j \notin ghost.silent /\ j \notin ghost.refused

\* A session at rest has an empty queue, and one that is parked or down rests.  Only a session that
\* is up has a binding.
Idle ==
    /\ ~busy => \A j \in Jobs : queue[j] = 0
    /\ phase \in {"parked", "down"} => ~busy
    /\ phase # "up" => binding = 0

PromiseInv == JobsInv /\ Idle /\ \A j \in Jobs : Tale(j)

\* A step keeps what is known of a job, and is a move of the promise for it.
Tells(j) ==
    /\ Tale(j)'
    /\ R!Fate(j)' = R!Fate(j) \/ <<R!Fate(j), R!Fate(j)'>> \in R!Promise!Moves
    /\ history'[j] = IF R!Fate(j) # "told" /\ R!Fate(j)' = "told" THEN history[j] + 1
                     ELSE history[j]

\* The session does not go down, come up or end.
SamePhase ==
    /\ phase' = "down" <=> phase = "down"
    /\ phase' = "over" <=> phase = "over"
    /\ phase' \in {"up", "parked"} => phase \in {"up", "parked"}

\* A job's records and history do not change.
StillTold(i) ==
    /\ jobs'[i] = jobs[i] /\ record'[i] = record[i]
    /\ reclean'[i] = reclean[i] \/ reclean'[i] = NoJob
    /\ history'[i] = history[i]
    /\ queue'[i] > 0 => queue[i] > 0 \/ R!Held(i)
    /\ i \in ghost'.dropped <=> i \in ghost.dropped
    /\ i \in ghost'.silent <=> i \in ghost.silent
    /\ i \in ghost'.refused <=> i \in ghost.refused
    /\ proc'[i] = "none" \/ i \in spawning' => proc[i] = "none" \/ i \in spawning
    /\ Once(i)'

\* Such a job keeps its fate.
LEMMA StillTells ==
  ASSUME NEW i, Tale(i), StillTold(i), SamePhase
  PROVE  Tells(i)
<1>1. Gone(i)'
  BY DEF Tale, Gone, StillTold, SamePhase, R!Held
<1>2. Story(i, jobs[i])' /\ Story(i, record[i])' /\ Story(i, reclean[i])'
  BY DEF Tale, Story, StillTold
<1>3. Owing(i, reclean[i])' /\ (phase' \in {"up", "parked"} => Owing(i, jobs[i])')
  BY DEF Tale, Owing, StillTold, SamePhase
<1>4. Tale(i)'
  BY <1>1, <1>2, <1>3 DEF Tale, StillTold, SamePhase, R!IsLive, R!Held
<1>5. R!Fate(i)' = R!Fate(i)
  BY DEF R!Fate, StillTold, SamePhase
<1>6. QED
  BY <1>4, <1>5 DEF Tells, StillTold

\* A step of one job keeps the fates of the others.
LEMMA OneTells ==
  ASSUME PromiseInv, NEW j \in Jobs, Tells(j), SamePhase,
         \A i \in Jobs \ {j} :
            /\ Same(i)
            /\ i \in ghost'.dropped <=> i \in ghost.dropped
            /\ i \in ghost'.silent <=> i \in ghost.silent
            /\ i \in ghost'.refused <=> i \in ghost.refused
  PROVE  \A i \in Jobs : Tells(i)
<1>1. ASSUME NEW i \in Jobs PROVE Tells(i)
  <2>1. CASE i = j
    BY <2>1
  <2>2. CASE i # j
    <3>1. Tale(i)
      BY DEF PromiseInv
    <3>2. StillTold(i)
      BY <2>2, <3>1 DEF StillTold, Same, Tale, Once
    <3>3. QED
      BY <3>1, <3>2, StillTells
  <2>3. QED
    BY <2>1, <2>2
<1>2. QED
  BY <1>1

\* What becomes of a job that is held, in a session that goes on as it is: it works on, or ends
\* without having been given up, or has ended and stays claimed or not.
LEMMA HeldTells ==
  ASSUME NEW j, Tale(j), jobs[j] # NoJob, jobs'[j] # NoJob, record'[j] = record[j],
         reclean'[j] = reclean[j] \/ reclean'[j] = NoJob,
         proc'[j] # "none", j \notin spawning', phase # "down", SamePhase,
         history'[j] = history[j], Once(j)', Story(j, jobs[j])',
         j \in ghost'.dropped <=> j \in ghost.dropped, j \in ghost'.silent <=> j \in ghost.silent,
         j \in ghost'.refused <=> j \in ghost.refused,
         phase' \in {"up", "parked"} => Owing(j, jobs[j])',
         \/ /\ jobs[j].state # "done"
            /\ jobs'[j].state = "done" => phase # "over" /\ ~jobs'[j].failed
         \/ jobs[j].state = "done" /\ jobs'[j].state = "done" /\ jobs'[j].claimed = jobs[j].claimed
  PROVE  Tells(j)
<1>1. Gone(j)'
  BY DEF Gone, R!Held
<1>2. Story(j, record[j])' /\ Story(j, reclean[j])' /\ Owing(j, reclean[j])'
  BY DEF Tale, Story, Owing
<1>3. Tale(j)'
  BY <1>1, <1>2 DEF Tale, SamePhase, R!IsLive, R!Held
<1>4. R!Fate(j)' = R!Fate(j) \/ <<R!Fate(j), R!Fate(j)'>> \in R!Promise!Moves
  <2>1. phase' # "down" /\ (phase' = "over" <=> phase = "over")
    BY DEF SamePhase
  <2>2. CASE history[j] > 0
    BY <2>2 DEF R!Fate
  <2>3. CASE ~(history[j] > 0) /\ jobs[j].state # "done"
    <3>1. R!Fate(j) = "working"
      BY <2>3 DEF R!Fate
    <3>2. R!Fate(j)' \in {"working", "quiet", "owed"}
      BY <2>1, <2>3 DEF R!Fate
    <3>3. QED
      BY <3>1, <3>2 DEF R!Promise!Moves
  <2>4. CASE ~(history[j] > 0) /\ jobs[j].state = "done"
    <3>1. jobs[j].claimed => R!Fate(j) = "quiet" /\ R!Fate(j)' = "quiet"
      BY <2>1, <2>4 DEF R!Fate
    <3>2. ~jobs[j].claimed /\ phase = "over" => R!Fate(j) = "over" /\ R!Fate(j)' = "over"
      BY <2>1, <2>4 DEF R!Fate
    <3>3. ~jobs[j].claimed /\ phase # "over" =>
            R!Fate(j) \in {"failed", "owed"} /\ R!Fate(j)' \in {"failed", "owed"}
      BY <2>1, <2>4 DEF R!Fate
    <3>4. QED
      BY <3>1, <3>2, <3>3 DEF R!Promise!Moves
  <2>5. QED
    BY <2>2, <2>3, <2>4
<1>5. (R!Fate(j) = "told") <=> (R!Fate(j)' = "told")
  BY DEF R!Fate, SamePhase
<1>6. QED
  BY <1>3, <1>4, <1>5 DEF Tells

\* The steps that leave the records, the history and the list as they are: a start that reserves a
\* slot, the end of a process, a kill that tells, and an attempt that is sent or lost.
LEMMA StillSteps ==
  ASSUME PromiseInv, NEW j \in Jobs,
         \/ R!StartJob(j) \/ R!Exit(j) \/ R!KillTold(j) \/ (R!Spawned(j) /\ R!Closing)
         \/ \E b \in R!Bindings : R!ReadTail(j, b)
  PROVE  \A i \in Jobs : Tells(i)
<1>1. Tale(j) /\ JobInv(j)
  BY DEF PromiseInv, JobsInv
<1>2. CASE R!StartJob(j)
  <2>1. StillTold(j) /\ SamePhase
    BY <1>1, <1>2 DEF R!StartJob, R!pi, StillTold, SamePhase, Tale, Once, PromiseInv, JobsInv,
       JobTypes
  <2>2. \A i \in Jobs \ {j} : Same(i)
    BY <1>2 DEF PromiseInv, JobsInv, JobTypes, R!StartJob, R!pi, Same
  <2>3. QED
    BY <1>1, <1>2, <2>1, <2>2, StillTells, OneTells DEF R!StartJob
<1>3. CASE R!Exit(j)
  <2>1. StillTold(j) /\ SamePhase
    BY <1>1, <1>3 DEF R!Exit, R!pi, R!runtime, StillTold, SamePhase, Tale, Once, PromiseInv,
       JobsInv,
       JobTypes
  <2>2. \A i \in Jobs \ {j} : Same(i)
    BY <1>3 DEF PromiseInv, JobsInv, JobTypes, R!Exit, R!pi, R!runtime, Same
  <2>3. QED
    BY <1>1, <1>3, <2>1, <2>2, StillTells, OneTells DEF R!Exit
<1>4. CASE R!KillTold(j)
  <2>1. /\ ghost'.killed = ghost.killed \cup {j} /\ ghost'.waived = ghost.waived
        /\ ghost'.rewrote = ghost.rewrote /\ ghost'.dropped = ghost.dropped
        /\ ghost'.silent = ghost.silent /\ ghost'.refused = ghost.refused
    BY <1>4 DEF PromiseInv, JobsInv, JobTypes, R!KillTold
  <2>2. StillTold(j) /\ SamePhase
    BY <1>1, <1>4, <2>1 DEF R!KillTold, R!pi, StillTold, SamePhase, Tale, Once
  <2>3. \A i \in Jobs \ {j} : Same(i)
    BY <1>4, <2>1 DEF PromiseInv, JobsInv, JobTypes, R!KillTold, R!pi, Same
  <2>4. QED
    BY <1>1, <2>1, <2>2, <2>3, StillTells, OneTells
<1>5. CASE R!Spawned(j) /\ R!Closing
  <2>1. StillTold(j) /\ SamePhase
    BY <1>1, <1>5 DEF R!Spawned, R!pi, StillTold, SamePhase, Tale, Once, PromiseInv, JobsInv,
       JobTypes
  <2>2. \A i \in Jobs \ {j} : Same(i)
    BY <1>5 DEF PromiseInv, JobsInv, JobTypes, R!Spawned, R!pi, Same
  <2>3. QED
    BY <1>1, <1>5, <2>1, <2>2, StillTells, OneTells DEF R!Spawned
<1>6. CASE \E b \in R!Bindings : R!ReadTail(j, b)
  <2>1. PICK b \in R!Bindings : R!ReadTail(j, b)
    BY <1>6
  <2>2. /\ UNCHANGED <<jobs, proc, spawning, reclean, phase, record, history, ghost>>
        /\ UNCHANGED <<finalizing, killers>>
    BY <2>1 DEF R!ReadTail
  <2>3. /\ queue[j] \in Nat /\ history[j] \in Nat
        /\ \/ outbox' = outbox /\ queue' = queue /\ sends' = sends
           \/ outbox' = outbox \ {j} /\ queue' = queue /\ sends' = sends
           \/ /\ j \in outbox /\ outbox' = outbox \ {j} /\ R!Held(j)
              /\ queue' = [queue EXCEPT ![j] = @ + 1] \/ queue' = queue
              /\ sends' = [sends EXCEPT ![j] = @ + 1]
    BY <2>1 DEF R!ReadTail, PromiseInv, JobsInv, JobTypes
  <2>4. StillTold(j) /\ SamePhase
    BY <1>1, <2>2, <2>3 DEF StillTold, SamePhase, Tale, Once, PromiseInv, JobsInv, JobTypes
  <2>5. \A i \in Jobs \ {j} : Same(i)
    BY <2>2, <2>3 DEF PromiseInv, JobsInv, JobTypes, Same
  <2>6. QED
    BY <1>1, <2>2, <2>4, <2>5, StillTells, OneTells
<1>7. QED
  BY <1>2, <1>3, <1>4, <1>5, <1>6

\* A job with a record was started.
LEMMA HeldStarted ==
  ASSUME NEW j, JobInv(j), jobs[j] # NoJob \/ reclean[j] # NoJob
  PROVE  proc[j] # "none" /\ j \notin spawning
BY DEF JobInv, Unstarted

\* Only reconcileDeliveries gives a job up, and an acknowledgement takes that back.
LEMMA FailedSays ==
  ASSUME NEW r \in R!JobRecords, NEW dirty \in BOOLEAN
  PROVE  /\ [r EXCEPT !.state = "stopping"].failed = r.failed
         /\ R!Ended(r, dirty).failed = r.failed
         /\ [r EXCEPT !.claimed = TRUE, !.state = "stopping"].failed = r.failed
         /\ [r EXCEPT !.claimed = FALSE].failed = r.failed
         /\ [r EXCEPT !.dirty = FALSE].failed = r.failed
         /\ [r EXCEPT !.state = "done"].failed = r.failed
         /\ R!Saved(r).failed = r.failed
         /\ R!Started.failed = FALSE
         /\ R!Acknowledged(r).failed = FALSE
BY DEF R!JobRecords, R!Ended, R!Saved, R!Started, R!Acknowledged

\* A job that runs goes on, stopping or claimed or not.
LEMMA RunningTells ==
  ASSUME PromiseInv, NEW j \in Jobs, R!Finalize(j) \/ R!Kill(j) \/ R!KillWaived(j)
  PROVE  \A i \in Jobs : Tells(i)
<1>1. /\ Tale(j) /\ JobInv(j) /\ R!IsLive(j) /\ jobs[j] \in R!JobRecords
      /\ phase # "down" /\ proc[j] # "none" /\ j \notin spawning
  BY HeldStarted DEF PromiseInv, JobsInv, JobTypes, R!Finalize, R!Kill, R!KillWaived, R!IsLive,
     R!Held
<1>2. /\ UNCHANGED <<proc, spawning, outbox, reclean, record, queue, history, sends, phase>>
      /\ ghost'.dropped = ghost.dropped /\ ghost'.silent = ghost.silent
      /\ ghost'.refused = ghost.refused
      /\ ghost'.killed = ghost.killed /\ ghost'.rewrote = ghost.rewrote
      /\ \A i \in Jobs \ {j} : /\ jobs'[i] = jobs[i] /\ killers'[i] = killers[i]
                               /\ i \in finalizing' <=> i \in finalizing
                               /\ i \in ghost'.waived <=> i \in ghost.waived
  BY DEF PromiseInv, JobsInv, JobTypes, R!Finalize, R!Kill, R!KillWaived, R!pi
<1>3. /\ jobs'[j] # NoJob /\ jobs'[j].state # "done" /\ jobs'[j].failed = jobs[j].failed
  <2>1. CASE R!Finalize(j)
    <3>1. jobs'[j] = [jobs[j] EXCEPT !.state = "stopping"]
      BY <2>1 DEF R!Finalize, PromiseInv, JobsInv, JobTypes
    <3>2. Says(jobs'[j], "stopping", jobs[j].claimed, jobs[j].attempts, jobs[j].delivered)
      BY <1>1, <3>1, FinalizeSays
    <3>3. QED
      BY <1>1, <3>1, <3>2, FailedSays, RecordFields DEF Says
  <2>2. CASE R!Kill(j)
    <3>1. jobs'[j] = [jobs[j] EXCEPT !.claimed = TRUE, !.state = "stopping"]
      BY <2>2 DEF R!Kill, PromiseInv, JobsInv, JobTypes
    <3>2. Says(jobs'[j], "stopping", TRUE, jobs[j].attempts, jobs[j].delivered)
      BY <1>1, <3>1, ClaimSays
    <3>3. QED
      BY <1>1, <3>1, <3>2, FailedSays, RecordFields DEF Says
  <2>3. CASE R!KillWaived(j)
    <3>1. jobs'[j] = [jobs[j] EXCEPT !.claimed = FALSE]
      BY <2>3 DEF R!KillWaived, PromiseInv, JobsInv, JobTypes
    <3>2. Says(jobs'[j], jobs[j].state, FALSE, jobs[j].attempts, jobs[j].delivered)
      BY <1>1, <3>1, ClaimSays
    <3>3. QED
      BY <1>1, <3>1, <3>2, FailedSays, RecordFields DEF Says, R!IsLive
  <2>4. QED
    BY <2>1, <2>2, <2>3
<1>4. SamePhase /\ Once(j)'
  BY <1>1, <1>2 DEF SamePhase, Tale, Once
<1>5. Story(j, jobs[j])'
  BY <1>1, <1>2, <1>3 DEF Tale, Story, R!IsLive, R!Held
<1>6. Owing(j, jobs[j])'
  BY <1>3 DEF Owing
<1>7. Tells(j)
  BY <1>1, <1>2, <1>3, <1>4, <1>5, <1>6, HeldTells DEF R!IsLive, R!Held
<1>8. \A i \in Jobs \ {j} : Same(i)
  BY <1>2 DEF Same
<1>9. QED
  BY <1>2, <1>4, <1>7, <1>8, OneTells

\* A job ends: it is owed, or a kill tells of it, or the session is closing.
LEMMA FinalizedTells ==
  ASSUME PromiseInv, NEW j \in Jobs, R!Finalized(j)
  PROVE  \A i \in Jobs : Tells(i)
<1>1. /\ Tale(j) /\ JobInv(j) /\ jobs[j] \in R!JobRecords /\ jobs[j] # NoJob /\ phase # "down"
      /\ R!IsLive(j) \/ (R!Closing /\ jobs[j].state = "done")
      /\ proc[j] # "none" /\ j \notin spawning /\ jobs[j].attempts \in Nat
  <2>1. Tale(j) /\ JobInv(j) /\ jobs[j] \in R!JobRecords /\ jobs[j] # NoJob /\ phase # "down"
        /\ (R!IsLive(j) \/ R!Closing)
    BY DEF PromiseInv, JobsInv, JobTypes, JobInv, Awaiting, R!Finalized, R!Held
  <2>2. QED
    BY <2>1, HeldStarted, RecordFields, Limit DEF R!IsLive, R!Held
<1>2. PICK dirty \in BOOLEAN : jobs' = [jobs EXCEPT ![j] = R!Ended(@, dirty)]
  BY DEF R!Finalized
<1>3. /\ UNCHANGED <<proc, spawning, reclean, record, queue, history, sends, phase, killers, ghost>>
      /\ finalizing' = finalizing \ {j}
      /\ outbox' \subseteq outbox \cup {j}
      /\ \A i \in Jobs \ {j} : jobs'[i] = jobs[i] /\ (i \in outbox' <=> i \in outbox)
      /\ R!Suppressed(jobs[j]) => outbox' = outbox
  <2>1. \A i \in outbox : jobs[i] # NoJob
    BY DEF PromiseInv, JobsInv, JobTypes, JobInv, Sent, R!Held
  <2>2. \A i \in Jobs \ {j} : jobs'[i] = jobs[i]
    BY <1>2 DEF PromiseInv, JobsInv, JobTypes
  <2>3. QED
    BY <2>1, <2>2 DEF R!Finalized, R!Flush, R!pi, PromiseInv, JobsInv, JobTypes
<1>4. /\ jobs'[j] # NoJob /\ jobs'[j].state = "done" /\ jobs'[j].failed = jobs[j].failed
      /\ jobs'[j].claimed = jobs[j].claimed
      /\ R!Suppressed(jobs[j]) \/ jobs'[j].attempts > 0
  <2>1. jobs'[j] = R!Ended(jobs[j], dirty)
    BY <1>2 DEF PromiseInv, JobsInv, JobTypes
  <2>2. ~R!Suppressed(jobs[j]) => jobs[j].attempts = 0
    BY <1>1 DEF JobInv, Kept, R!Suppressed, R!IsLive
  <2>3. /\ R!Suppressed(jobs[j]) =>
             Says(R!Ended(jobs[j], dirty), "done", jobs[j].claimed, jobs[j].attempts, jobs[j].delivered)
        /\ ~R!Suppressed(jobs[j]) =>
             Says(R!Ended(jobs[j], dirty), "done", jobs[j].claimed, jobs[j].attempts + 1,
                  jobs[j].delivered)
    BY <1>1, <2>2, FinalizeSays, Limit
  <2>4. R!Ended(jobs[j], dirty).failed = jobs[j].failed
    BY <1>1, FailedSays
  <2>5. QED
    BY <1>1, <2>1, <2>3, <2>4, RecordFields DEF Says
<1>5. SamePhase /\ Once(j)'
  <2>1. ~R!Suppressed(jobs[j]) => Untold(j)
    BY <1>1 DEF JobInv, Kept, R!Suppressed, R!IsLive
  <2>2. QED
    BY <1>1, <1>3, <2>1 DEF SamePhase, Tale, Once, Untold
<1>6. Story(j, jobs[j])'
  BY <1>1, <1>3, <1>4 DEF Tale, Story, R!IsLive, R!Held
<1>7. phase' \in {"up", "parked"} => Owing(j, jobs[j])'
  BY <1>1, <1>3, <1>4 DEF JobInv, Kept, Owing, R!Suppressed, R!Closing
<1>8. Tells(j)
  <2>1. CASE R!IsLive(j)
    <3>1. phase # "over" /\ ~jobs[j].failed /\ jobs[j].state # "done"
      BY <1>1, <2>1 DEF Tale, Story, R!IsLive
    <3>2. QED
      BY <1>1, <1>3, <1>4, <1>5, <1>6, <1>7, <3>1, HeldTells
  <2>2. CASE jobs[j].state = "done"
    BY <1>1, <1>3, <1>4, <1>5, <1>6, <1>7, <2>2, HeldTells
  <2>3. QED
    BY <1>1, <2>1, <2>2
<1>9. \A i \in Jobs \ {j} : Same(i)
  BY <1>3 DEF Same
<1>10. QED
  BY <1>3, <1>5, <1>8, <1>9, OneTells

\* A message enters the history: the one of a job that was owed or given up, and the first one.
LEMMA EnterTells ==
  ASSUME PromiseInv, NEW j \in Jobs, R!Enter(j)
  PROVE  \A i \in Jobs : Tells(i)
<1>1. /\ Tale(j) /\ JobInv(j) /\ queue[j] > 0 /\ phase # "over" /\ phase # "down"
      /\ queue[j] \in Nat /\ history[j] \in Nat /\ jobs[j] \in R!JobRecords \cup {NoJob}
  BY DEF PromiseInv, JobsInv, JobTypes, Idle, R!Enter
<1>2. /\ UNCHANGED <<proc, spawning, finalizing, killers, reclean, record, phase, sends, ghost>>
      /\ queue'[j] = queue[j] - 1 /\ history'[j] = history[j] + 1
      /\ \A i \in Jobs \ {j} : /\ queue'[i] = queue[i] /\ history'[i] = history[i]
                               /\ jobs'[i] = jobs[i] /\ (i \in outbox' <=> i \in outbox)
      /\ outbox' \subseteq outbox
  BY DEF PromiseInv, JobsInv, JobTypes, R!Enter
<1>3. history[j] = 0 /\ queue[j] = 1 /\ j \notin outbox /\ j \notin outbox' /\ history'[j] = 1
  BY <1>1, <1>2 DEF Tale, Once
<1>4. jobs[j] # NoJob => jobs[j].state = "done" /\ ~jobs[j].claimed
  BY <1>1 DEF JobInv, Kept, Untold
<1>5. /\ jobs[j] = NoJob => jobs'[j] = NoJob
      /\ jobs[j] # NoJob =>
           /\ jobs'[j] # NoJob /\ jobs'[j].state = "done" /\ jobs'[j].claimed = jobs[j].claimed
  <2>1. CASE UNCHANGED jobs
    BY <1>4, <2>1
  <2>2. CASE R!Held(j) /\ jobs' = [jobs EXCEPT ![j] = R!Acknowledged(@)]
    <3>1. jobs'[j] = R!Acknowledged(jobs[j]) /\ jobs[j] \in R!JobRecords /\ jobs[j] # NoJob
      BY <1>1, <2>2 DEF R!Held, PromiseInv, JobsInv, JobTypes
    <3>2. Says(jobs'[j], jobs[j].state, jobs[j].claimed, jobs[j].attempts, TRUE)
      BY <3>1, AcknowledgedSays
    <3>3. QED
      BY <1>4, <3>1, <3>2, RecordFields DEF Says
  <2>3. QED
    BY <2>1, <2>2 DEF R!Enter
<1>6. SamePhase
  BY <1>2 DEF SamePhase
<1>7. Tale(j)'
  <2>1. Once(j)' /\ Gone(j)'
    BY <1>1, <1>2, <1>3 DEF Once, Gone
  <2>2. Story(j, jobs[j])' /\ Story(j, record[j])' /\ Story(j, reclean[j])'
    BY <1>1, <1>2, <1>4, <1>5 DEF Tale, Story
  <2>3. Owing(j, jobs[j])' /\ Owing(j, reclean[j])'
    BY <1>3 DEF Owing
  <2>4. QED
    BY <1>1, <1>2, <1>5, <2>1, <2>2, <2>3 DEF Tale, R!IsLive, R!Held
<1>8. R!Fate(j)' = "told"
  BY <1>3 DEF R!Fate
<1>9. R!Fate(j) \in {"owed", "failed", "dropped"}
  BY <1>1, <1>3, <1>4 DEF R!Fate, Tale, Gone, R!Held
<1>10. Tells(j)
  BY <1>2, <1>7, <1>8, <1>9 DEF Tells, R!Promise!Moves
<1>11. \A i \in Jobs \ {j} : Same(i)
  BY <1>2 DEF Same
<1>12. QED
  BY <1>2, <1>6, <1>10, <1>11, OneTells

\* A kill of a job that has ended keeps its record ...
LEMMA RecleanTells ==
  ASSUME PromiseInv, NEW j \in Jobs, R!Reclean(j)
  PROVE  \A i \in Jobs : Tells(i)
<1>1. Tale(j) /\ phase = "up" /\ R!IsDone(j)
  BY DEF PromiseInv, R!Reclean
<1>2. /\ UNCHANGED <<jobs, proc, spawning, finalizing, killers, outbox, record, phase, queue, history,
                     sends, ghost>>
      /\ reclean'[j] = jobs[j] /\ \A i \in Jobs \ {j} : reclean'[i] = reclean[i]
  BY DEF R!Reclean, R!pi, PromiseInv, JobsInv, JobTypes
<1>3. SamePhase
  BY <1>2 DEF SamePhase
<1>4. Once(j)' /\ Gone(j)'
  BY <1>1, <1>2 DEF Tale, Once, Gone, R!IsDone, R!Held
<1>5. Story(j, jobs[j])' /\ Story(j, record[j])' /\ Story(j, reclean[j])'
  BY <1>1, <1>2 DEF Tale, Story
<1>6. Owing(j, jobs[j])' /\ Owing(j, reclean[j])'
  BY <1>1, <1>2 DEF Tale, Owing
<1>7. Tale(j)'
  BY <1>1, <1>2, <1>4, <1>5, <1>6 DEF Tale
<1>8. R!Fate(j)' = R!Fate(j)
  BY <1>2 DEF R!Fate
<1>9. Tells(j)
  BY <1>2, <1>7, <1>8 DEF Tells
<1>10. \A i \in Jobs \ {j} : Same(i)
  BY <1>2 DEF Same
<1>11. QED
  BY <1>2, <1>3, <1>9, <1>10, OneTells

\* ... and writes it back: a job that was given up may be owed again, and one that was dropped is in
\* the list again.
LEMMA RecleanedTells ==
  ASSUME PromiseInv, NEW j \in Jobs, R!Recleaned(j)
  PROVE  \A i \in Jobs : Tells(i)
<1> DEFINE r == reclean[j]
<1>1. /\ Tale(j) /\ JobInv(j) /\ r \in R!JobRecords /\ r # NoJob /\ r.state = "done"
      /\ phase # "down" /\ proc[j] # "none" /\ j \notin spawning
      /\ jobs[j] # NoJob => jobs[j].state = "done" /\ jobs[j].claimed = r.claimed
  <2>1. Tale(j) /\ JobInv(j) /\ r \in R!JobRecords /\ r # NoJob /\ phase # "down"
    BY DEF PromiseInv, JobsInv, JobTypes, R!Recleaned
  <2>2. QED
    BY <2>1, HeldStarted DEF JobInv, Awaiting, R!Held, R!IsDone
<1>2. /\ UNCHANGED <<proc, spawning, finalizing, killers, outbox, record, phase, queue, history, sends>>
      /\ reclean'[j] = NoJob
      /\ ghost'.dropped = ghost.dropped /\ ghost'.silent = ghost.silent
      /\ ghost'.refused = ghost.refused
      /\ ghost'.killed = ghost.killed /\ ghost'.waived = ghost.waived
      /\ \A i \in Jobs \ {j} : /\ reclean'[i] = reclean[i] /\ jobs'[i] = jobs[i]
                               /\ i \in ghost'.rewrote <=> i \in ghost.rewrote
  BY DEF R!Recleaned, R!pi, PromiseInv, JobsInv, JobTypes
<1>3. SamePhase /\ Once(j)'
  BY <1>1, <1>2 DEF SamePhase, Tale, Once
<1>4. CASE UNCHANGED jobs
  <2>1. StillTold(j)
    BY <1>1, <1>2, <1>3, <1>4 DEF StillTold
  <2>2. Tells(j)
    BY <1>1, <1>3, <2>1, StillTells
  <2>3. \A i \in Jobs \ {j} : Same(i)
    BY <1>2 DEF Same
  <2>4. QED
    BY <1>2, <1>3, <2>2, <2>3, OneTells
<1>5. CASE jobs' = [jobs EXCEPT ![j] = [reclean[j] EXCEPT !.dirty = FALSE]]
  <2>1. /\ jobs'[j] # NoJob /\ jobs'[j].state = "done" /\ jobs'[j].claimed = r.claimed
        /\ jobs'[j].attempts = r.attempts
    <3>1. jobs'[j] = [r EXCEPT !.dirty = FALSE]
      BY <1>5 DEF PromiseInv, JobsInv, JobTypes
    <3>2. Says(jobs'[j], r.state, r.claimed, r.attempts, r.delivered)
      BY <1>1, <3>1, EndSays
    <3>3. QED
      BY <1>1, <3>2, RecordFields DEF Says
  <2>2. Story(j, jobs[j])' /\ Owing(j, jobs[j])'
    BY <1>1, <1>2, <2>1 DEF Tale, Story, Owing
  <2>3. Tells(j)
    <3>1. CASE jobs[j] # NoJob
      BY <1>1, <1>2, <1>3, <2>1, <2>2, <3>1, HeldTells
    <3>2. CASE jobs[j] = NoJob
      <4>1. Gone(j)' /\ Story(j, record[j])' /\ Story(j, reclean[j])' /\ Owing(j, reclean[j])'
        BY <1>1, <1>2, <2>1 DEF Tale, Gone, Story, Owing, R!Held
      <4>2. Tale(j)'
        BY <1>1, <1>2, <1>3, <2>1, <2>2, <4>1 DEF Tale, R!IsLive
      <4>3. CASE history[j] > 0
        <5>1. R!Fate(j) = "told" /\ R!Fate(j)' = "told"
          BY <1>2, <4>3 DEF R!Fate
        <5>2. QED
          BY <1>2, <4>2, <5>1 DEF Tells
      <4>4. CASE ~(history[j] > 0)
        <5>1. R!Fate(j)' # "told"
          BY <1>2, <4>4 DEF R!Fate
        <5>2. CASE j \in ghost.dropped
          <6>1. R!Fate(j) = "dropped" /\ ~jobs'[j].claimed
            BY <1>1, <2>1, <3>2, <4>4, <5>2 DEF R!Fate, Tale, Story
          <6>2. R!Fate(j)' \in {"owed", "failed", "over"}
            BY <1>1, <1>2, <2>1, <4>4, <6>1 DEF R!Fate
          <6>3. QED
            BY <1>2, <4>2, <6>1, <6>2 DEF Tells, R!Promise!Moves
        <5>3. CASE j \notin ghost.dropped
          <6>1. R!Fate(j) = "quiet" /\ jobs'[j].claimed
            BY <1>1, <2>1, <3>2, <4>4, <5>3 DEF R!Fate, Tale, Story, Gone, R!Held
          <6>2. R!Fate(j)' = "quiet"
            BY <1>1, <1>2, <2>1, <4>4, <6>1 DEF R!Fate
          <6>3. QED
            BY <1>2, <4>2, <6>1, <6>2 DEF Tells
        <5>4. QED
          BY <5>2, <5>3
      <4>5. QED
        BY <4>3, <4>4
    <3>3. QED
      BY <3>1, <3>2
  <2>4. \A i \in Jobs \ {j} : Same(i)
    BY <1>2 DEF Same
  <2>5. QED
    BY <1>2, <1>3, <2>3, <2>4, OneTells
<1>6. QED
  BY <1>4, <1>5 DEF R!Recleaned

\* A job that starts works, and those that are trimmed are dropped, told or claimed.
LEMMA SpawnedTells ==
  ASSUME PromiseInv, NEW j \in Jobs, R!Spawned(j), ~R!Closing
  PROVE  \A i \in Jobs : Tells(i)
<1>1. /\ UNCHANGED <<finalizing, killers, reclean, phase, record, queue, history, sends, proc>>
      /\ spawning' = spawning \ {j} /\ j \in spawning /\ phase # "down"
  BY SpawnedDoes DEF PromiseInv
<1>2. PICK gone \in SUBSET Jobs : SpawnedMoves(j, gone)
  BY SpawnedDoes DEF PromiseInv
<1>3. SamePhase /\ phase # "over" /\ phase \in {"up", "parked"}
  BY <1>1 DEF SamePhase, R!Closing, PromiseInv, JobsInv, JobTypes
<1>4. Tells(j)
  <2>1. /\ jobs[j] = NoJob /\ record[j] = NoJob /\ reclean[j] = NoJob /\ Untold(j) /\ proc[j] # "none"
        /\ j \notin ghost.dropped /\ j \notin ghost.silent /\ j \notin ghost.refused
    BY <1>1 DEF PromiseInv, JobsInv, JobInv, Unstarted, Tale
  <2>2. /\ jobs'[j] = R!Started /\ j \notin outbox' /\ j \notin ghost'.dropped /\ j \notin ghost'.silent
        /\ queue'[j] = 0 /\ history'[j] = 0 /\ j \notin ghost'.refused
    BY <1>1, <1>2, <2>1 DEF SpawnedMoves, Untold
  <2>3. R!Started # NoJob /\ R!Started.state = "running" /\ R!Started.failed = FALSE
    BY StartedSays, RecordFields DEF Says, R!Started
  <2>4. Once(j)' /\ Gone(j)' /\ Story(j, jobs[j])' /\ Owing(j, jobs[j])'
    BY <2>2, <2>3 DEF Once, Gone, Story, Owing, R!Held
  <2>5. Story(j, record[j])' /\ Story(j, reclean[j])' /\ Owing(j, reclean[j])'
    BY <1>1, <2>1 DEF Story, Owing
  <2>6. Tale(j)'
    BY <1>1, <1>3, <2>1, <2>2, <2>4, <2>5 DEF Tale
  <2>7. R!Fate(j) = "new" /\ R!Fate(j)' = "working"
    BY <1>1, <2>1, <2>2, <2>3 DEF R!Fate, Untold
  <2>8. QED
    BY <1>1, <2>6, <2>7 DEF Tells, R!Promise!Moves
<1>5. ASSUME NEW i \in gone PROVE Tells(i)
  <2>1. /\ Tale(i) /\ JobInv(i) /\ jobs[i] \in R!JobRecords /\ jobs[i] # NoJob /\ jobs[i].state = "done"
        /\ i \in Jobs /\ queue[i] \in Nat /\ history[i] \in Nat
    BY <1>2 DEF PromiseInv, JobsInv, JobTypes, SpawnedMoves, R!IsDone, R!Held
  <2>2. jobs[i].attempts \in Nat /\ proc[i] # "none" /\ i \notin spawning
    BY <2>1, RecordFields, Limit, HeldStarted
  <2>3. /\ jobs'[i] = NoJob /\ i \notin outbox'
        /\ i \in ghost'.dropped <=> i \in ghost.dropped \/ R!IsOwed(jobs[i])
        /\ i \in ghost'.silent <=> i \in ghost.silent \/ jobs[i].claimed
        /\ i \in ghost'.refused <=> i \in ghost.refused
    BY <1>2, <2>1 DEF SpawnedMoves
  <2>4. jobs[i].claimed => jobs[i].attempts = 0 /\ Untold(i)
    BY <2>1 DEF JobInv, Kept
  <2>5. jobs[i].claimed => ~R!IsOwed(jobs[i])
    BY <2>4 DEF R!IsOwed
  <2>6. ~jobs[i].claimed /\ history[i] = 0 => R!IsOwed(jobs[i])
    BY <1>3, <2>1, <2>2 DEF JobInv, Kept, Tale, Owing, R!IsOwed
  <2>7. reclean[i] # NoJob => reclean[i].state = "done" /\ reclean[i].claimed = jobs[i].claimed
    BY <2>1 DEF JobInv, Awaiting, R!Held
  <2>8. record[i] = NoJob
    BY <1>1, <2>1 DEF PromiseInv, JobsInv, Apart, R!NoJobs
  <2>9. Once(i)' /\ Gone(i)'
    BY <1>1, <2>1, <2>3, <2>4, <2>6 DEF Tale, Once, Gone, Untold
  <2>10. Story(i, jobs[i])' /\ Story(i, record[i])' /\ Story(i, reclean[i])'
    BY <1>1, <2>1, <2>3, <2>5, <2>7, <2>8 DEF Tale, Story
  <2>11. Owing(i, jobs[i])' /\ Owing(i, reclean[i])'
    BY <1>1, <2>1, <2>3 DEF Tale, Owing
  <2>12. Tale(i)'
    BY <1>1, <1>3, <2>1, <2>2, <2>3, <2>5, <2>9, <2>10, <2>11 DEF Tale, Story
  <2>13. CASE history[i] > 0
    <3>1. R!Fate(i) = "told" /\ R!Fate(i)' = "told"
      BY <1>1, <2>13 DEF R!Fate
    <3>2. QED
      BY <1>1, <2>12, <3>1 DEF Tells
  <2>14. CASE ~(history[i] > 0) /\ jobs[i].claimed
    <3>1. i \notin ghost.dropped
      BY <2>1, <2>14 DEF Tale, Story
    <3>2. R!Fate(i) = "quiet" /\ R!Fate(i)' = "quiet"
      BY <1>1, <2>1, <2>3, <2>5, <2>14, <3>1 DEF R!Fate
    <3>3. QED
      BY <1>1, <2>12, <3>2 DEF Tells
  <2>15. CASE ~(history[i] > 0) /\ ~jobs[i].claimed
    <3>1. history[i] = 0 /\ i \in ghost'.dropped
      BY <2>1, <2>3, <2>6, <2>15
    <3>2. R!Fate(i) \in {"owed", "failed"} /\ R!Fate(i)' = "dropped"
      BY <1>1, <1>3, <2>1, <2>3, <2>15, <3>1 DEF R!Fate
    <3>3. QED
      BY <1>1, <2>12, <3>2 DEF Tells, R!Promise!Moves
  <2>16. QED
    BY <2>13, <2>14, <2>15
<1>6. ASSUME NEW i \in Jobs, i # j, i \notin gone PROVE Tells(i)
  <2>1. Tale(i)
    BY DEF PromiseInv
  <2>2. StillTold(i)
    BY <1>1, <1>2, <1>6, <2>1 DEF StillTold, SpawnedMoves, Tale, Once
  <2>3. QED
    BY <1>3, <2>1, <2>2, StillTells
<1>7. QED
  BY <1>4, <1>5, <1>6

\* What Pi's turns and the beginning of a close do: they may forget messages.
LEMMA TurnsTell ==
  ASSUME PromiseInv,
         \/ R!Prompt \/ R!TurnEnds \/ R!Park \/ R!Abort \/ UNCHANGED runtimeVars
         \/ \E to \in {"closing", "leaving"} : R!BeginClosing(to)
  PROVE  \A i \in Jobs : Tells(i)
<1>1. /\ UNCHANGED <<jobs, proc, spawning, reclean, record, history, ghost>>
      /\ outbox' \subseteq outbox
      /\ queue' = queue \/ queue' = [j \in Jobs |-> 0]
      /\ phase' = phase \/ (phase = "up" /\ phase' = "parked")
         \/ (phase \in {"up", "parked"} /\ phase' \in {"closing", "leaving"})
  BY DEF R!Prompt, R!TurnEnds, R!Park, R!Abort, R!BeginClosing, R!pi, R!runtime, runtimeVars
<1>2. SamePhase
  BY <1>1 DEF SamePhase
<1>3. ASSUME NEW i \in Jobs PROVE Tells(i)
  <2>1. Tale(i) /\ queue[i] \in Nat /\ history[i] \in Nat
    BY DEF PromiseInv, JobsInv, JobTypes
  <2>2. StillTold(i)
    BY <1>1, <2>1 DEF StillTold, Tale, Once
  <2>3. QED
    BY <1>2, <2>1, <2>2, StillTells
<1>4. QED
  BY <1>3

\* What reconcileDeliveries makes of a job at rest: it may be attempted again, given up or found
\* in the history.
LEMMA MovedTells ==
  ASSUME NEW j \in Jobs, Tale(j), JobInv(j), jobs[j] \in R!JobRecords \cup {NoJob},
         queue[j] = 0, history[j] \in Nat, phase \in {"up", "parked"}, SamePhase,
         Moved(jobs'[j], j, jobs[j], outbox),
         j \in outbox' => /\ jobs[j] # NoJob
                          /\ j \in outbox \/ jobs'[j].attempts > jobs[j].attempts,
         UNCHANGED <<proc, spawning, reclean, record, queue, history, ghost>>
  PROVE  Tells(j)
<1>1. CASE jobs[j] = NoJob
  <2>1. StillTold(j)
    BY <1>1 DEF Moved, StillTold, Tale, Once
  <2>2. QED
    BY <2>1, StillTells
<1>2. CASE jobs[j] # NoJob
  <2> DEFINE old == jobs[j]
             new == jobs'[j]
  <2>1. /\ old.attempts \in Nat /\ new.attempts \in Nat /\ new # NoJob
        /\ new.state = old.state /\ new.claimed = old.claimed
        /\ \/ new.attempts = old.attempts
           \/ new.attempts = old.attempts + 1 /\ j \notin outbox /\ ~(history[j] > 0)
        /\ old.state # "done" => new = old
    <3>1. new \in R!JobRecords /\ old \in R!JobRecords
      BY <1>2 DEF Moved
    <3>2. QED
      BY <1>2, <3>1, RecordFields, Limit DEF Moved
  <2> HIDE DEF old, new
  <2>2. proc'[j] # "none" /\ j \notin spawning'
    BY <1>2, HeldStarted
  <2>3. Once(j)'
    BY <2>1 DEF Tale, Once, old, new
  <2>4. Story(j, jobs[j])'
    BY <1>2, <2>1 DEF Tale, Story, old, new
  <2>5. Owing(j, jobs[j])'
    BY <1>2, <2>1 DEF Tale, Owing, old, new
  <2>6. \/ jobs[j].state # "done" /\ jobs'[j].state # "done"
        \/ jobs[j].state = "done" /\ jobs'[j].state = "done" /\ jobs'[j].claimed = jobs[j].claimed
    BY <2>1 DEF old, new
  <2>7. QED
    BY <1>2, <2>1, <2>2, <2>3, <2>4, <2>5, <2>6, HeldTells DEF old, new
<1>3. QED
  BY <1>1, <1>2

\* Pi has settled, or the extension that was reloaded takes the runtime over.
LEMMA ReconcileTells ==
  ASSUME PromiseInv, R!AgentSettled \/ R!Attach
  PROVE  \A i \in Jobs : Tells(i)
<1>1. UNCHANGED <<proc, spawning, reclean, record, queue, history, ghost>>
  BY DEF R!AgentSettled, R!Attach, R!pi
<1>2. SamePhase
  BY DEF R!AgentSettled, R!Attach, SamePhase
<1>3. \A i \in outbox : jobs[i] # NoJob
  BY DEF PromiseInv, JobsInv, JobTypes, JobInv, Sent, R!Held
<1>4. CASE ~busy /\ phase \in {"up", "parked"} /\ \E b : R!Reconcile(jobs, outbox, b)
  <2>1. PICK b : R!Reconcile(jobs, outbox, b)
    BY <1>4
  <2>2. \A j \in Jobs : /\ Moved(jobs'[j], j, jobs[j], outbox)
                        /\ j \in outbox' => /\ jobs[j] # NoJob
                                            /\ j \in outbox \/ jobs'[j].attempts > jobs[j].attempts
    BY <1>3, <2>1, ReconcileMoves DEF PromiseInv, JobsInv, JobTypes
  <2>3. ASSUME NEW i \in Jobs PROVE Tells(i)
    <3>1. /\ Tale(i) /\ JobInv(i) /\ jobs[i] \in R!JobRecords \cup {NoJob}
          /\ queue[i] = 0 /\ history[i] \in Nat
      BY <1>4 DEF PromiseInv, Idle, JobsInv, JobTypes
    <3>2. QED
      BY <1>1, <1>2, <1>4, <2>2, <3>1, MovedTells
  <2>4. QED
    BY <2>3
<1>5. CASE UNCHANGED jobs /\ outbox' \subseteq outbox
  <2>1. ASSUME NEW i \in Jobs PROVE Tells(i)
    <3>1. Tale(i) /\ queue[i] \in Nat /\ history[i] \in Nat
      BY DEF PromiseInv, JobsInv, JobTypes
    <3>2. StillTold(i)
      BY <1>1, <1>5, <3>1 DEF StillTold, Tale, Once
    <3>3. QED
      BY <1>2, <3>1, <3>2, StillTells
  <2>2. QED
    BY <2>1
<1>6. QED
  <2>1. CASE R!AgentSettled
    BY <1>4, <1>5, <2>1 DEF R!AgentSettled, R!Flush
  <2>2. CASE R!Attach
    BY <1>4, <2>2 DEF R!Attach, PromiseInv, Idle
  <2>3. QED
    BY <2>1, <2>2

\* The session ends every job: what worked is claimed or over, what was owed is over.
LEMMA StopTells ==
  ASSUME PromiseInv, R!StopEverything
  PROVE  \A i \in Jobs : Tells(i)
<1>1. /\ phase \in {"closing", "leaving"} /\ phase' = "over"
      /\ proc' = [j \in Jobs |-> IF proc[j] = "live" THEN "gone" ELSE proc[j]]
      /\ jobs' = [j \in Jobs |-> IF R!IsLive(j) THEN [jobs[j] EXCEPT !.state = "done"] ELSE jobs[j]]
      /\ UNCHANGED <<spawning, reclean, outbox, record, queue, history, ghost>>
  BY DEF R!StopEverything, R!pi
<1>2. ASSUME NEW j \in Jobs PROVE Tells(j)
  <2>1. /\ Tale(j) /\ record[j] = NoJob /\ record'[j] = NoJob
        /\ proc'[j] = "none" <=> proc[j] = "none"
    BY <1>1 DEF PromiseInv, JobsInv, JobTypes, Apart, R!NoJobs
  <2>2. /\ jobs[j] = NoJob => jobs'[j] = NoJob
        /\ jobs[j] # NoJob =>
             /\ jobs'[j] # NoJob /\ jobs'[j].state = "done" /\ jobs'[j].claimed = jobs[j].claimed
    <3>1. CASE R!IsLive(j)
      <4>1. jobs[j] # NoJob /\ jobs[j] \in R!JobRecords /\ jobs'[j] = [jobs[j] EXCEPT !.state = "done"]
        BY <1>1, <3>1 DEF R!IsLive, R!Held, PromiseInv, JobsInv, JobTypes
      <4>2. Says(jobs'[j], "done", jobs[j].claimed, jobs[j].attempts, jobs[j].delivered)
        BY <4>1, EndSays
      <4>3. QED
        BY <4>1, <4>2, RecordFields DEF Says
    <3>2. CASE ~R!IsLive(j)
      BY <1>1, <3>2 DEF R!IsLive, R!Held
    <3>3. QED
      BY <3>1, <3>2
  <2>3. Story(j, jobs[j])' /\ Story(j, record[j])' /\ Story(j, reclean[j])'
    BY <1>1, <2>1, <2>2 DEF Tale, Story
  <2>4. Once(j)' /\ Gone(j)' /\ Owing(j, reclean[j])' /\ ~R!IsLive(j)'
    BY <1>1, <2>1, <2>2 DEF Tale, Once, Gone, Owing, R!Held, R!IsLive
  <2>5. Tale(j)'
    BY <1>1, <2>1, <2>3, <2>4 DEF Tale
  <2>6. CASE history[j] > 0
    <3>1. R!Fate(j) = "told" /\ R!Fate(j)' = "told"
      BY <1>1, <2>6 DEF R!Fate
    <3>2. QED
      BY <1>1, <2>5, <3>1 DEF Tells
  <2>7. CASE ~(history[j] > 0) /\ jobs[j] = NoJob
    <3>1. R!Fate(j)' = R!Fate(j)
      BY <1>1, <2>2, <2>7 DEF R!Fate
    <3>2. QED
      BY <1>1, <2>5, <3>1 DEF Tells
  <2>8. CASE ~(history[j] > 0) /\ jobs[j] # NoJob
    <3>1. R!Fate(j)' = IF jobs[j].claimed THEN "quiet" ELSE "over"
      BY <1>1, <2>2, <2>8 DEF R!Fate
    <3>2. R!Fate(j) = IF jobs[j].state # "done" THEN "working"
                      ELSE IF jobs[j].claimed THEN "quiet"
                      ELSE IF jobs[j].failed THEN "failed" ELSE "owed"
      BY <1>1, <2>8 DEF R!Fate
    <3>3. R!Fate(j)' = R!Fate(j) \/ <<R!Fate(j), R!Fate(j)'>> \in R!Promise!Moves
      BY <3>1, <3>2 DEF R!Promise!Moves
    <3>4. R!Fate(j)' # "told"
      BY <3>1
    <3>5. QED
      BY <1>1, <2>5, <3>3, <3>4 DEF Tells
  <2>9. QED
    BY <2>6, <2>7, <2>8
<1>3. QED
  BY <1>2

\* The record that is handed over says of each job what the memory said.
LEMMA HandOverTells ==
  ASSUME PromiseInv, R!HandOver
  PROVE  \A i \in Jobs : Tells(i)
<1>1. /\ phase = "leaving" /\ phase' = "down"
      /\ record' = [j \in Jobs |-> IF R!Held(j) THEN R!Saved(jobs[j]) ELSE NoJob]
      /\ proc' = [j \in Jobs |-> IF j \in spawning THEN "gone" ELSE proc[j]]
      /\ jobs' = R!NoJobs /\ reclean' = R!NoJobs /\ spawning' = {}
      /\ queue' = [j \in Jobs |-> 0]
      /\ UNCHANGED <<outbox, history, ghost>>
  BY DEF R!HandOver
<1>2. ASSUME NEW j \in Jobs PROVE Tells(j)
  <2>1. /\ Tale(j) /\ j \notin outbox' /\ history[j] \in Nat
        /\ queue'[j] = 0 /\ queue[j] \in Nat
        /\ jobs'[j] = NoJob /\ reclean'[j] = NoJob /\ j \notin spawning'
        /\ proc'[j] = "none" => proc[j] = "none"
    BY <1>1 DEF PromiseInv, JobsInv, JobTypes, Apart, R!NoJobs
  <2>2. /\ jobs[j] = NoJob => record'[j] = NoJob
        /\ jobs[j] # NoJob =>
             /\ record'[j] # NoJob /\ record'[j].claimed = jobs[j].claimed
             /\ record'[j].failed = jobs[j].failed
             /\ record'[j].state = "done" <=> jobs[j].state = "done"
    <3>1. CASE jobs[j] = NoJob
      BY <1>1, <3>1 DEF R!Held
    <3>2. CASE jobs[j] # NoJob
      <4>1. jobs[j] \in R!JobRecords /\ record'[j] = R!Saved(jobs[j])
        BY <1>1, <3>2 DEF R!Held, PromiseInv, JobsInv, JobTypes
      <4>2. /\ Says(record'[j], IF jobs[j].state = "done" THEN "done" ELSE "running",
                    jobs[j].claimed, jobs[j].attempts, jobs[j].delivered)
            /\ record'[j].failed = jobs[j].failed
        BY <4>1, EndSays, FailedSays
      <4>3. QED
        BY <3>2, <4>2, RecordFields DEF Says
    <3>3. QED
      BY <3>1, <3>2
  <2>3. Once(j)' /\ Gone(j)'
    BY <1>1, <2>1 DEF Tale, Once, Gone
  <2>4. Story(j, jobs[j])' /\ Story(j, record[j])' /\ Story(j, reclean[j])'
    BY <1>1, <2>1, <2>2 DEF Tale, Story
  <2>5. Owing(j, reclean[j])'
    BY <2>1 DEF Owing
  <2>6. Tale(j)'
    BY <1>1, <2>1, <2>3, <2>4, <2>5 DEF Tale
  <2>7. R!Fate(j)' = R!Fate(j)
    BY <1>1, <2>1, <2>2 DEF R!Fate
  <2>8. QED
    BY <1>1, <2>6, <2>7 DEF Tells
<1>3. QED
  BY <1>2

\* What an adopted record says of the end of its job: one that had ended was given up or not as
\* before, and was attempted unless a kill claimed it; one that ended in the gap is attempted now.
LEMMA AdoptedEnds ==
  ASSUME NEW j, record[j] \in R!JobRecords,
         record[j].state # "done" => record[j].attempts = 0
  PROVE  /\ R!Adopted(j).failed = record[j].failed
         /\ record[j].state = "done" => R!Adopted(j).state = "done"
         /\ R!Adopted(j).state = "done" /\ ~record[j].claimed /\ ~record[j].delivered =>
              /\ R!Adopted(j).attempts > 0
              /\ record[j].state # "done" =>
                   record[j].state = "running" /\ R!Adopted(j).attempts > record[j].attempts
<1> DEFINE r == record[j]
           f == R!FromHandover(r)
<1>1. r # NoJob /\ r \in R!JobRecords /\ r.attempts \in Nat
  BY RecordFields, Limit
<1>2. /\ f.state = r.state /\ f.claimed = r.claimed /\ f.delivered = r.delivered
      /\ f.failed = r.failed /\ f \in [state : {"running", "stopping", "done"}, claimed : BOOLEAN,
               attempts : Nat, delivered : BOOLEAN, failed : BOOLEAN,
               dirty : BOOLEAN, adopted : BOOLEAN]
      /\ f.attempts = IF r.state = "done" /\ ~r.delivered /\ ~r.claimed /\ r.attempts = 0
                        THEN 1 ELSE r.attempts
  BY <1>1 DEF R!FromHandover, R!JobRecords
<1>3. R!Adopted(j) = R!FirstLook(j, f)
  BY <1>1 DEF R!Adopted
<1> HIDE DEF r, f
<1>4. CASE f.state = "running" /\ proc[j] = "gone"
  <2>1. R!Adopted(j) = [f EXCEPT !.state = "done",
                                 !.attempts = IF f.claimed \/ f.delivered THEN @ ELSE @ + 1]
    BY <1>3, <1>4 DEF R!FirstLook
  <2>2. /\ R!Adopted(j).failed = f.failed /\ R!Adopted(j).state = "done"
        /\ R!Adopted(j).attempts = IF f.claimed \/ f.delivered THEN f.attempts ELSE f.attempts + 1
    BY <1>2, <2>1
  <2>3. r.attempts = 0 /\ f.attempts = 0
    BY <1>2, <1>4 DEF r
  <2>4. QED
    BY <1>2, <1>4, <2>2, <2>3 DEF r
<1>5. CASE ~(f.state = "running" /\ proc[j] = "gone")
  <2>1. R!Adopted(j) = f
    BY <1>3, <1>5 DEF R!FirstLook
  <2>2. QED
    BY <1>1, <1>2, <2>1 DEF r
<1>6. QED
  BY <1>4, <1>5

\* What becomes of one job when the next process adopts it: a job that worked may have ended.
LEMMA AdoptedTells ==
  ASSUME NEW j \in Jobs, Tale(j), JobInv(j), record[j] \in R!JobRecords, queue[j] = 0,
         j \notin outbox, history[j] \in Nat, reclean[j] = NoJob, j \notin spawning,
         phase = "down", phase' = "up",
         Moved(jobs'[j], j, R!Adopted(j), R!EndedInGap),
         j \in outbox' => j \in R!EndedInGap \/ jobs'[j].attempts > R!Adopted(j).attempts,
         record'[j] = NoJob,
         UNCHANGED <<proc, spawning, reclean, queue, history, ghost>>
  PROVE  Tells(j)
<1> DEFINE r == record[j]
           a == R!Adopted(j)
           n == jobs'[j]
<1>1. /\ r # NoJob /\ r.attempts \in Nat
      /\ r.state # "done" \/ r.claimed => r.attempts = 0
      /\ r.state # "done" => history[j] = 0
      /\ r.delivered => history[j] > 0
  BY RecordFields, Limit DEF JobInv, Kept, Untold
<1>2. /\ a \in R!JobRecords /\ a # NoJob /\ a.claimed = r.claimed /\ a.delivered = r.delivered
      /\ a.attempts >= r.attempts /\ a.attempts \in Nat /\ a.failed = r.failed
      /\ r.state = "done" => a.state = "done"
      /\ a.state = "done" /\ ~r.claimed /\ ~r.delivered =>
           /\ a.attempts > 0
           /\ r.state # "done" => r.state = "running" /\ a.attempts > r.attempts
  BY <1>1, AdoptedSays, AdoptedEnds, RecordFields, Limit
<1>3. a.state = "done" /\ r.state # "done" /\ ~r.claimed => j \in R!EndedInGap
  BY <1>1, <1>2 DEF R!EndedInGap
<1>4. j \in R!EndedInGap => r.state = "running"
  BY DEF R!EndedInGap
<1>5. /\ n \in R!JobRecords /\ n # NoJob /\ n.state = a.state /\ n.claimed = a.claimed
      /\ n.attempts \in Nat
      /\ \/ n.attempts = a.attempts
         \/ n.attempts = a.attempts + 1 /\ ~(history[j] > 0)
      /\ a.state # "done" \/ (j \in R!EndedInGap /\ ~(history[j] > 0)) => n = a
  <2>1. n \in R!JobRecords
    BY <1>2 DEF Moved
  <2>2. QED
    BY <1>2, <2>1, RecordFields, Limit DEF Moved
<1>6. j \in outbox' => j \in R!EndedInGap \/ n.attempts > a.attempts
  OBVIOUS
<1> HIDE DEF r, a, n
<1>7. Once(j)' /\ Gone(j)'
  <2>1. j \in outbox' => history[j] = 0
    BY <1>1, <1>2, <1>4, <1>5, <1>6
  <2>2. Once(j)'
    BY <2>1 DEF Tale, Once
  <2>3. Gone(j)'
    BY <1>5 DEF Gone, R!Held, n
  <2>4. QED
    BY <2>2, <2>3
<1>8. Story(j, jobs[j])' /\ Story(j, record[j])' /\ Story(j, reclean[j])'
  BY <1>1, <1>2, <1>5 DEF Tale, Story, r, n
<1>9. Owing(j, jobs[j])' /\ Owing(j, reclean[j])'
  <2>1. n.state = "done" /\ ~n.claimed => n.attempts > 0 \/ history[j] > 0
    BY <1>1, <1>2, <1>5
  <2>2. QED
    BY <2>1 DEF Owing, n
<1>10. Tale(j)'
  BY <1>7, <1>8, <1>9 DEF Tale
<1>11. CASE history[j] > 0
  <2>1. R!Fate(j) = "told" /\ R!Fate(j)' = "told"
    BY <1>11 DEF R!Fate
  <2>2. QED
    BY <1>10, <2>1 DEF Tells
<1>12. CASE ~(history[j] > 0) /\ r.state # "done"
  <2>1. R!Fate(j) = "working"
    BY <1>1, <1>12 DEF R!Fate, r
  <2>2. n.state = "done" /\ ~n.claimed => n.failed = r.failed /\ ~r.failed
    BY <1>1, <1>2, <1>3, <1>5, <1>12 DEF Tale, Story, r
  <2>3. R!Fate(j)' \in {"working", "quiet", "owed"}
    BY <1>5, <1>12, <2>2 DEF R!Fate, n
  <2>4. QED
    BY <1>10, <2>1, <2>3 DEF Tells, R!Promise!Moves
<1>13. CASE ~(history[j] > 0) /\ r.state = "done"
  <2>1. /\ r.claimed => R!Fate(j) = "quiet"
        /\ ~r.claimed => R!Fate(j) \in {"owed", "failed"}
    BY <1>1, <1>13 DEF R!Fate, r
  <2>2. /\ r.claimed => R!Fate(j)' = "quiet"
        /\ ~r.claimed => R!Fate(j)' \in {"owed", "failed"}
    BY <1>2, <1>5, <1>13 DEF R!Fate, n
  <2>3. QED
    BY <1>10, <2>1, <2>2 DEF Tells, R!Promise!Moves
<1>14. QED
  BY <1>11, <1>12, <1>13

\* The next process adopts the jobs.
LEMMA AdoptTells ==
  ASSUME PromiseInv, R!Adopt
  PROVE  \A i \in Jobs : Tells(i)
<1> DEFINE js == [j \in Jobs |-> R!Adopted(j)]
<1>1. /\ phase = "down" /\ phase' = "up" /\ record' = R!NoJobs
      /\ UNCHANGED <<proc, spawning, reclean, queue, history, ghost>>
      /\ R!Reconcile(js, R!EndedInGap, binding')
  BY DEF R!Adopt, R!pi
<1>2. /\ jobs = R!NoJobs /\ reclean = R!NoJobs /\ spawning = {} /\ outbox = {}
      /\ \A j \in Jobs : queue[j] = 0
  BY <1>1 DEF PromiseInv, Idle, JobsInv, Apart
<1>3. ASSUME NEW j \in Jobs
      PROVE  /\ js[j] = R!Adopted(j)
             /\ record[j] = NoJob => js[j] = NoJob
             /\ record[j] # NoJob =>
                  record[j] \in R!JobRecords /\ js[j] \in R!JobRecords /\ js[j] # NoJob
  <2>1. record[j] = NoJob => R!Adopted(j) = NoJob
    BY DEF R!Adopted
  <2>2. record[j] # NoJob =>
          /\ record[j] \in R!JobRecords
          /\ record[j].state # "done" \/ record[j].claimed => record[j].attempts = 0
    BY DEF PromiseInv, JobsInv, JobTypes, JobInv, Kept
  <2>3. record[j] # NoJob => R!Adopted(j) \in R!JobRecords /\ R!Adopted(j) # NoJob
    BY <2>2, AdoptedSays, RecordFields
  <2>4. QED
    BY <2>1, <2>2, <2>3
<1>4. js \in [Jobs -> R!JobRecords \cup {NoJob}]
  <2>1. \A j \in Jobs : js[j] \in R!JobRecords \cup {NoJob}
    BY <1>3
  <2>2. QED
    BY <2>1
<1> HIDE DEF js
<1>5. R!EndedInGap \in SUBSET Jobs /\ \A i \in R!EndedInGap : js[i] # NoJob
  BY <1>3 DEF R!EndedInGap
<1>6. \A j \in Jobs : /\ Moved(jobs'[j], j, js[j], R!EndedInGap)
                      /\ j \in outbox' => /\ js[j] # NoJob
                                          /\ j \in R!EndedInGap \/ jobs'[j].attempts > js[j].attempts
  BY <1>1, <1>4, <1>5, ReconcileMoves
<1>7. ASSUME NEW j \in Jobs PROVE Tells(j)
  <2>1. /\ Tale(j) /\ JobInv(j) /\ history[j] \in Nat /\ queue[j] = 0 /\ j \notin outbox
        /\ reclean[j] = NoJob /\ j \notin spawning /\ jobs[j] = NoJob /\ record'[j] = NoJob
    BY <1>1, <1>2 DEF PromiseInv, JobsInv, JobTypes, R!NoJobs
  <2>2. CASE record[j] # NoJob
    BY <1>1, <1>3, <1>6, <2>1, <2>2, AdoptedTells
  <2>3. CASE record[j] = NoJob
    <3>1. jobs'[j] = NoJob /\ j \notin outbox'
      BY <1>3, <1>6, <2>3 DEF Moved
    <3>2. Tale(j)'
      BY <1>1, <2>1, <2>3, <3>1 DEF Tale, Once, Gone, Story, Owing, R!Held, R!IsLive
    <3>3. R!Fate(j)' = R!Fate(j)
      BY <1>1, <2>3, <3>1 DEF R!Fate
    <3>4. QED
      BY <1>1, <3>2, <3>3 DEF Tells
  <2>4. QED
    BY <2>2, <2>3
<1>8. QED
  BY <1>7

\* A job of a record that is refused was told, killed or dropped, or is refused now.
LEMMA RefuseTells ==
  ASSUME PromiseInv, R!Refuse
  PROVE  \A i \in Jobs : Tells(i)
<1>1. /\ phase = "down" /\ phase' = "up" /\ record' = R!NoJobs
      /\ UNCHANGED <<jobs, spawning, reclean, outbox, queue, history>>
      /\ \A j \in Jobs : proc'[j] = "none" => proc[j] = "none"
  BY DEF R!Refuse, R!pi, PromiseInv, JobsInv, JobTypes
<1>2. \A j \in Jobs :
        /\ j \in ghost'.dropped <=> j \in ghost.dropped
        /\ j \in ghost'.silent <=>
              j \in ghost.silent \/ (record[j] # NoJob /\ record[j].state = "done"
                                     /\ record[j].claimed)
        /\ j \in ghost'.refused <=> j \in ghost.refused \/ record[j] # NoJob
  BY DEF R!Refuse, PromiseInv, JobsInv, JobTypes
<1>3. /\ jobs = R!NoJobs /\ reclean = R!NoJobs /\ spawning = {} /\ outbox = {}
      /\ \A j \in Jobs : queue[j] = 0
  BY <1>1 DEF PromiseInv, Idle, JobsInv, Apart
<1>4. ASSUME NEW j \in Jobs PROVE Tells(j)
  <2>1. /\ Tale(j) /\ queue[j] = 0 /\ j \notin outbox /\ j \notin spawning
        /\ jobs[j] = NoJob /\ reclean[j] = NoJob /\ record'[j] = NoJob
        /\ history[j] \in Nat
    BY <1>1, <1>3 DEF PromiseInv, JobsInv, JobTypes, R!NoJobs
  <2>2. proc[j] = "none" => record[j] = NoJob
    BY DEF PromiseInv, JobsInv, JobInv, Unstarted
  <2>3. Once(j)' /\ Gone(j)'
    BY <1>1, <2>1 DEF Tale, Once, Gone
  <2>4. /\ Story(j, jobs[j])' /\ Story(j, record[j])' /\ Story(j, reclean[j])'
        /\ Owing(j, jobs[j])' /\ Owing(j, reclean[j])'
    BY <1>1, <2>1 DEF Story, Owing
  <2>5. j \in ghost'.dropped => j \notin ghost'.silent
    BY <1>2, <2>1 DEF Tale, Story
  <2>6. Tale(j)'
    BY <1>1, <1>2, <2>1, <2>2, <2>3, <2>4, <2>5 DEF Tale
  <2>7. CASE history[j] > 0
    <3>1. R!Fate(j) = "told" /\ R!Fate(j)' = "told"
      BY <1>1, <2>7 DEF R!Fate
    <3>2. QED
      BY <1>1, <2>6, <3>1 DEF Tells
  <2>8. CASE ~(history[j] > 0) /\ record[j] = NoJob
    <3>1. R!Fate(j)' = R!Fate(j)
      BY <1>1, <1>2, <2>1, <2>8 DEF R!Fate
    <3>2. QED
      BY <1>1, <2>6, <3>1 DEF Tells
  <2>9. CASE ~(history[j] > 0) /\ record[j] # NoJob /\ record[j].state # "done"
    <3>1. j \notin ghost'.dropped /\ j \notin ghost'.silent
      BY <1>2, <2>1, <2>9 DEF Tale, Story
    <3>2. R!Fate(j) = "working" /\ R!Fate(j)' = "refused"
      BY <1>1, <1>2, <2>1, <2>9, <3>1 DEF R!Fate
    <3>3. QED
      BY <1>1, <2>6, <3>2 DEF Tells, R!Promise!Moves
  <2>10. CASE ~(history[j] > 0) /\ record[j] # NoJob /\ record[j].state = "done" /\ record[j].claimed
    <3>1. j \notin ghost'.dropped /\ j \in ghost'.silent
      BY <1>2, <2>1, <2>10 DEF Tale, Story
    <3>2. R!Fate(j) = "quiet" /\ R!Fate(j)' = "quiet"
      BY <1>1, <2>1, <2>10, <3>1 DEF R!Fate
    <3>3. QED
      BY <1>1, <2>6, <3>2 DEF Tells
  <2>11. CASE ~(history[j] > 0) /\ record[j] # NoJob /\ record[j].state = "done" /\ ~record[j].claimed
    <3>1. j \notin ghost'.silent /\ j \in ghost'.refused
      BY <1>2, <2>1, <2>11 DEF Tale, Story
    <3>2. R!Fate(j) \in {"owed", "failed"} /\ R!Fate(j)' \in {"dropped", "refused"}
      BY <1>1, <2>1, <2>11, <3>1 DEF R!Fate
    <3>3. QED
      BY <1>1, <2>6, <3>2 DEF Tells, R!Promise!Moves
  <2>12. QED
    BY <2>7, <2>8, <2>9, <2>10, <2>11
<1>5. QED
  BY <1>4

\* No attachment has the number 0.
LEMMA Attached == \A b \in R!Bindings : b \in Nat /\ b > 0
BY RuntimeAssumption DEF R!Bindings

\* A message goes to Pi only from a session that is up, and a session that rests has none.
LEMMA IdleStep ==
  ASSUME JobTypes, Idle, [R!Next]_runtimeVars
  PROVE  Idle'
<1>1. ASSUME NEW j \in Jobs, R!JobStep(j)
      PROVE  Idle'
  <2>1. UNCHANGED <<phase, binding>>
    BY <1>1 DEF R!JobStep, R!StartJob, R!Spawned, R!Exit, R!Finalize, R!Finalized, R!Kill,
       R!KillTold,
       R!KillWaived, R!Reclean, R!Recleaned, R!Enter, R!ReadTail, R!runtime
  <2>2. CASE UNCHANGED <<busy, queue>>
    BY <2>1, <2>2 DEF Idle
  <2>3. CASE R!Enter(j)
    BY <2>1, <2>3 DEF R!Enter, Idle
  <2>4. CASE \E b \in R!Bindings : R!ReadTail(j, b)
    <3>1. PICK b \in R!Bindings : R!ReadTail(j, b)
      BY <2>4
    <3>2. (b = binding /\ busy' = TRUE) \/ UNCHANGED <<busy, queue>>
      BY <3>1 DEF R!ReadTail
    <3>3. CASE b = binding /\ busy' = TRUE
      <4>1. phase = "up"
        BY <3>3, Attached DEF Idle
      <4>2. QED
        BY <2>1, <3>3, <4>1 DEF Idle
    <3>4. QED
      BY <2>2, <3>2, <3>3
  <2>5. QED
    BY <1>1, <2>2, <2>3, <2>4 DEF R!JobStep, R!StartJob, R!Spawned, R!Exit, R!Finalize, R!Finalized,
       R!Kill, R!KillTold, R!KillWaived, R!Reclean, R!Recleaned, R!pi
<1>2. CASE R!SessionStep
  <2>1. CASE R!Prompt
    BY <2>1 DEF R!Prompt, R!runtime, Idle
  <2>2. CASE R!TurnEnds
    BY <2>2 DEF R!TurnEnds, R!runtime, Idle
  <2>3. CASE R!Abort
    BY <2>3 DEF R!Abort, R!runtime, Idle
  <2>4. CASE R!AgentSettled
    BY <2>4 DEF R!AgentSettled, Idle
  <2>5. CASE R!Park
    BY <2>5 DEF R!Park, R!pi, Idle
  <2>6. CASE R!Attach
    BY <2>6 DEF R!Attach, R!pi, Idle
  <2>7. CASE \E to \in {"closing", "leaving"} : R!BeginClosing(to)
    BY <2>7 DEF R!BeginClosing, R!pi, Idle
  <2>8. CASE R!StopEverything
    BY <2>8 DEF R!StopEverything, R!pi, Idle
  <2>9. CASE R!HandOver
    BY <2>9 DEF R!HandOver, Idle
  <2>10. CASE R!Adopt
    BY <2>10 DEF R!Adopt, R!pi, Idle
  <2>11. CASE R!Refuse
    BY <2>11 DEF R!Refuse, R!pi, Idle
  <2>12. QED
    BY <1>2, <2>1, <2>2, <2>3, <2>4, <2>5, <2>6, <2>7, <2>8, <2>9, <2>10, <2>11
       DEF R!SessionStep
<1>3. CASE UNCHANGED runtimeVars
  BY <1>3 DEF runtimeVars, Idle
<1>4. QED
  BY <1>1, <1>2, <1>3 DEF R!Next

\* Every step moves every job as the promise allows.
LEMMA TellsStep ==
  ASSUME PromiseInv, [R!Next]_runtimeVars
  PROVE  \A i \in Jobs : Tells(i)
<1>1. ASSUME NEW j \in Jobs, R!JobStep(j)
      PROVE  \A i \in Jobs : Tells(i)
  <2>1. CASE \/ R!StartJob(j) \/ R!Exit(j) \/ R!KillTold(j) \/ (R!Spawned(j) /\ R!Closing)
             \/ \E b \in R!Bindings : R!ReadTail(j, b)
    BY <2>1, StillSteps
  <2>2. CASE R!Spawned(j) /\ ~R!Closing
    BY <2>2, SpawnedTells
  <2>3. CASE R!Finalize(j) \/ R!Kill(j) \/ R!KillWaived(j)
    BY <2>3, RunningTells
  <2>4. CASE R!Finalized(j)
    BY <2>4, FinalizedTells
  <2>5. CASE R!Reclean(j)
    BY <2>5, RecleanTells
  <2>6. CASE R!Recleaned(j)
    BY <2>6, RecleanedTells
  <2>7. CASE R!Enter(j)
    BY <2>7, EnterTells
  <2>8. QED
    BY <1>1, <2>1, <2>2, <2>3, <2>4, <2>5, <2>6, <2>7 DEF R!JobStep
<1>2. CASE R!SessionStep
  <2>1. CASE \/ R!Prompt \/ R!TurnEnds \/ R!Park \/ R!Abort
             \/ \E to \in {"closing", "leaving"} : R!BeginClosing(to)
    BY <2>1, TurnsTell
  <2>2. CASE R!AgentSettled \/ R!Attach
    BY <2>2, ReconcileTells
  <2>3. CASE R!StopEverything
    BY <2>3, StopTells
  <2>4. CASE R!HandOver
    BY <2>4, HandOverTells
  <2>5. CASE R!Adopt
    BY <2>5, AdoptTells
  <2>6. CASE R!Refuse
    BY <2>6, RefuseTells
  <2>7. QED
    BY <1>2, <2>1, <2>2, <2>3, <2>4, <2>5, <2>6 DEF R!SessionStep
<1>3. CASE UNCHANGED runtimeVars
  BY <1>3, TurnsTell
<1>4. QED
  BY <1>1, <1>2, <1>3 DEF R!Next

\* At the start nothing has happened to any job.
LEMMA PromiseStart == R!Init => PromiseInv /\ R!Promise!Init
<1> SUFFICES ASSUME R!Init PROVE PromiseInv /\ R!Promise!Init
  OBVIOUS
<1>1. JobsInv /\ Idle
  BY JobsStart DEF R!Init, Idle
<1>2. ASSUME NEW j \in Jobs PROVE Tale(j) /\ R!Fate(j) = "new"
  BY DEF R!Init, R!NoJobs, R!Held, R!IsLive, R!Fate, Tale, Once, Gone, Story, Owing
<1>3. R!Promise!Init
  BY <1>2 DEF R!Init, R!Promise!Init
<1>4. QED
  BY <1>1, <1>2, <1>3 DEF PromiseInv

\* A step of the runtime is a step of the promise, or changes nothing of it.
LEMMA PromiseStep ==
  ASSUME PromiseInv, [R!Next]_(R!vars)
  PROVE  PromiseInv' /\ [R!Promise!Next]_(R!Promise!vars)
<1>1. [R!Next]_runtimeVars
  BY DEF R!vars, runtimeVars
<1>2. \A i \in Jobs : Tells(i)
  BY <1>1, TellsStep
<1>3. PromiseInv'
  <2>1. JobsInv' /\ Idle'
    BY <1>1, JobsStep, IdleStep DEF PromiseInv, JobsInv
  <2>2. QED
    BY <1>2, <2>1 DEF PromiseInv, Tells
<1>4. R!Promise!Next
  <2>1. [i \in Jobs |-> R!Fate(i)]' \in [Jobs -> R!Promise!Fates]
    BY DEF R!Fate, R!Promise!Fates
  <2>2. \A i \in Jobs : /\ [k \in Jobs |-> R!Fate(k)][i] = R!Fate(i)
                        /\ [k \in Jobs |-> R!Fate(k)]'[i] = R!Fate(i)'
    OBVIOUS
  <2>3. history' = [i \in Jobs |-> IF R!Fate(i) # "told" /\ R!Fate(i)' = "told" THEN history[i] + 1
                                   ELSE history[i]]
    <3>1. history' = [i \in Jobs |-> history'[i]]
      BY <1>3 DEF PromiseInv, JobsInv, JobTypes
    <3>2. QED
      BY <1>2, <3>1 DEF Tells
  <2>4. QED
    BY <1>2, <2>1, <2>2, <2>3 DEF R!Promise!Next, Tells
<1>5. QED
  BY <1>3, <1>4

\* Through aborts, reloads, restarts, kills and records written back, the completion of a job
\* enters the conversation at most once, and none of a job that was killed or whose session is over:
\* the runtime implements JobCompletions (shell-jobs.ts, "One bounded completion message per job").
THEOREM TellsAtMostOnceHolds == R!Spec => TellsAtMostOnce
<1>1. R!Init => PromiseInv /\ R!Promise!Init
  BY PromiseStart
<1>2. PromiseInv /\ [R!Next]_(R!vars) => PromiseInv' /\ [R!Promise!Next]_(R!Promise!vars)
  BY PromiseStep
<1>3. QED
  BY <1>1, <1>2, PTL DEF R!Spec, TellsAtMostOnce, R!TellsAtMostOnce, R!Promise!Spec
------------------------------------------------------------------------------
(* The types *)

\* What the other variables hold: each event is counted, a kill waits for a job, an attachment has
\* its number.
Spends ==
    /\ spent \in [R!Events -> Nat]
    /\ \A e \in {"kill", "reload", "restart"} : spent[e] <= Bound[e]
RestTypes ==
    /\ Spends
    /\ \A j \in Jobs : killers[j] <= spent["kill"]
    /\ binding \in R!Bindings \cup {0}
    /\ reads \subseteq Jobs \X R!Bindings
    /\ busy \in BOOLEAN /\ settled \in BOOLEAN

\* An event is counted up to its bound.
LEMMA SpendCounts ==
  ASSUME Spends, NEW e \in R!Events, R!Spend(e)
  PROVE  Spends' /\ spent'[e] = spent[e] + 1 /\ \A f \in R!Events \ {e} : spent'[f] = spent[f]
<1>1. spent[e] < Bound[e] /\ spent' = [spent EXCEPT ![e] = spent[e] + 1]
  BY Zenon DEF R!Spend
<1>2. QED
  BY <1>1, RuntimeAssumption DEF Spends, R!Events

\* Logs are read for the attachment in the binding.
LEMMA FlushReads ==
  ASSUME NEW box \in SUBSET Jobs, NEW js, NEW b \in R!Bindings \cup {0}, R!Flush(box, js, b),
         reads \subseteq Jobs \X R!Bindings
  PROVE  reads' \subseteq Jobs \X R!Bindings
BY DEF R!Flush

LEMMA ReconcileReads ==
  ASSUME NEW box \in SUBSET Jobs, NEW js, NEW b \in R!Bindings \cup {0}, R!Reconcile(js, box, b),
         reads \subseteq Jobs \X R!Bindings
  PROVE  reads' \subseteq Jobs \X R!Bindings
<1> DEFINE next == [j \in Jobs |-> R!Reconciled(j, js[j], box)]
           again == {j \in Jobs : js[j] # NoJob /\ next[j].attempts > js[j].attempts}
           acked == {j \in Jobs : js[j] # NoJob /\ next[j].delivered /\ ~js[j].delivered}
<1>1. R!Flush((box \cup again) \ acked, next, b)
  BY DEF R!Reconcile
<1>2. (box \cup again) \ acked \in SUBSET Jobs
  OBVIOUS
<1> HIDE DEF next, again, acked
<1>3. QED
  BY <1>1, <1>2, FlushReads

\* Each step keeps these types.
LEMMA RestKept ==
  ASSUME JobsInv, RestTypes, [R!Next]_(R!vars)
  PROVE  RestTypes'
<1>0. /\ killers \in [Jobs -> Nat] /\ outbox \in SUBSET Jobs
      /\ Spends /\ spent \in [R!Events -> Nat]
      /\ binding \in R!Bindings \cup {0} /\ reads \subseteq Jobs \X R!Bindings
  BY DEF JobsInv, JobTypes, RestTypes, Spends
<1>1. ASSUME NEW j \in Jobs, R!JobStep(j)
      PROVE  RestTypes'
  <2>1. CASE R!Kill(j)
    <3>1. R!Spend("kill") /\ killers' = [killers EXCEPT ![j] = killers[j] + 1]
      BY <2>1, Zenon DEF R!Kill
    <3>2. UNCHANGED <<binding, reads, busy, settled>>
      BY <2>1, Zenon DEF R!Kill, R!pi
    <3>3. QED
      BY <1>0, <3>1, <3>2, SpendCounts DEF RestTypes, R!Events, Spends
  <2>2. CASE R!KillTold(j) \/ R!KillWaived(j)
    <3>1. killers' = [killers EXCEPT ![j] = killers[j] - 1]
      BY <2>2, Zenon DEF R!KillTold, R!KillWaived
    <3>2. UNCHANGED <<binding, reads, busy, settled, spent>>
      BY <2>2, Zenon DEF R!KillTold, R!KillWaived, R!pi
    <3>3. \A i \in Jobs : killers'[i] = killers[i] \/ killers'[i] = killers[i] - 1
      BY <1>0, <3>1
    <3>4. spent["kill"] \in Nat
      BY <1>0 DEF R!Events
    <3>5. \A i \in Jobs : killers'[i] <= spent'["kill"]
      BY <1>0, <3>2, <3>3, <3>4 DEF RestTypes
    <3>6. QED
      BY <3>2, <3>5 DEF RestTypes, Spends
  <2>3. CASE R!Reclean(j)
    <3>1. R!Spend("reclean") /\ UNCHANGED <<killers, binding, reads, busy, settled>>
      BY <2>3, Zenon DEF R!Reclean, R!pi
    <3>2. QED
      BY <1>0, <3>1, SpendCounts DEF RestTypes, R!Events, Spends
  <2>4. CASE R!StartJob(j) \/ R!Spawned(j) \/ R!Exit(j) \/ R!Finalize(j) \/ R!Recleaned(j) \/ R!Enter(j)
    <3>1. UNCHANGED <<killers, binding, reads, busy, settled, spent>>
      BY <2>4, Zenon DEF R!StartJob, R!Spawned, R!Exit, R!Finalize, R!Recleaned, R!Enter, R!pi, R!runtime
    <3>2. QED
      BY <3>1 DEF RestTypes, Spends
  <2>5. CASE R!Finalized(j)
    <3>1. reads' = reads \/ R!Flush(outbox \cup {j}, jobs', binding)
      BY <2>5, Zenon DEF R!Finalized
    <3>2. UNCHANGED <<killers, binding, busy, settled, spent>>
      BY <2>5, Zenon DEF R!Finalized, R!pi
    <3>3. reads' \subseteq Jobs \X R!Bindings
      BY <1>0, <3>1, FlushReads
    <3>4. QED
      BY <3>2, <3>3 DEF RestTypes, Spends
  <2>6. ASSUME NEW b \in R!Bindings, R!ReadTail(j, b)
        PROVE  RestTypes'
    <3>1. /\ reads' = reads \ {<<j, b>>} /\ UNCHANGED <<killers, binding, settled>>
          /\ busy' = busy \/ busy' = TRUE
          /\ spent' = spent \/ R!Spend("throw")
      BY <2>6, Zenon DEF R!ReadTail
    <3>2. QED
      BY <1>0, <3>1, SpendCounts DEF RestTypes, R!Events, Spends
  <2>7. QED
    BY <1>1, <2>1, <2>2, <2>3, <2>4, <2>5, <2>6 DEF R!JobStep
<1>2. CASE R!SessionStep
  <2>1. CASE R!Prompt \/ R!TurnEnds
    <3>1. UNCHANGED <<killers, binding, reads, spent>> /\ busy' \in BOOLEAN /\ settled' \in BOOLEAN
      BY <2>1 DEF R!Prompt, R!TurnEnds, R!runtime, RestTypes
    <3>2. QED
      BY <3>1 DEF RestTypes, Spends
  <2>2. CASE R!Abort
    <3>1. /\ R!Spend("abort") /\ UNCHANGED <<killers, binding, reads>>
          /\ busy' = FALSE /\ settled' = TRUE
      BY <2>2, Zenon DEF R!Abort, R!runtime
    <3>2. QED
      BY <1>0, <3>1, SpendCounts DEF RestTypes, R!Events, Spends
  <2>3. CASE R!AgentSettled
    <3>1. /\ UNCHANGED <<killers, binding, busy>> /\ settled' = FALSE
          /\ spent' = spent \/ R!Spend("throw")
          /\ \/ reads' = reads
             \/ R!Reconcile(jobs, outbox, binding)
             \/ R!Flush(outbox, jobs, binding)
      BY <2>3, Zenon DEF R!AgentSettled
    <3>2. reads' \subseteq Jobs \X R!Bindings
      BY <1>0, <3>1, FlushReads, ReconcileReads
    <3>3. QED
      BY <1>0, <3>1, <3>2, SpendCounts DEF RestTypes, R!Events, Spends
  <2>4. CASE R!Park
    <3>1. /\ R!Spend("reload") /\ UNCHANGED <<killers, reads, busy, settled>> /\ binding' = 0
      BY <2>4, Zenon DEF R!Park, R!pi
    <3>2. QED
      BY <1>0, <3>1, SpendCounts DEF RestTypes, R!Events, Spends
  <2>5. CASE R!Attach \/ R!Adopt
    <3>1. /\ binding' = spent["reload"] + spent["restart"] + 1
          /\ UNCHANGED <<killers, busy, settled, spent>>
      BY <2>5, Zenon DEF R!Attach, R!Adopt, R!pi
    <3>2. binding' \in R!Bindings
      BY <1>0, <3>1, RuntimeAssumption DEF Spends, R!Bindings, R!Events
    <3>3. \/ R!Reconcile(jobs, outbox, binding')
          \/ R!Reconcile([i \in Jobs |-> R!Adopted(i)], R!EndedInGap, binding')
      BY <2>5, Zenon DEF R!Attach, R!Adopt
    <3>4. R!EndedInGap \in SUBSET Jobs
      BY DEF R!EndedInGap
    <3>5. reads' \subseteq Jobs \X R!Bindings
      BY <1>0, <3>2, <3>3, <3>4, ReconcileReads
    <3>6. QED
      BY <3>1, <3>2, <3>5 DEF RestTypes, Spends
  <2>6. ASSUME NEW to \in {"closing", "leaving"}, R!BeginClosing(to)
        PROVE  RestTypes'
    <3>1. /\ UNCHANGED <<killers, reads, busy, settled>> /\ binding' = 0
          /\ spent' = spent \/ R!Spend("restart")
      BY <2>6, Zenon DEF R!BeginClosing, R!pi
    <3>2. QED
      BY <1>0, <3>1, SpendCounts DEF RestTypes, R!Events, Spends
  <2>7. CASE R!StopEverything
    BY <2>7 DEF R!StopEverything, R!pi, RestTypes, Spends
  <2>8. CASE R!HandOver
    BY <2>8 DEF R!HandOver, RestTypes, Spends
  <2>9. CASE R!Refuse
    <3>1. /\ binding' = spent["reload"] + spent["restart"] + 1
          /\ UNCHANGED <<killers, reads, busy, settled, spent>>
      BY <2>9, Zenon DEF R!Refuse, R!pi
    <3>2. binding' \in R!Bindings
      BY <1>0, <3>1, RuntimeAssumption DEF Spends, R!Bindings, R!Events
    <3>3. QED
      BY <3>1, <3>2 DEF RestTypes, Spends
  <2>10. QED
    BY <1>2, <2>1, <2>2, <2>3, <2>4, <2>5, <2>6, <2>7, <2>8, <2>9 DEF R!SessionStep
<1>3. CASE UNCHANGED R!vars
  BY <1>3 DEF R!vars, RestTypes, Spends
<1>4. QED
  BY <1>1, <1>2, <1>3 DEF R!Next

\* The jobs of both levels, their processes, records, messages and claims, have their types,
\* whichever level moves (shell-jobs.ts, shell-jobs-handover.ts).
THEOREM BothTypesHold == MCSpec => []BothTypeOK
<1>1. MCSpec => R!Spec
  <2>1. MCInit => R!Init
    BY DEF MCInit
  <2>2. [MCNext]_<<part, vars, runtimeVars>> => [R!Next]_(R!vars)
    BY DEF MCNext, runtimeVars, R!vars
  <2>3. QED
    BY <2>1, <2>2, PTL DEF MCSpec, R!Spec
<1>2. MCSpec => Spec
  <2>1. MCInit => Init
    BY DEF MCInit
  <2>2. [MCNext]_<<part, vars, runtimeVars>> => [Next]_vars
    BY DEF MCNext
  <2>3. QED
    BY <2>1, <2>2, PTL DEF MCSpec, Spec
<1>3. R!Init => RestTypes
  <2> SUFFICES ASSUME R!Init
               PROVE  RestTypes
    OBVIOUS
  <2>1. Spends /\ spent["kill"] = 0
    BY RuntimeAssumption DEF R!Init, Spends, R!Events
  <2>2. binding \in R!Bindings
    BY RuntimeAssumption DEF R!Init, R!Bindings
  <2>3. /\ \A j \in Jobs : killers[j] = 0
        /\ reads = {} /\ busy = FALSE /\ settled = FALSE
    BY DEF R!Init
  <2>4. \A j \in Jobs : killers[j] <= spent["kill"]
    BY <2>1, <2>3
  <2>5. busy \in BOOLEAN /\ settled \in BOOLEAN /\ reads \subseteq Jobs \X R!Bindings
    BY <2>3, Zenon
  <2>6. QED
    BY <2>1, <2>2, <2>4, <2>5 DEF RestTypes
<1>4. JobsInv /\ RestTypes => R!TypeOK
  <2>1. ASSUME JobsInv, RestTypes
        PROVE  R!TypeOK
    <3>1. killers \in [Jobs -> 0 .. Bound["kill"]]
      BY <2>1, RuntimeAssumption DEF JobsInv, JobTypes, RestTypes, Spends, R!Events
    <3>2. QED
      BY <2>1, <3>1 DEF JobsInv, JobTypes, RestTypes, R!TypeOK
  <2>2. QED
    BY <2>1
<1>5. JobsInv /\ RestTypes /\ [R!Next]_(R!vars) => RestTypes'
  BY RestKept
<1>6. IInv => TypeOK
  BY DEF IInv
<1>7. R!TypeOK /\ TypeOK => BothTypeOK
  BY DEF BothTypeOK
<1>8. QED
  BY <1>1, <1>2, <1>3, <1>4, <1>5, <1>6, <1>7, JobsHold, Invariance, PTL DEF R!Spec
=============================================================================
