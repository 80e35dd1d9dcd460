------------------------------- MODULE IdleWait -------------------------------
(***************************************************************************)
(* The wait for a local model server that stopped answering                  *)
(* (src/lib/rate-limit-recovery/idle-wait.ts, with its part of controller.ts  *)
(* and transient.ts): the failed run ends, the session waits while it is      *)
(* idle, and a message starts the run again when the server answers.  The     *)
(* open wait is an entry of the session, so that a reload or a restart goes   *)
(* on with it.                                                             *)
(*                                                                         *)
(* One interactive main session; failures that are not local, which have a    *)
(* budget of their own, end the run here.                                    *)
(***************************************************************************)
EXTENDS Naturals

CONSTANTS MaxStarts  \* bound: reloads and new processes

MAX_FAILURES_AFTER_ANSWER == 3

VARIABLES
    up,       \* the session's module runs
    run,      \* a run is under way
    active,   \* LocalIdleWait.active
    resume,   \* the message that starts the run again is on its way
    entry,    \* the last local-wait entry of the branch: none, open, closed
    age,      \* of that entry, once nobody waits: 0, over 10 minutes, over 48 hours
    down,     \* the outage: known, failures right after an answer, answered last time
    starts,
    ended,    \* ghost: the user ended the last wait
    lapsed,   \* ghost: the last wait was not gone on with, after a late return or in a fork
    broke,    \* ghost: the last wait failed, or its message was not sent or was lost
    answered, \* ghost: the run under way, or on its way, is one that an answer started
    again     \* ghost: failures in a row of such runs

wait == <<active, resume, entry, age>>
count == <<answered, again>>
vars == <<up, run, wait, down, starts, ended, lapsed, broke, count>>

NoOutage == [known |-> FALSE, failed |-> 0, answered |-> FALSE]

Init ==
    /\ up = TRUE /\ run = FALSE
    /\ active = FALSE /\ resume = FALSE /\ entry = "none" /\ age = 0
    /\ down = NoOutage
    /\ starts = 0
    /\ ended = FALSE /\ lapsed = FALSE /\ broke = FALSE
    /\ answered = FALSE /\ again = 0

------------------------------------------------------------------------------
(* Runs *)

\* Mutant of Cancelled: the wait ends without its entry.
CancelledQuietly == active' = FALSE /\ UNCHANGED entry

\* cancel: also before a run that carries the task on.
Cancelled ==
    /\ active' = FALSE
    /\ entry' = IF active THEN "closed" ELSE entry

\* Mutant of Carried: a run that an answer started is like any other.
CarriedByReport(kind) == kind = "report" /\ active

\* before_agent_start: the run of the wait, and a report that comes while it waits, keep the
\* outage; any other run starts afresh.
Carried(kind) == kind = "resume" \/ (kind = "report" /\ active)

RunStarts(kind) ==
    /\ up /\ ~run
    /\ kind = "resume" => resume
    /\ run' = TRUE
    /\ resume' = FALSE
    /\ IF kind = "resume" THEN UNCHANGED <<active, entry>> ELSE Cancelled
    /\ down' = IF Carried(kind) THEN down ELSE NoOutage
    /\ ended' = (ended \/ (kind = "user" /\ active))
    /\ IF kind = "resume" \/ (kind = "report" /\ active)
         THEN UNCHANGED count
         ELSE answered' = FALSE /\ again' = 0
    /\ UNCHANGED <<up, age, starts, lapsed, broke>>

\* A good reply ends the outage; the run goes on or ends.
GoodReply ==
    /\ run
    /\ down' = NoOutage
    /\ answered' = FALSE /\ again' = 0
    /\ run' \in BOOLEAN
    /\ UNCHANGED <<up, wait, starts, ended, lapsed, broke>>

\* localOutage: only failures right after an answer count, and from the limit on they all do.
FailedAfterAnswer ==
    IF down.failed >= MAX_FAILURES_AFTER_ANSWER THEN down.failed
    ELSE IF down.answered THEN down.failed + 1 ELSE 0

\* The local server fails the run: the wait begins, or the budget is in charge and tries
\* again in the run until it is used up.
RunFails ==
    /\ run
    /\ down' = [known |-> TRUE, failed |-> FailedAfterAnswer, answered |-> FALSE]
    /\ IF FailedAfterAnswer < MAX_FAILURES_AFTER_ANSWER
         THEN /\ run' = FALSE
              /\ active' = TRUE /\ entry' = "open" /\ age' = 0
              /\ ended' = FALSE /\ lapsed' = FALSE /\ broke' = FALSE
              /\ UNCHANGED resume
         ELSE run' \in BOOLEAN /\ UNCHANGED <<wait, ended, lapsed, broke>>
    /\ answered' = FALSE
    /\ again' = IF ~answered THEN 0 ELSE IF again > MAX_FAILURES_AFTER_ANSWER THEN again ELSE again + 1
    /\ UNCHANGED <<up, starts>>

\* A failure of another kind, an abort, or the end of the run.
RunEnds ==
    /\ run
    /\ run' = FALSE
    /\ \/ down' = NoOutage
       \/ UNCHANGED down
    /\ UNCHANGED <<up, wait, starts, ended, lapsed, broke, count>>

------------------------------------------------------------------------------
(* The wait *)

\* The entry is closed first; the message that starts the run again may not be sent.
Resumed ==
    /\ active' = FALSE
    /\ entry' = "closed"
    /\ resume' \in BOOLEAN
    /\ broke' = (broke \/ ~resume')

\* run: the server answers, or the timer runs out; and localWaitEnded.
WaitEnds ==
    /\ up /\ active
    /\ Resumed
    /\ answered' \in BOOLEAN
    /\ down' = IF down.known THEN [down EXCEPT !.answered = answered'] ELSE down
    /\ UNCHANGED <<up, run, age, starts, ended, lapsed, again>>

\* run: a check or a timer throws.  No run starts after an unknown failure.
WaitFails ==
    /\ up /\ active
    /\ active' = FALSE
    /\ entry' = "closed"
    /\ broke' = TRUE
    /\ UNCHANGED <<up, run, resume, age, down, starts, ended, lapsed, count>>

\* skip: the user switches to another model, and the run goes on with it.
Skip ==
    /\ up /\ active
    /\ Resumed
    /\ UNCHANGED <<up, run, age, down, starts, ended, lapsed, count>>

\* Esc without a draft, or the cancel command.
UserCancels ==
    /\ up /\ active
    /\ Cancelled
    /\ ended' = TRUE
    /\ UNCHANGED <<up, run, resume, age, down, starts, lapsed, broke, count>>

\* Mutant of Suspended: what ends the session's module ends the wait.
SuspendedClosed == IF active THEN "closed" ELSE entry

\* stop(true): the entry stays open, with the time of the stop.
Suspended == IF active THEN "open" ELSE entry

\* session_shutdown, before a reload, a restart or the end of the process.  A run ends with it,
\* and a message on its way may be lost.
Shutdown ==
    /\ up /\ starts < MaxStarts
    /\ up' = FALSE /\ run' = FALSE
    /\ active' = FALSE
    /\ entry' = Suspended
    /\ age' = IF active THEN 0 ELSE age
    /\ resume' \in {resume, FALSE}
    /\ broke' = (broke \/ (resume /\ ~resume'))
    /\ UNCHANGED <<down, starts, ended, lapsed, count>>

\* 48 hours for a reload, 10 minutes for a new process; a fork copies the entry, not the wait.
YoungEnough(reason) == (reason = "reload" /\ age < 2) \/ (reason = "startup" /\ age < 1)

\* session_start: an open entry that is young enough goes on.
SessionStart(reason) ==
    /\ ~up
    /\ up' = TRUE
    /\ starts' = starts + 1
    /\ active' = (entry = "open" /\ YoungEnough(reason))
    /\ age' = IF active' THEN 0 ELSE age
    /\ down' = IF active' THEN [NoOutage EXCEPT !.known = TRUE] ELSE NoOutage
    /\ lapsed' = (lapsed \/ (entry = "open" /\ ~active'))
    /\ answered' = FALSE /\ again' = 0
    /\ UNCHANGED <<run, resume, entry, ended, broke>>

TimePasses ==
    /\ entry = "open" /\ ~active /\ age < 2
    /\ age' = age + 1
    /\ UNCHANGED <<up, run, active, resume, entry, down, starts, ended, lapsed, broke, count>>

Next ==
    \/ \E kind \in {"user", "report", "resume"} : RunStarts(kind)
    \/ GoodReply \/ RunFails \/ RunEnds
    \/ WaitEnds \/ WaitFails \/ Skip \/ UserCancels
    \/ Shutdown \/ TimePasses
    \/ \E reason \in {"reload", "startup", "fork"} : SessionStart(reason)

Spec == Init /\ [][Next]_vars

\* Timers fire, a message starts its run, and runs end.
Fairness ==
    /\ WF_vars(WaitEnds)
    /\ WF_vars(RunStarts("resume"))
    /\ WF_vars(RunFails \/ RunEnds \/ GoodReply)

FairSpec == Spec /\ Fairness

------------------------------------------------------------------------------
(* Properties *)

TypeOK ==
    /\ up \in BOOLEAN /\ run \in BOOLEAN /\ active \in BOOLEAN /\ resume \in BOOLEAN
    /\ ended \in BOOLEAN /\ lapsed \in BOOLEAN /\ broke \in BOOLEAN
    /\ answered \in BOOLEAN
    /\ entry \in {"none", "open", "closed"} /\ age \in 0 .. 2
    /\ down \in [known : BOOLEAN, failed : 0 .. MAX_FAILURES_AFTER_ANSWER, answered : BOOLEAN]
    /\ starts \in 0 .. MaxStarts
    /\ again \in 0 .. MAX_FAILURES_AFTER_ANSWER + 1

\* idle-wait.ts, cancel: "no run starts".  A wait that the user ended by Esc, the command
\* or a message of their own does not go on, also not after reloads and restarts.
CancelIsFinal == ended => ~active

\* transient.ts: a server that answers its check and fails each request gets no more than
\* MAX_FAILURES_AFTER_ANSWER runs in a row, through reports that take a wait over.
BoundedAnswers == again <= MAX_FAILURES_AFTER_ANSWER

\* idle-wait.ts: "a reload or an update restart picks it up where it stopped".  The task of a
\* run that failed goes on: by the message, or by another run, unless the user ended the
\* wait, came back late, forked the session or does not come back at all, or the wait failed
\* or its message was not sent or was lost: the entry is closed before the message is sent.
GoesOn == active ~> (run \/ ended \/ lapsed \/ broke \/ []~up)

\* idle-wait.ts: "a user who quit and comes back later must not find a run that started on
\* its own"; controller.ts: "only the same session goes on".  A wait that was not gone on
\* with, after a late return or in a fork, does not go on later.
LapsedIsFinal == lapsed => ~active
=============================================================================
