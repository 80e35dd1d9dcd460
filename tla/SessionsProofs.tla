---------------------------- MODULE SessionsProofs ----------------------------
(***************************************************************************)
(* What MCSessions checks of the edit lock, the wait for a local server and    *)
(* the move to the current set, proved for any agents, starts and sets.      *)
(***************************************************************************)
EXTENDS MCSessions, TLAPS

------------------------------------------------------------------------------
(* The wait (IdleWait) *)

\* Who waits has a module, no run and no message on its way, and the entry says so; a message
\* on its way has no run yet.
OneAtATime ==
    /\ active => up /\ ~run /\ ~resume /\ entry = "open"
    /\ resume => ~run /\ entry # "open"
    /\ run => up
    /\ ~up => starts < MaxStarts

\* What the user ended has no open entry that a reload would go on with.
EndedIsClosed == ended => ~active /\ entry # "open"

\* Who waits has an outage with failures to spare.
MayFail == active => down.known /\ down.failed < W!MAX_FAILURES_AFTER_ANSWER

\* While the task goes on, the outage has counted each run that an answer started, and the
\* one that such an answer started now may still fail.
Counted ==
    run \/ resume \/ active =>
        /\ again <= down.failed
        /\ answered => down.answered /\ down.failed < W!MAX_FAILURES_AFTER_ANSWER

\* The types, apart: flags, numbers and the outage.
Flags ==
    /\ up \in BOOLEAN /\ run \in BOOLEAN /\ active \in BOOLEAN /\ resume \in BOOLEAN
    /\ ended \in BOOLEAN /\ lapsed \in BOOLEAN /\ broke \in BOOLEAN
    /\ answered \in BOOLEAN
Outages == [known : BOOLEAN, failed : 0 .. W!MAX_FAILURES_AFTER_ANSWER, answered : BOOLEAN]

WaitInv ==
    /\ W!TypeOK /\ OneAtATime /\ EndedIsClosed /\ MayFail /\ Counted
    /\ again <= W!MAX_FAILURES_AFTER_ANSWER

\* A module that goes on with a wait knows the outage, and no more of it.
LEMMA KnownOutage == [W!NoOutage EXCEPT !.known = TRUE] \in Outages /\ W!NoOutage \in Outages
<1>1. W!NoOutage \in Outages
  BY DEF W!NoOutage, Outages, W!MAX_FAILURES_AFTER_ANSWER
<1>2. \A o \in Outages : [o EXCEPT !.known = TRUE] \in Outages
  BY DEF Outages
<1>3. QED
  BY <1>1, <1>2

\* At the start nobody waits.
LEMMA WaitStarts == W!Init => WaitInv
<1> SUFFICES ASSUME W!Init PROVE WaitInv
  OBVIOUS
<1>1. W!TypeOK
  <2>1. Flags
    BY DEF W!Init, Flags
  <2>2. down \in Outages
    BY DEF W!Init, W!NoOutage, Outages, W!MAX_FAILURES_AFTER_ANSWER
  <2>3. QED
    BY <2>1, <2>2, WaitAssumption DEF W!Init, W!TypeOK, Flags, Outages, W!MAX_FAILURES_AFTER_ANSWER
<1>2. QED
  BY <1>1 DEF W!Init, W!NoOutage, W!MAX_FAILURES_AFTER_ANSWER, WaitInv, OneAtATime, EndedIsClosed,
              MayFail, Counted

\* A run that starts keeps the outage with its wait or its message, or starts afresh.
LEMMA RunStartsKeeps ==
  ASSUME WaitInv, NEW kind \in {"user", "report", "resume"}, W!RunStarts(kind)
  PROVE  WaitInv'
<1> USE DEF W!RunStarts, W!Cancelled, W!Carried, W!count, W!NoOutage, W!MAX_FAILURES_AFTER_ANSWER
<1>1. W!TypeOK'
  <2>1. Flags'
    BY DEF WaitInv, W!TypeOK, Flags
  <2>2. down' \in Outages
    BY DEF WaitInv, W!TypeOK, Outages
  <2>3. QED
    BY <2>1, <2>2 DEF WaitInv, W!TypeOK, Flags, Outages
<1>2. OneAtATime' /\ EndedIsClosed' /\ MayFail'
  BY DEF WaitInv, W!TypeOK, OneAtATime, EndedIsClosed, MayFail
<1>3. Counted' /\ (again <= W!MAX_FAILURES_AFTER_ANSWER)'
  BY DEF WaitInv, W!TypeOK, OneAtATime, Counted
<1>4. QED
  BY <1>1, <1>2, <1>3 DEF WaitInv

\* A run that the server fails has counted itself, if an answer started it.
LEMMA RunFailsKeeps ==
  ASSUME WaitInv, W!RunFails
  PROVE  WaitInv'
<1> USE DEF W!RunFails, W!FailedAfterAnswer, W!wait, W!MAX_FAILURES_AFTER_ANSWER
<1>1. W!TypeOK'
  <2>1. Flags'
    BY DEF WaitInv, W!TypeOK, Flags
  <2>2. down' \in Outages
    BY DEF WaitInv, W!TypeOK, Outages
  <2>3. QED
    BY <2>1, <2>2 DEF WaitInv, W!TypeOK, Flags, Outages
<1>2. OneAtATime' /\ EndedIsClosed' /\ MayFail'
  BY DEF WaitInv, W!TypeOK, OneAtATime, EndedIsClosed, MayFail
<1>3. Counted' /\ (again <= W!MAX_FAILURES_AFTER_ANSWER)'
  BY DEF WaitInv, W!TypeOK, OneAtATime, Counted
<1>4. QED
  BY <1>1, <1>2, <1>3 DEF WaitInv

\* A wait that ends has its message on its way, with failures to spare, or none.
LEMMA WaitEndsKeeps ==
  ASSUME WaitInv, W!WaitEnds
  PROVE  WaitInv'
<1> USE DEF W!WaitEnds, W!Resumed, W!MAX_FAILURES_AFTER_ANSWER
<1>1. W!TypeOK'
  <2>1. Flags'
    BY DEF WaitInv, W!TypeOK, Flags
  <2>2. down' \in Outages
    BY DEF WaitInv, W!TypeOK, Outages
  <2>3. QED
    BY <2>1, <2>2 DEF WaitInv, W!TypeOK, Flags, Outages
<1>2. OneAtATime' /\ EndedIsClosed' /\ MayFail'
  BY DEF WaitInv, W!TypeOK, OneAtATime, EndedIsClosed, MayFail
<1>3. Counted' /\ (again <= W!MAX_FAILURES_AFTER_ANSWER)'
  BY DEF WaitInv, W!TypeOK, OneAtATime, MayFail, Counted
<1>4. QED
  BY <1>1, <1>2, <1>3 DEF WaitInv

\* A module that starts goes on with an open wait, or has none.
LEMMA SessionStartKeeps ==
  ASSUME WaitInv, NEW reason \in {"reload", "startup", "fork"}, W!SessionStart(reason)
  PROVE  WaitInv'
<1> USE DEF W!SessionStart, W!NoOutage, W!MAX_FAILURES_AFTER_ANSWER
<1>1. starts' \in 0 .. MaxStarts
  BY WaitAssumption DEF WaitInv, W!TypeOK, OneAtATime
<1>2. W!TypeOK'
  <2>1. Flags'
    BY DEF WaitInv, W!TypeOK, Flags
  <2>2. down' \in Outages
    <3>1. CASE active'
      BY <3>1, KnownOutage
    <3>2. CASE ~active'
      BY <3>2, KnownOutage
    <3>3. QED
      BY <3>1, <3>2
  <2>3. QED
    BY <1>1, <2>1, <2>2 DEF WaitInv, W!TypeOK, Flags, Outages
<1>3. OneAtATime' /\ EndedIsClosed' /\ MayFail'
  BY DEF WaitInv, W!TypeOK, OneAtATime, EndedIsClosed, MayFail
<1>4. Counted' /\ (again <= W!MAX_FAILURES_AFTER_ANSWER)'
  BY DEF WaitInv, W!TypeOK, OneAtATime, Counted
<1>5. QED
  BY <1>2, <1>3, <1>4 DEF WaitInv


\* Every step keeps the invariant of the wait.
LEMMA WaitStep == WaitInv /\ [W!Next]_(W!vars) => WaitInv'
<1> SUFFICES ASSUME WaitInv, [W!Next]_(W!vars) PROVE WaitInv'
  OBVIOUS
<1> USE DEF WaitInv, W!TypeOK, OneAtATime, EndedIsClosed, MayFail, Counted, W!wait, W!count,
            W!NoOutage, W!MAX_FAILURES_AFTER_ANSWER
<1>1. ASSUME NEW kind \in {"user", "report", "resume"}, W!RunStarts(kind) PROVE WaitInv'
  BY <1>1, RunStartsKeeps
<1>2. CASE W!GoodReply
  <2>1. Flags'
    BY <1>2 DEF W!GoodReply, Flags
  <2>2. down' \in Outages
    BY <1>2 DEF W!GoodReply, Outages
  <2>3. W!TypeOK'
    BY <1>2, <2>1, <2>2 DEF W!GoodReply, Flags, Outages
  <2>4. QED
    BY <1>2, <2>3 DEF W!GoodReply
<1>3. CASE W!RunFails
  BY <1>3, RunFailsKeeps
<1>4. CASE W!RunEnds
  <2>1. Flags'
    BY <1>4 DEF W!RunEnds, Flags
  <2>2. down' \in Outages
    <3>1. [known |-> FALSE, failed |-> 0, answered |-> FALSE] \in Outages
      BY DEF Outages
    <3>2. QED
      BY <1>4, <3>1 DEF W!RunEnds, Outages
  <2>3. W!TypeOK'
    BY <1>4, <2>1, <2>2 DEF W!RunEnds, Flags, Outages
  <2>4. QED
    BY <1>4, <2>3 DEF W!RunEnds
<1>5. CASE W!WaitEnds
  BY <1>5, WaitEndsKeeps
<1>6. CASE W!Skip
  BY <1>6 DEF W!Skip, W!Resumed
<1>7. CASE W!UserCancels
  BY <1>7 DEF W!UserCancels, W!Cancelled
<1>8. CASE W!Shutdown
  <2>1. Flags'
    BY <1>8 DEF W!Shutdown, Flags
  <2>2. down' \in Outages
    BY <1>8 DEF W!Shutdown, Outages
  <2>3. W!TypeOK'
    BY <1>8, <2>1, <2>2 DEF W!Shutdown, W!Suspended, Flags, Outages
  <2>4. QED
    BY <1>8, <2>3 DEF W!Shutdown, W!Suspended
<1>13. CASE W!WaitFails
  BY <1>13 DEF W!WaitFails
<1>9. CASE W!TimePasses
  BY <1>9 DEF W!TimePasses
<1>10. ASSUME NEW reason \in {"reload", "startup", "fork"}, W!SessionStart(reason) PROVE WaitInv'
  BY <1>10, SessionStartKeeps
<1>11. CASE UNCHANGED W!vars
  BY <1>11 DEF W!vars
<1>12. QED
  BY <1>1, <1>2, <1>3, <1>4, <1>5, <1>6, <1>7, <1>8, <1>9, <1>10, <1>11, <1>13 DEF W!Next

\* In every state of the wait its invariant holds.
LEMMA WaitInvariant == W!Spec => []WaitInv
<1>1. QED
  BY WaitStarts, WaitStep, PTL DEF W!Spec

\* idle-wait.ts, cancel: a wait that the user ended goes on with no reload and no restart, for
\* any number of them.
THEOREM CancelIsFinalHolds == W!Spec => []CancelIsFinal
<1>1. WaitInv => CancelIsFinal
  BY DEF WaitInv, EndedIsClosed, CancelIsFinal, W!CancelIsFinal
<1>2. QED
  BY <1>1, WaitInvariant, PTL

\* transient.ts: answers that lead nowhere start at most MAX_FAILURES_AFTER_ANSWER runs in a
\* row, whatever takes the wait over in between.
THEOREM BoundedAnswersHolds == W!Spec => []BoundedAnswers
<1>1. WaitInv => BoundedAnswers
  BY DEF WaitInv, BoundedAnswers, W!BoundedAnswers
<1>2. QED
  BY <1>1, WaitInvariant, PTL

------------------------------------------------------------------------------
(* The move to the current set (Adoption) *)

\* A request is made with the quit, and undone when the quit throws, when Pi starts again and
\* when the launcher finishes: every other step leaves it, or is one of the quit itself.
LEMMA AskStep ==
  ASSUME A!QuitIsAsked, [A!Next]_(A!vars)
  PROVE  A!QuitIsAsked'
<1> USE DEF A!QuitIsAsked, A!Undone, A!store, A!session, A!launcher, A!ask
<1>1. CASE A!ApplyReload
  BY <1>1 DEF A!ApplyReload
<1>2. CASE A!ApplyRestart
  BY <1>2 DEF A!ApplyRestart, A!Asked, A!ThrownShutdown
<1>3. CASE A!ReloadEnds
  BY <1>3 DEF A!ReloadEnds
<1>4. CASE A!ReloadEndsLate
  BY <1>4 DEF A!ReloadEndsLate
<1>5. CASE A!WatchFires
  BY <1>5 DEF A!WatchFires, A!ThrownShutdown
<1>6. CASE A!Reply \/ A!UserQuits \/ A!Crashes \/ A!Quits \/ A!ExitTimer
  BY <1>6 DEF A!Reply, A!UserQuits, A!Crashes, A!Quits, A!ExitTimer
<1>7. CASE A!Finish \/ A!StartAgain
  BY <1>7 DEF A!Finish, A!StartAgain
<1>8. CASE A!WindowPasses \/ A!FlipLink \/ A!RewriteSettings
  BY <1>8 DEF A!WindowPasses, A!FlipLink, A!RewriteSettings
<1>9. ASSUME NEW s \in Sets, A!Switch(s) PROVE A!QuitIsAsked'
  BY <1>9 DEF A!Switch
<1>10. CASE UNCHANGED A!vars
  BY <1>10 DEF A!vars
<1>11. QED
  BY <1>1, <1>2, <1>3, <1>4, <1>5, <1>6, <1>7, <1>8, <1>9, <1>10 DEF A!Next

\* session.ts: a request, and the intent that goes with it, never outlive the quit they are
\* for, whatever throws, hangs, crashes or starts again.
THEOREM QuitIsAskedHolds == A!Spec => []QuitIsAsked
<1>1. A!Init => A!QuitIsAsked
  BY DEF A!Init, A!QuitIsAsked
<1>2. A!QuitIsAsked /\ [A!Next]_(A!vars) => A!QuitIsAsked'
  BY AskStep
<1>3. A!QuitIsAsked => QuitIsAsked
  BY DEF QuitIsAsked
<1>4. QED
  BY <1>1, <1>2, <1>3, PTL DEF A!Spec

------------------------------------------------------------------------------
(* The edit lock (EditLock) *)

\* Who is above one above a is above a.
LEMMA UnderIsTransitive ==
  ASSUME NEW a, NEW b, NEW c, E!Under(a, b), E!Under(b, c)
  PROVE  E!Under(a, c)
<1>1. ASSUME NEW S \in E!Lines, Parent[a] \in S PROVE c \in S
  <2>1. b \in S /\ b \in Agents
    BY <1>1 DEF E!Under
  <2>2. Parent[b] \in S
    BY <1>1, <2>1 DEF E!Lines
  <2>3. QED
    BY <1>1, <2>2 DEF E!Under
<1>2. QED
  BY <1>1 DEF E!Under

\* Nobody is not above an agent.
LEMMA UnderSomeone ==
  ASSUME NEW a, E!Under(a, NoOne)
  PROVE  FALSE
<1>1. Agents \cup {Main} \in E!Lines
  BY FamilyAssumption DEF E!Lines
<1>2. QED
  BY <1>1, FamilyAssumption DEF E!Under

\* Agents that edited are live; they, and those whose bash call goes unwatched, have their place
\* with the holder still, unless an agent they worked under has stopped.
Counts(b) == b \in edited \/ bash[b] = "skipped"
EditedLive == \A b \in edited : E!Live(b)
UnderLock == \A b \in Agents \ adrift : Counts(b) => E!Holds(b)

EditInv == E!TypeOK /\ EditedLive /\ UnderLock /\ E!ChangesSeen

\* To hold the lock is to be its live holder, or under it; before and after a step.
LEMMA HoldsLive ==
  ASSUME NEW b
  PROVE  /\ E!Holds(b) <=> E!Live(holder) /\ (holder = b \/ E!Under(b, holder))
         /\ E!Holds(b)' <=> E!Live(holder)' /\ (holder' = b \/ E!Under(b, holder'))
<1>1. E!Holds(b) <=> E!Live(holder) /\ (holder = b \/ E!Under(b, holder))
  BY FamilyAssumption DEF E!Holds, E!LiveHolder, E!Live
<1>2. E!Holds(b)' <=> E!Live(holder)' /\ (holder' = b \/ E!Under(b, holder'))
  BY FamilyAssumption DEF E!Holds, E!LiveHolder, E!Live, E!Under, E!Lines
<1>3. QED
  BY <1>1, <1>2

\* At the start nobody edits.
LEMMA EditStarts == E!Init => EditInv
<1> SUFFICES ASSUME E!Init PROVE EditInv
  OBVIOUS
<1>1. E!TypeOK
  BY FamilyAssumption DEF E!Init, E!TypeOK
<1>2. EditedLive /\ UnderLock /\ E!ChangesSeen
  BY DEF E!Init, EditedLive, UnderLock, Counts, E!ChangesSeen
<1>3. QED
  BY <1>1, <1>2 DEF EditInv

\* A claim that is not refused leaves the others their place: the lock stays, or moves up to
\* an agent above its holder, and above them; a stopped one sets them adrift.
LEMMA ClaimsKeep ==
  ASSUME EditInv, NEW a \in Agents, E!Claims(a), UNCHANGED life,
         \A b \in Agents : bash'[b] = "skipped" => bash[b] = "skipped"
  PROVE  EditedLive' /\ UnderLock'
<1>1. \A b : E!Live(b)' <=> E!Live(b)
  BY DEF E!Live
<1>2. EditedLive'
  BY <1>1 DEF EditInv, EditedLive, E!Claims
<1>3. ASSUME NEW b \in Agents \ adrift', Counts(b)' PROVE E!Holds(b)'
  <2>1. b \notin adrift
    BY <1>3 DEF E!Claims
  <2>2. CASE Counts(b)
    <3>1. E!Live(holder) /\ (holder = b \/ E!Under(b, holder))
      BY <2>1, <2>2, HoldsLive DEF EditInv, UnderLock
    <3>2. CASE holder' = holder
      BY <1>1, <3>1, <3>2, HoldsLive DEF E!Live
    <3>3. CASE holder' # holder
      <4>1. holder' = a /\ ~E!Holds(a)
        BY <3>1, <3>3 DEF E!Claims, E!Taken, E!LiveHolder
      <4>2. E!Under(holder, a)
        BY <3>1, <4>1, HoldsLive, FamilyAssumption DEF E!Claims, E!Refused, E!LiveHolder, E!Live
      <4>3. E!Under(b, a)
        BY <3>1, <4>2, UnderIsTransitive
      <4>4. CASE E!Live(a)
        BY <1>1, <4>1, <4>3, <4>4, HoldsLive DEF E!Live
      <4>5. CASE ~E!Live(a)
        BY <1>3, <2>2, <4>3, <4>5 DEF E!Claims, E!Below, Counts
      <4>6. QED
        BY <4>4, <4>5
    <3>4. QED
      BY <3>2, <3>3
  <2>3. CASE ~Counts(b)
    <3>1. b = a /\ E!Live(a)
      BY <1>3, <2>3 DEF Counts, E!Claims
    <3>2. CASE E!Holds(a) /\ E!LiveHolder # a
      <4>1. holder' = holder
        BY <3>2 DEF E!Claims, E!Taken
      <4>2. QED
        BY <1>1, <3>1, <3>2, <4>1, HoldsLive DEF E!Live
    <3>3. CASE ~(E!Holds(a) /\ E!LiveHolder # a)
      <4>1. holder' = a
        BY <3>3 DEF E!Claims, E!Taken
      <4>2. QED
        BY <1>1, <3>1, <4>1, HoldsLive DEF E!Live
    <3>4. QED
      BY <3>2, <3>3
  <2>4. QED
    BY <2>2, <2>3
<1>4. QED
  BY <1>2, <1>3 DEF UnderLock

\* A holder that lets go sets those adrift who are under it; another leaves them the lock.
LEMMA LetsGoKeeps ==
  ASSUME EditInv, NEW a \in Agents, NEW next \in {"stopping", "ended"}, E!LetsGo(a, next),
         bash'[a] # "skipped", \A b \in Agents : bash'[b] = "skipped" => bash[b] = "skipped"
  PROVE  EditedLive' /\ UnderLock'
<1>1. life' = [life EXCEPT ![a] = next] /\ life \in [Agents -> {"none", "live", "stopping", "ended"}]
  BY DEF E!LetsGo, EditInv, E!TypeOK
<1>2. \A b : b # a => (E!Live(b)' <=> E!Live(b))
  BY <1>1 DEF E!Live
<1>3. EditedLive'
  BY <1>2 DEF EditInv, EditedLive, E!LetsGo
<1>4. ASSUME NEW b \in Agents \ adrift', Counts(b)' PROVE E!Holds(b)'
  <2>1. b # a /\ b \notin adrift /\ Counts(b)
    BY <1>4 DEF Counts, E!LetsGo
  <2>2. E!Live(holder) /\ (holder = b \/ E!Under(b, holder))
    BY <2>1, HoldsLive DEF EditInv, UnderLock
  <2>3. CASE holder = a
    <3>1. b \in E!Below(a)
      BY <2>1, <2>2, <2>3 DEF E!Below, Counts
    <3>2. QED
      BY <1>4, <2>1, <2>3, <3>1 DEF E!LetsGo
  <2>4. CASE holder # a
    <3>1. holder' = holder
      BY <2>4 DEF E!LetsGo
    <3>2. QED
      BY <1>2, <2>2, <2>4, <3>1, HoldsLive DEF E!Live
  <2>5. QED
    BY <2>3, <2>4
<1>5. QED
  BY <1>3, <1>4 DEF UnderLock

\* The variables of the lock have their types after each step.
LEMMA EditTypes ==
  ASSUME E!TypeOK, [E!Next]_(E!vars)
  PROVE  E!TypeOK'
<1> USE FamilyAssumption DEF E!TypeOK, E!runs, E!shells, E!ghosts
<1>1. ASSUME NEW a \in Agents, E!Claims(a)
      PROVE  holder' \in Agents \cup {NoOne} /\ edited' \subseteq Agents /\ adrift' \subseteq Agents
  BY <1>1 DEF E!Claims, E!Taken, E!Below
<1>2. ASSUME NEW a \in Agents, NEW next, E!LetsGo(a, next)
      PROVE  holder' \in Agents \cup {NoOne} /\ edited' \subseteq Agents /\ adrift' \subseteq Agents
  BY <1>2 DEF E!LetsGo, E!Below
<1>3. ASSUME NEW a \in Agents, E!Starts(a) PROVE E!TypeOK'
  BY <1>3 DEF E!Starts
<1>4. ASSUME NEW a \in Agents, E!Ends(a) PROVE E!TypeOK'
  BY <1>2, <1>4 DEF E!Ends, E!LetsGo
<1>5. ASSUME NEW a \in Agents, E!Stops(a) PROVE E!TypeOK'
  BY <1>2, <1>5 DEF E!Stops, E!LetsGo
<1>6. ASSUME NEW a \in Agents, E!Aborted(a) PROVE E!TypeOK'
  BY <1>6 DEF E!Aborted
<1>7. ASSUME NEW a \in Agents, E!Edit(a) PROVE E!TypeOK'
  BY <1>1, <1>7 DEF E!Edit
<1>8. ASSUME NEW a \in Agents, E!BashBegins(a) PROVE E!TypeOK'
  BY <1>8 DEF E!BashBegins
<1>9. ASSUME NEW a \in Agents, E!BashWrites(a) PROVE E!TypeOK'
  BY <1>9 DEF E!BashWrites
<1>10. ASSUME NEW a \in Agents, E!BashEnds(a) PROVE E!TypeOK'
  BY <1>1, <1>10 DEF E!BashEnds
<1>11. CASE UNCHANGED E!vars
  BY <1>11 DEF E!vars
<1>12. QED
  BY <1>3, <1>4, <1>5, <1>6, <1>7, <1>8, <1>9, <1>10, <1>11 DEF E!Next

\* Where neither the holder nor who is live changes for the worse, those who count on the lock
\* keep it.
LEMMA StaysUnderLock ==
  ASSUME EditInv, UNCHANGED <<holder, edited, adrift>>,
         \A b : E!Live(b) => E!Live(b)',
         \A b \in Agents : bash'[b] = "skipped" => bash[b] = "skipped" \/ E!Holds(b)
  PROVE  EditedLive' /\ UnderLock'
<1>1. EditedLive'
  BY DEF EditInv, EditedLive
<1>2. ASSUME NEW b \in Agents \ adrift, Counts(b)' PROVE E!Holds(b)'
  <2>1. E!Holds(b)
    BY <1>2 DEF EditInv, UnderLock, Counts
  <2>2. QED
    BY <2>1, HoldsLive
<1>3. QED
  BY <1>1, <1>2 DEF UnderLock

\* The steps of an agent keep the invariant of the lock.
LEMMA EditKeeps ==
  ASSUME EditInv, NEW a \in Agents,
         \/ E!Starts(a) \/ E!Ends(a) \/ E!Stops(a) \/ E!Aborted(a)
         \/ E!Edit(a) \/ E!BashBegins(a) \/ E!BashWrites(a) \/ E!BashEnds(a)
  PROVE  EditedLive' /\ UnderLock' /\ E!ChangesSeen'
<1> USE DEF E!runs, E!shells, E!ghosts
<1>0. /\ life \in [Agents -> {"none", "live", "stopping", "ended"}]
      /\ bash \in [Agents -> {"none", "skipped", "alone", "shared", "left"}]
      /\ unseen = {}
  BY DEF EditInv, E!TypeOK, E!ChangesSeen
<1>1. CASE E!Starts(a)
  BY <1>0, <1>1, StaysUnderLock DEF E!Starts, E!Live, E!ChangesSeen
<1>2. CASE E!Ends(a)
  BY <1>0, <1>2, LetsGoKeeps DEF E!Ends, E!ChangesSeen
<1>3. CASE E!Stops(a)
  BY <1>0, <1>3, LetsGoKeeps DEF E!Stops, E!ChangesSeen
<1>4. CASE E!Aborted(a)
  BY <1>0, <1>4, StaysUnderLock DEF E!Aborted, E!Live, E!ChangesSeen
<1>5. CASE E!Edit(a)
  BY <1>0, <1>5, ClaimsKeep DEF E!Edit, E!ChangesSeen
<1>6. CASE E!BashBegins(a)
  BY <1>0, <1>6, StaysUnderLock DEF E!BashBegins, E!Live, E!ChangesSeen
<1>7. CASE E!BashWrites(a)
  BY <1>0, <1>7, StaysUnderLock DEF E!BashWrites, E!Live, E!ChangesSeen
<1>8. CASE E!BashEnds(a)
  <2>1. unseen' = {}
    <3>1. bash[a] = "skipped" /\ a \notin adrift => E!Holds(a)
      BY DEF EditInv, UnderLock, Counts
    <3>2. QED
      BY <1>0, <1>8, <3>1 DEF E!BashEnds
  <2>2. bash' = [bash EXCEPT ![a] = "none"] /\ UNCHANGED life
    BY <1>8 DEF E!BashEnds
  <2>3. CASE E!Claims(a)
    BY <1>0, <2>1, <2>2, <2>3, ClaimsKeep DEF E!ChangesSeen
  <2>4. CASE UNCHANGED <<holder, edited, adrift>>
    BY <1>0, <2>1, <2>2, <2>4, StaysUnderLock DEF E!Live, E!ChangesSeen
  <2>5. QED
    BY <1>8, <2>3, <2>4 DEF E!BashEnds
<1>9. QED
  BY <1>1, <1>2, <1>3, <1>4, <1>5, <1>6, <1>7, <1>8

\* In every state of the lock its invariant holds.
LEMMA EditInvariant == E!Spec => []EditInv
<1>1. EditInv /\ [E!Next]_(E!vars) => EditInv'
  <2> SUFFICES ASSUME EditInv, [E!Next]_(E!vars) PROVE EditInv'
    OBVIOUS
  <2>1. E!TypeOK'
    BY EditTypes DEF EditInv
  <2>2. EditedLive' /\ UnderLock' /\ E!ChangesSeen'
    <3>1. CASE E!Next
      BY <3>1, EditKeeps DEF E!Next
    <3>2. CASE UNCHANGED E!vars
      <4> USE DEF E!vars, E!runs, E!shells, E!ghosts
      <4>1. EditedLive' /\ UnderLock'
        BY <3>2, StaysUnderLock DEF E!Live
      <4>2. E!ChangesSeen'
        BY <3>2 DEF EditInv, E!ChangesSeen
      <4>3. QED
        BY <4>1, <4>2
    <3>3. QED
      BY <3>1, <3>2
  <2>3. QED
    BY <2>1, <2>2 DEF EditInv
<1>2. QED
  BY <1>1, EditStarts, PTL DEF E!Spec

\* edit-lock.ts, "One child at a time edits files in each workspace": live agents that edited
\* in their run are the holder and agents under it, in a team of any shape and size.
THEOREM OneFamilyHolds == E!Spec => []OneFamily
<1>1. EditInv => OneFamily
  <2> SUFFICES ASSUME EditInv, NEW a \in edited \ adrift
               PROVE  holder = a \/ E!Under(a, E!LiveHolder)
    BY DEF OneFamily, E!OneFamily
  <2>1. a \in Agents /\ E!Holds(a)
    BY DEF EditInv, E!TypeOK, UnderLock, Counts
  <2>2. QED
    BY <2>1, HoldsLive DEF E!LiveHolder
<1>2. QED
  BY <1>1, EditInvariant, PTL

\* bash-guard.ts: a change that goes by without a look at it was made under the lock still.
THEOREM ChangesSeenHolds == E!Spec => []ChangesSeen
<1>1. EditInv => ChangesSeen
  BY DEF EditInv, ChangesSeen
<1>2. QED
  BY <1>1, EditInvariant, PTL

------------------------------------------------------------------------------
(* The types *)

\* What the move to the current set keeps count of.
Rows == [n : 0 .. A!MAX_ATTEMPTS, target : Sets \cup {Other}]
Loads == [pi : {PiOf[s] : s \in Sets} \cup {Other}, pkgs : Sets \cup {Other}]
MoveTypes ==
    /\ current \in Sets /\ link \in Sets /\ settings \in Sets
    /\ switches \in 0 .. MaxSwitches
    /\ able \in BOOLEAN /\ saved \in BOOLEAN /\ intent \in BOOLEAN
    /\ stuck \in BOOLEAN /\ gaveUp \in BOOLEAN
    /\ pi \in {"up", "reloading", "quitting", "clean", "crashed", "over"}
    /\ own \in Loads
    /\ entries \in Rows /\ given \in Rows /\ row \in Rows
    /\ request \in Sets \cup {Other}
    /\ watch \in {"off", "armed", "fired", "exit"}
    /\ restarts \in 0 .. A!MAX_RESTARTS

\* A row that goes on, or ends, is one.
LEMMA RowsGoOn ==
  ASSUME NEW seq \in Rows, NEW s \in Sets \cup {Other}, NEW runs0
  PROVE  /\ A!Longer(seq, s) \in Rows
         /\ A!Reported(seq, runs0) \in Rows
         /\ A!InARow(0, Other) \in Rows
         /\ seq.target \in Sets \cup {Other}
<1>1. A!InARow(0, Other) \in Rows /\ A!InARow(1, s) \in Rows
  BY DEF Rows, A!InARow, A!MAX_ATTEMPTS
<1>2. A!InARow(A!Capped(seq.n + 1), s) \in Rows
  BY DEF Rows, A!InARow, A!Capped, A!MAX_ATTEMPTS
<1>3. QED
  BY <1>1, <1>2 DEF A!Longer, A!Reported, Rows

\* Each step of the move keeps its types.
LEMMA MoveTyped ==
  ASSUME MoveTypes, [A!Next]_(A!vars)
  PROVE  MoveTypes'
<1> USE DEF MoveTypes, A!store, A!session, A!launcher, A!ask, A!Undone
<1>0. A!InARow(0, Other) \in Rows
  BY MoveAssumption, RowsGoOn
<1>1. CASE A!ApplyReload \/ A!ApplyRestart
  <2>1. entries' \in Rows
    BY <1>1, RowsGoOn DEF A!ApplyReload, A!ApplyRestart
  <2>2. QED
    BY <1>1, <2>1 DEF A!ApplyReload, A!ApplyRestart, A!Asked, A!ThrownShutdown
<1>2. CASE A!ReloadEnds
  <2>1. PICK k \in {settings, Other} :
            \/ own' = [own EXCEPT !.pkgs = k] /\ entries' = A!Reported(entries, own')
            \/ UNCHANGED <<own, entries>>
    BY <1>2 DEF A!ReloadEnds
  <2>2. own' \in Loads
    BY <2>1 DEF Loads
  <2>3. entries' \in Rows
    BY <2>1, MoveAssumption, RowsGoOn
  <2>4. QED
    BY <1>2, <2>2, <2>3 DEF A!ReloadEnds, A!AfterReload
<1>3. CASE A!ReloadEndsLate
  BY <1>3 DEF A!ReloadEndsLate, A!AfterReload
<1>4. CASE A!WatchFires
  <2>1. entries.target \in Sets \cup {Other}
    BY DEF Rows
  <2>2. QED
    BY <1>4, <2>1 DEF A!WatchFires, A!ThrownShutdown
<1>5. CASE A!Reply \/ A!UserQuits \/ A!Crashes \/ A!Quits \/ A!ExitTimer
  BY <1>5 DEF A!Reply, A!UserQuits, A!Crashes, A!Quits, A!ExitTimer
<1>6. CASE A!Finish
  BY <1>6 DEF A!Finish, A!Wanted
<1>7. CASE A!StartAgain
  <2>1. PICK p \in {PiOf[link], Other}, k \in {settings, Other} : own' = A!Runs(p, k)
    BY <1>7 DEF A!StartAgain
  <2>2. own' \in Loads
    BY <2>1 DEF Loads, A!Runs
  <2>3. row' = A!Longer(row, request) /\ given' = row'
        /\ (entries' = A!Reported(entries, own') \/ entries' = A!InARow(0, Other))
    BY <1>7 DEF A!StartAgain
  <2>4. row' \in Rows /\ given' \in Rows /\ entries' \in Rows
    BY <1>0, <2>3, RowsGoOn
  <2>5. restarts' = restarts + 1 /\ restarts < A!MAX_RESTARTS
    BY <1>7 DEF A!StartAgain, A!MayRestart
  <2>6. restarts' \in 0 .. A!MAX_RESTARTS
    BY <2>5 DEF A!MAX_RESTARTS
  <2>7. QED
    BY <1>7, <2>2, <2>4, <2>6 DEF A!StartAgain
<1>8. CASE A!WindowPasses \/ A!FlipLink \/ A!RewriteSettings
  BY <1>8 DEF A!WindowPasses, A!FlipLink, A!RewriteSettings, A!MAX_RESTARTS
<1>9. ASSUME NEW s \in Sets, A!Switch(s) PROVE MoveTypes'
  BY <1>9, MoveAssumption DEF A!Switch
<1>10. CASE UNCHANGED A!vars
  BY <1>10 DEF A!vars
<1>11. QED
  BY <1>1, <1>2, <1>3, <1>4, <1>5, <1>6, <1>7, <1>8, <1>9, <1>10 DEF A!Next

\* Each step on the second lock keeps its types.
LEMMA LockTyped ==
  ASSUME L!TypeOK, [L!Next]_(L!vars)
  PROVE  L!TypeOK'
<1> USE LockAssumption DEF L!TypeOK, L!Files, L!Stats, L!NoStats, L!PCs, L!ghosts, L!Goto
<1>1. ASSUME NEW p \in Procs, L!Begin(p) PROVE L!TypeOK'
  BY <1>1 DEF L!Begin
<1>2. ASSUME NEW p \in Procs, L!PublishCreates(p) PROVE L!TypeOK'
  BY <1>2 DEF L!PublishCreates, L!Create, L!Remembered
<1>3. ASSUME NEW p \in Procs, L!PublishExists(p) PROVE L!TypeOK'
  BY <1>3 DEF L!PublishExists
<1>4. ASSUME NEW p \in Procs, L!WritePid(p) PROVE L!TypeOK'
  <2>1. path' \in L!Files \cup {NoFile}
    <3>1. CASE L!IsOwn(p)
      BY <1>4, <3>1 DEF L!WritePid, L!IsOwn
    <3>2. CASE ~L!IsOwn(p)
      BY <1>4, <3>2 DEF L!WritePid
    <3>3. QED
      BY <3>1, <3>2
  <2>2. QED
    BY <1>4, <2>1 DEF L!WritePid
<1>22. ASSUME NEW p \in Procs, L!WriteFails(p) PROVE L!TypeOK'
  BY <1>22 DEF L!WriteFails
<1>23. ASSUME NEW p \in Procs, L!UnlinkUnwritten(p) PROVE L!TypeOK'
  BY <1>23 DEF L!UnlinkUnwritten, L!Released
<1>24. ASSUME NEW p \in Procs, L!CallFails(p) PROVE L!TypeOK'
  BY <1>24 DEF L!CallFails, L!Released
<1>5. ASSUME NEW p \in Procs, L!StatGone(p) PROVE L!TypeOK'
  BY <1>5 DEF L!StatGone, L!NextAttempt
<1>6. ASSUME NEW p \in Procs, L!StatHolder(p) PROVE L!TypeOK'
  BY <1>6 DEF L!StatHolder
<1>7. ASSUME NEW p \in Procs, L!ReadGone(p) PROVE L!TypeOK'
  BY <1>7 DEF L!ReadGone, L!NextAttempt
<1>8. ASSUME NEW p \in Procs, L!ReadStale(p) PROVE L!TypeOK'
  BY <1>8 DEF L!ReadStale
<1>9. ASSUME NEW p \in Procs, L!ReadHeld(p) PROVE L!TypeOK'
  BY <1>9 DEF L!ReadHeld
<1>10. ASSUME NEW p \in Procs, L!RecheckSame(p) PROVE L!TypeOK'
  BY <1>10 DEF L!RecheckSame
<1>11. ASSUME NEW p \in Procs, L!RecheckOther(p) PROVE L!TypeOK'
  BY <1>11 DEF L!RecheckOther, L!NextAttempt
<1>12. ASSUME NEW p \in Procs, L!UnlinkStale(p) PROVE L!TypeOK'
  BY <1>12, SMTT(30) DEF L!UnlinkStale, L!NextAttempt
<1>13. ASSUME NEW p \in Procs, L!BeginRelease(p) PROVE L!TypeOK'
  BY <1>13 DEF L!BeginRelease
<1>14. ASSUME NEW p \in Procs, L!ReadOwnToken(p) PROVE L!TypeOK'
  BY <1>14 DEF L!ReadOwnToken
<1>15. ASSUME NEW p \in Procs, L!ReadOtherToken(p) PROVE L!TypeOK'
  BY <1>15 DEF L!ReadOtherToken, L!Released
<1>16. ASSUME NEW p \in Procs, L!UnlinkOwn(p) PROVE L!TypeOK'
  BY <1>16 DEF L!UnlinkOwn, L!Released
<1>17. ASSUME NEW p \in Procs, L!Crash(p) PROVE L!TypeOK'
  BY <1>17 DEF L!Crash
<1>18. ASSUME NEW p \in Procs, L!ReusePid(p) PROVE L!TypeOK'
  BY <1>18 DEF L!ReusePid
<1>19. CASE L!Age
  BY <1>19 DEF L!Age
<1>20. CASE UNCHANGED L!vars
  BY <1>20 DEF L!vars
<1>21. QED
  BY <1>1, <1>2, <1>3, <1>4, <1>5, <1>6, <1>7, <1>8, <1>9, <1>10, <1>11, <1>12,
     <1>13, <1>14, <1>15, <1>16, <1>17, <1>18, <1>19, <1>20, <1>22, <1>23, <1>24 DEF L!Next, L!TryLock,
     L!Release

\* session.ts, adopt.ts, idle-wait.ts, edit-lock.ts and file-lock.ts: what a session keeps has its
\* types, whichever of the five parts moves, for any processes, sets and agents.
THEOREM SessionTyped == MCSpec => []SessionTypeOK
<1>1. L!Init => L!TypeOK
  <2> SUFFICES ASSUME L!Init PROVE L!TypeOK
    OBVIOUS
  <2>1. L!NoStats \in L!Stats /\ 0 \in 0 .. Attempts /\ "idle" \in L!PCs
    BY LockAssumption DEF L!NoStats, L!Stats, L!PCs
  <2>2. /\ path \in L!Files \cup {NoFile}
        /\ step \in [Procs -> L!PCs]
        /\ attempt \in [Procs -> 0 .. Attempts]
        /\ made \in [Procs -> Inos \cup {NoIno}]
        /\ looked \in [Procs -> L!Stats]
    BY <2>1, Zenon DEF L!Init
  <2>3. /\ deaths \in Nat /\ aged \subseteq Procs
        /\ hit \in BOOLEAN /\ slow \in BOOLEAN /\ undone \in BOOLEAN
    BY DEF L!Init
  <2> QED
    BY <2>2, <2>3, Zenon DEF L!TypeOK
<1>2. A!Init => MoveTypes
  <2>1. A!InARow(0, Other) \in Rows
    BY DEF Rows, A!InARow, A!MAX_ATTEMPTS
  <2>2. First \in Sets /\ A!Runs(PiOf[First], First) \in Loads
    BY MoveAssumption DEF Loads, A!Runs
  <2>3. 0 \in 0 .. MaxSwitches /\ 0 \in 0 .. A!MAX_RESTARTS
    BY MoveAssumption DEF A!MAX_RESTARTS
  <2> QED
    BY <2>1, <2>2, <2>3 DEF A!Init, MoveTypes
<1>3. MCInit => L!Init /\ A!Init /\ W!Init /\ E!Init
  BY DEF MCInit
<1>4. ASSUME [MCNext]_<<part, vars, lockVars, moveVars, waitVars, editVars>>
      PROVE  [L!Next]_(L!vars) /\ [A!Next]_(A!vars) /\ [W!Next]_(W!vars) /\ [E!Next]_(E!vars)
  BY <1>4
     DEF MCNext, vars, ghosts, lockVars, L!vars, L!ghosts, moveVars, A!vars, A!store, A!session,
         A!launcher, A!ask, waitVars, W!vars, W!wait, W!count, editVars, E!vars, E!runs,
         E!shells, E!ghosts
<1>5. MCSpec => W!Spec /\ E!Spec
  BY <1>3, <1>4, PTL DEF MCSpec, W!Spec, E!Spec
<1>6. MCSpec => [](L!TypeOK /\ MoveTypes)
  BY <1>1, <1>2, <1>3, <1>4, LockTyped, MoveTyped, PTL DEF MCSpec
<1>7. ASSUME L!TypeOK, MoveTypes, WaitInv, EditInv
      PROVE  SessionTypeOK
  <2>1. A!TypeOK
    BY <1>7 DEF MoveTypes, Rows, Loads, A!TypeOK
  <2> QED
    BY <1>7, <2>1 DEF WaitInv, EditInv, SessionTypeOK
<1> QED
  BY <1>5, <1>6, <1>7, WaitInvariant, EditInvariant, PTL
=============================================================================
