------------------------------- MODULE TeamSlots -------------------------------
(***************************************************************************)
(* The line for the team's slots (src/lib/subagents: slots, and the parts  *)
(* of team.ts that put agents in it and let them go).                      *)
(*                                                                         *)
(* An agent that holds its session and goes on waits in the line ahead of  *)
(* those that have not started; `going` says what it does when it may.     *)
(***************************************************************************)
EXTENDS TeamGraph, SequencesExt

\* used: a parent that its wait: true subagent blocks shares the subagent's
\* slot, and a resting agent has lent its own out.
Blocked(t) == {t.parent[c] : c \in {x \in Agents : t.blocking[x] /\ Live(t, x)}}
Working(t) == {a \in Agents : t.state[a] \in ActiveStates /\ a \notin Blocked(t) /\ a \notin t.resting}
Used(t) == Cardinality(Working(t))
Free(t) == Used(t) < MaxConcurrent
Always(t) == TRUE  \* mutant
Fits(t) == Used(t) <= MaxConcurrent

Enqueue(t, a, first) ==
    [t EXCEPT !.line = IF first THEN <<a>> \o @ ELSE Append(@, a)]

\* goOn: behind those going on and blocking ones, ahead of what has not started.
GoOn(t, a, how) ==
    LET NotStarted(x) == t.going[x] = "no" /\ ~t.blocking[x]
        at == SelectInSeq(t.line, NotStarted)
    IN  [t EXCEPT !.going[a] = how,
                  !.line = IF at = 0 THEN Append(@, a) ELSE InsertAt(@, at, a)]

StillGoing(t, a) == [t EXCEPT !.line = RemoveFirst(@, a)]  \* mutant
LeaveLine(t, a) == [t EXCEPT !.line = RemoveFirst(@, a), !.going[a] = "no"]

\* run: the session it holds gets a prompt with `mail`, which is read now.
Run(t, a) ==
    IF ~t.held[a] THEN t
    ELSE [t EXCEPT !.state[a] = "running", !.ran[a] = TRUE,
                   !.prompting = @ \cup {a}, !.continuing = @ \ {a}]

\* steerInbox: what waited is steered into the session.
SteerInbox(t, a) ==
    IF ~t.held[a] THEN t ELSE [t EXCEPT !.unread[a] = @ \cup t.inbox[a], !.inbox[a] = {}]

\* What `go` does: an answered asker or a parent after its wait works on, a
\* message starts a run, a resting agent works on with what came meanwhile.
Go(t, a, how) ==
    CASE how = "on"   -> [t EXCEPT !.state[a] = "running"]
      [] how = "run"  -> Run([t EXCEPT !.inbox[a] = {}], a)
      [] how = "rest" -> SteerInbox([t EXCEPT !.state[a] = "running"], a)

\* start: a session opens; a stop that still aborts the last one is stale now.
Start(t, a) ==
    [t EXCEPT !.state[a] = "starting", !.opening = @ \cup {a}, !.prompting = @ \ {a},
              !.overlap = IF t.stop[a] = <<>> THEN @ ELSE @ \cup {a},
              !.stop[a] = IF @ = <<>> THEN @ ELSE <<[@[1] EXCEPT !.own = FALSE]>>]

\* pump: one agent of the line.
LetGo(acc, a) ==
    LET t == acc.team
        how == t.going[a]
        active == [acc EXCEPT !.active = @ + 1]
    IN  IF acc.active >= MaxConcurrent THEN [acc EXCEPT !.kept = Append(@, a)]
        ELSE IF t.state[a] # "queued" THEN [acc EXCEPT !.team.going[a] = "no"]
        ELSE IF how # "no" THEN [active EXCEPT !.team = Go([t EXCEPT !.going[a] = "no"], a, how)]
        ELSE IF WaitingFor(t, a) # {} THEN [acc EXCEPT !.kept = Append(@, a)]
        ELSE [active EXCEPT !.team = Start(t, a)]

Pumped(acc) == [acc.team EXCEPT !.line = acc.kept]
Pump(t) == Pumped(FoldLeft(LetGo, [team |-> t, active |-> Used(t), kept |-> <<>>], t.line))

GoOnWhenFree(t, a, how) ==
    IF Free(t) THEN Go(t, a, how) ELSE GoOn([t EXCEPT !.state[a] = "queued"], a, how)

\* runWhenFree: while it waits for a slot, the message waits in its inbox.
RunWhenFree(t, a, mail) ==
    IF Free(t) THEN Run(t, a)
    ELSE GoOn([t EXCEPT !.inbox[a] = @ \cup mail, !.state[a] = "queued"], a, "run")

\* afterWait: the parent goes on only when that leaves the limit kept.
AfterWait(t, a) ==
    IF t.state[a] \notin ActiveStates \/ Fits(t) THEN t ELSE GoOnWhenFree(t, a, "on")

\* The wait: true calls whose subagent no longer blocks its parent return: its
\* run ended, its resume failed, or it asked its parent.
Waited(t, a) == t.wait[a] # NoOne /\ ~t.blocking[t.wait[a]]
Return(t, a) == IF Waited(t, a) THEN AfterWait([t EXCEPT !.wait[a] = NoOne], a) ELSE t
Returned(t) == FoldLeft(Return, t, InOrder(Agents))
=============================================================================
