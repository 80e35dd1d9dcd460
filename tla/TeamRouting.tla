------------------------------ MODULE TeamRouting ------------------------------
(***************************************************************************)
(* Where a message and a report go (src/lib/subagents: routing, questions, *)
(* hand-up).                                                               *)
(*                                                                         *)
(* Mail is the set of its senders: what a message says is left out.  The   *)
(* session of an agent that runs takes mail as steering (`unread` until it *)
(* reads it); any other keeps it in `inbox`, or in `resume` when the mail  *)
(* is the prompt of its next launch.                                       *)
(***************************************************************************)
EXTENDS TeamSlots

Paused == {"idle", "waiting", "interrupted"}

\* startedBy: a peer's message started the run, or main, its parent or an
\* agent under it did.
StartedBy(t, a, peer) == [t EXCEPT !.peerRuns = IF peer THEN @ \cup {a} ELSE @ \ {a}]
IsPeer(t, from, to) == from \notin {Main, t.parent[to]} /\ ~Under(t, from, to)

\* An agent that had ended starts again and waits for others from the start: an
\* agent under it works, one owes it an answer still (its stop is under way), or
\* it never ran and is held once more.
Reenters(t, a) == ~Live(t, a) /\ LiveChildren(t, a) \cup OwedLive(t, a) \cup WaitingFor(t, a) # {}

\* relaunch: a run from the session file, in line behind the others.
Relaunch(t, a, from, peer) ==
    LET started == IF t.state[a] = "waiting" THEN t ELSE StartedBy(t, a, peer)
    IN  Pump(Enqueue([started EXCEPT !.resume[a] = t.inbox[a] \cup {from}, !.inbox[a] = {},
                                     !.state[a] = "queued", !.reentered = @ \/ Reenters(t, a)],
                     a, FALSE))

\* wake: mail to an agent that does not run resumes it or waits in its inbox.
Wake(t, from, to, resumes, peer) ==
    LET released == [t EXCEPT !.held[to] = @ /\ ~Ended(t, to)]
        mail == t.inbox[to] \cup {from}
        fresh == IF t.state[to] = "idle" THEN StartedBy(t, to, peer) ELSE t
    IN  IF ~resumes \/ ~(t.state[to] \in Paused \/ Ended(t, to))
          THEN [t EXCEPT !.inbox[to] = mail]
        ELSE IF ~released.held[to]
          THEN Relaunch(released, to, from, peer)
        ELSE IF t.state[to] # "interrupted"
          THEN RunWhenFree([fresh EXCEPT !.inbox[to] = {}, !.reentered = @ \/ Reenters(t, to)], to, mail)
        ELSE [t EXCEPT !.inbox[to] = mail]

\* deliver: refused only by an ended agent, to which only main and its parent stand above.
Delivers(t, from, to) == Known(t, to) /\ (Ended(t, to) => from \in {Main, t.parent[to]})
Deliver(t, from, to, wakes) ==
    LET theirs == IF from \in {Main, t.parent[to]} THEN [t EXCEPT !.peerRuns = @ \ {to}] ELSE t
    IN  IF ~Delivers(t, from, to) THEN t
        ELSE IF t.state[to] \in {"running", "asking"} /\ t.held[to]
          THEN [theirs EXCEPT !.unread[to] = @ \cup {from}]
        ELSE Wake(theirs, from, to, wakes \/ from \in {Main, t.parent[to]}, IsPeer(t, from, to))

\* ask: the message call of a child to main or its parent waits for the answer.
AskUnpumped(t, a, to) == [t EXCEPT !.question[a] = to, !.state[a] = "asking"]  \* mutant
Ask(t, a, to) == Pump([t EXCEPT !.question[a] = to, !.state[a] = "asking"])

\* The question ends, by an answer, an error or the timeout (done, showAsking):
\* the asker goes on once a slot is free, and one that is stopping does not.
EndQuestion(t, a) ==
    LET done == [t EXCEPT !.question[a] = NoOne]
    IN  Pump(IF t.state[a] = "asking" /\ ~Ending(t, a) THEN GoOnWhenFree(done, a, "on") ELSE done)

\* payOwed of Routing
PayOwed(t, asker, from) == [t EXCEPT !.owed[asker] = @ \ {from}]

\* askPeer: the answer comes as a message, and the asker's report waits for it.
AskPeer(t, from, to) ==
    LET sent == Deliver(t, from, to, TRUE)
    IN  IF ~MayAsk(t, from, to) \/ ~Delivers(t, from, to) THEN t
        ELSE [sent EXCEPT !.owed[from] = @ \cup {to}]

\* mainAsks: main never blocks; the answer wakes it.
MainAsks(t, to) == [Deliver(t, Main, to, TRUE) EXCEPT !.owesMain = @ \cup {to}]

ToMain(t, from) == [t EXCEPT !.owesMain = @ \ {from}]

\* toChild: an answer wakes as a question does.
ToChild(t, from, to, ask) ==
    LET answers == from \in Agents /\ to \in Agents /\ from \in t.owed[to]
    IN  Deliver(IF answers THEN PayOwed(t, to, from) ELSE t, from, to, ask \/ answers)

\* send
BlockedOn(t, from, to) == from \in Agents /\ t.blocking[from] /\ to = t.parent[from]
UpTheTree(t, from, to) == from \in Agents /\ to \in {Main, t.parent[from]}
Unblock(t, a) == [t EXCEPT !.blocking[a] = FALSE]

SendOnly(t, from, to, ask) ==
    IF ask /\ from \in Agents /\ ~UpTheTree(t, from, to) THEN AskPeer(t, from, to)
    ELSE IF ask /\ from = Main THEN MainAsks(t, to)
    ELSE LET sent == IF to = Main THEN ToMain(t, from) ELSE ToChild(t, from, to, ask)
         IN  IF ask /\ (to = Main \/ Delivers(t, from, to)) THEN Ask(sent, from, to) ELSE sent

Send(t, from, to, ask) ==
    IF to \in Agents /\ t.question[to] = from THEN EndQuestion(t, to)
    ELSE IF ~BlockedOn(t, from, to) THEN SendOnly(t, from, to, ask)
    ELSE IF ask THEN SendOnly(Unblock(t, from), from, to, ask)
    ELSE t

------------------------------------------------------------------------------
(* hand-up.ts: where the report of a run that ended goes *)

\* reportTarget: past a parent that failed or was stopped, the nearest live
\* agent above it, or main.  An agent above another was spawned before it.
ReportTarget(t, a) ==
    LET parent == t.parent[a]
        living == {x \in Above(t, parent) : Live(t, x)}
    IN  IF parent = Main \/ ~Ended(t, parent) THEN parent
        ELSE IF living = {} THEN Main
        ELSE CHOOSE x \in living : \A y \in living : y <= x

\* reportUp: a blocking parent has the report from its wait.
ReportTo(t, a, to, quiet, wasBlocking) ==
    LET orphan == to # t.parent[a]
    IN  IF to = Main \/ (wasBlocking /\ ~orphan) THEN t
        ELSE Deliver(t, a, to, ~quiet \/ orphan)
ReportUp(t, a, quiet, wasBlocking) == ReportTo(t, a, ReportTarget(t, a), quiet, wasBlocking)

\* payOwed of hand-up, then tellUnanswered: every agent it owed an answer but
\* its parent hears how its run ended.
Askers(t, a) == {x \in Agents : a \in t.owed[x]}
Paid(t, a) == [t EXCEPT !.owed = [x \in Agents |-> @[x] \ {a}]]
NobodyTold(t, a, askers) == t  \* mutant
TellUnanswered(t, a, askers) ==
    LET Tell(u, asker) == Deliver(u, a, asker, TRUE)
    IN  FoldLeft(Tell, t, InOrder(askers))

\* endOtherQuestions: no one but its parent waits on it any longer.
EndOtherQuestions(t, a) ==
    LET End(u, asker) == EndQuestion(u, asker)
    IN  FoldLeft(End, t, InOrder({x \in Agents : t.question[x] = a /\ x # t.parent[a]}))

\* Routing.ended
RunEnded(t, a) == [t EXCEPT !.owesMain = @ \ {a}, !.peerRuns = @ \ {a}]

QuietPeer(t, a) == (a \in t.peerRuns \/ Awaited(t, a)) /\ t.state[a] = "idle"  \* mutant
Quiet(t, a) ==
    LET parent == t.parent[a]
    IN  /\ a \in t.peerRuns \/ Awaited(t, a)
        /\ t.state[a] = "idle"
        /\ parent \notin Askers(t, a)
        /\ a \notin t.owesMain
        /\ parent # Main => t.state[parent] # "waiting"

\* handUp; `silent` when its parent stopped it and has the record from that call.
HandUp(t, a, silent, wasBlocking) ==
    LET paid == Paid(RunEnded(t, a), a)
    IN  EndOtherQuestions(
            TellUnanswered(IF silent THEN paid ELSE ReportUp(paid, a, Quiet(t, a), wasBlocking),
                           a, Askers(t, a) \ {t.parent[a]}), a)

\* handUpFailure: a resume that could not launch.
HandUpFailure(t, a) ==
    LET parent == t.parent[a]
        paid == Paid(t, a)
    IN  EndOtherQuestions(
            TellUnanswered(IF parent = Main THEN paid ELSE Deliver(paid, a, parent, TRUE),
                           a, Askers(t, a) \ {parent}), a)
=============================================================================
