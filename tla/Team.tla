--------------------------------- MODULE Team ---------------------------------
(***************************************************************************)
(* A team of subagents at work (src/lib/subagents/team.ts): agents start   *)
(* others, run in a limited number of slots, ask and answer each other,    *)
(* wait for each other's reports, fail, and are stopped and resumed.       *)
(*                                                                         *)
(* One action is one handler from an event to its next await; the promise  *)
(* callbacks that follow it at once are in the same action.  A run is      *)
(* `prompting` while its session works; the model says only when a session *)
(* calls a tool of the team, reads its mail, ends its prompt or fails.     *)
(***************************************************************************)
EXTENDS TeamRouting

CONSTANTS
    MayBlock,     \* whether agents start subagents with wait: true
    MayAfter,     \* whether spawns name agents to start after
    MaxMessages,  \* bound: messages sent
    MaxStops,     \* bound: stops
    MaxFailures,  \* bound: prompts and launches that fail
    MaxRests      \* bound: sleeps that lend a slot out, and sessions released

VARIABLES
    team,   \* the records and queues of the team
    spent   \* how often each bounded event has happened

vars == <<team, spent>>

ASSUME BoundsAssumption ==
    /\ {MayBlock, MayAfter} \subseteq BOOLEAN
    /\ {MaxMessages, MaxStops, MaxFailures, MaxRests} \subseteq Nat

NoAgents ==
    [state      |-> [a \in Agents |-> "none"],
     parent     |-> [a \in Agents |-> NoOne],
     blocking   |-> [a \in Agents |-> FALSE],  \* started with wait: true, and its parent still waits
     wait       |-> [a \in Agents |-> NoOne],  \* the subagent its wait: true call waits for
     after      |-> [a \in Agents |-> {}],     \* the agents its first run starts after
     ran        |-> [a \in Agents |-> FALSE],  \* runs > 0
     owed       |-> [a \in Agents |-> {}],     \* agents that owe it an answer
     inbox      |-> [a \in Agents |-> {}],
     unread     |-> [a \in Agents |-> {}],
     resume     |-> [a \in Agents |-> {}],     \* the mail of resumePrompts
     held       |-> [a \in Agents |-> FALSE],  \* the team holds its session
     going      |-> [a \in Agents |-> "no"],   \* how it goes on from the line (slots.ts goingOn)
     question   |-> [a \in Agents |-> NoOne],  \* who its message call waits on
     call       |-> [a \in Agents |-> NoOne],  \* whom its stop_subagent call stops
     stop       |-> [a \in Agents |-> <<>>],   \* the stop of it under way, if any
     line       |-> <<>>,
     opening    |-> {},  \* a launch is under way
     prompting  |-> {},  \* its session works on a prompt
     resting    |-> {},  \* its bash call sleeps
     continuing |-> {},  \* goes on with its run on a fallback model
     silent     |-> {},  \* stoppedByParent
     peerRuns   |-> {},  \* runs a peer's message started
     owesMain   |-> {},  \* owes main an answer
     overlap    |-> {},  \* ghost: runs that started while the stop of the last one was under way
     reentered  |-> FALSE] \* ghost: an agent that had ended was resumed while it waits for others

Init ==
    /\ team = NoAgents
    /\ spent = [event \in {"message", "stop", "failure", "rest"} |-> 0]

Happens(event, bound) ==
    /\ spent[event] < bound
    /\ spent' = [spent EXCEPT ![event] = @ + 1]

\* Its session works on a prompt, and is free to call a tool or to end it.
Prompted(t, a) == a \in t.prompting /\ t.question[a] = NoOne /\ t.state[a] \in {"running", "asking"}
Acting(t, a) ==
    /\ Prompted(t, a)
    /\ t.wait[a] = NoOne /\ t.call[a] = NoOne /\ a \notin t.resting

------------------------------------------------------------------------------
(* How runs end *)

\* An agent that ended gives its session back.
Released(t, a) == [t EXCEPT !.held[a] = @ /\ ~Ended(t, a)]

\* finish: hands the report up and frees the slot.
Finish(t, a, silent) ==
    LET over == [t EXCEPT !.stop[a] = <<>>, !.continuing = @ \ {a}, !.owed[a] = {},
                          !.blocking[a] = FALSE, !.silent = @ \ {a}, !.overlap = @ \ {a}]
    IN  Pump(Released(HandUp(over, a, silent, t.blocking[a]), a))

\* waitsFor: what a run that ends now would still wait for.
WaitsFor(t, a) == LiveChildren(t, a) \cup OwedLive(t, a)

\* settle: its report waits for what it is still owed.
Settle(t, a) ==
    LET ended == [t EXCEPT !.prompting = @ \ {a}]
    IN  IF WaitsFor(t, a) # {}
          THEN Pump([ended EXCEPT !.state[a] = "waiting"])
          ELSE Finish([ended EXCEPT !.state[a] = "idle"], a, a \in t.silent)

\* unreadLeft: what its session never read waits in its inbox.
UnreadLeft(t, a) == [t EXCEPT !.inbox[a] = @ \cup t.unread[a], !.unread[a] = {}]

\* parkResume: the message of a launch that will not go waits in the inbox.
Lost(t, a) == [t EXCEPT !.resume[a] = {}]  \* mutant
ParkResume(t, a) == [t EXCEPT !.inbox[a] = @ \cup t.resume[a], !.resume[a] = {}]

\* stop, up to its first await: nothing of the old run counts any more.
CanStop(t, a) == ~Ending(t, a) /\ (Live(t, a) \/ t.state[a] = "interrupted")
Marked(t, a) == [t EXCEPT !.stop[a][1].todo = StopOrder(t, Children(t, a))]
Mark(t, a, by) ==
    LET frame == [todo |-> <<>>, on |-> NoOne, own |-> TRUE, held |-> t.held[a], wait |-> t.wait[a]]
        left == ParkResume(LeaveLine(t, a), a)
        ending == [left EXCEPT !.stop[a] = <<frame>>,
                               !.silent = IF by = t.parent[a] THEN @ \cup {a} ELSE @]
        alone == IF t.question[a] # NoOne THEN EndQuestion(ending, a) ELSE ending
    IN  Marked([UnreadLeft(alone, a) EXCEPT !.state[a] = "stopped",
                    !.opening = @ \ {a}, !.prompting = @ \ {a},
                    !.wait[a] = NoOne, !.call[a] = NoOne], a)

\* detach
Detach(t, child) == IF child = NoOne THEN t ELSE [t EXCEPT !.blocking[child] = FALSE]

\* The rest of stop: its subagents one after another, then the abort of its
\* session, which ends its sleep and the wait of its wait: true call.  Each stop
\* of a subagent does the same first, so this goes down the tree, one agent a
\* step, to the first whose abort takes time.
StopsNext(at, n) ==
    LET t == at.team
        a == at.agent
        todo == t.stop[a][1].todo
        MayStop(child) == CanStop(t, child)
        next == SelectInSeq(todo, MayStop)
        rest == [t EXCEPT !.stop[a][1].todo = SubSeq(todo, next + 1, Len(todo)),
                          !.stop[a][1].on = todo[next]]
        done == [t EXCEPT !.stop[a][1].todo = <<>>, !.stop[a][1].on = NoOne, !.resting = @ \ {a}]
    IN  IF a = NoOne THEN at
        ELSE IF next = 0 THEN [team |-> Detach(done, t.stop[a][1].wait), agent |-> NoOne]
        ELSE [team |-> Mark(rest, todo[next], a), agent |-> todo[next]]
Unwind(t, a) == FoldLeft(StopsNext, [team |-> t, agent |-> a], InOrder(Agents)).team

\* The abort has settled: the report goes up, unless a message relaunched it
\* meanwhile; the stop of its parent goes on.
Aborting(t, a) == Ending(t, a) /\ t.stop[a][1].todo = <<>> /\ t.stop[a][1].on = NoOne
CallEnds(t, a) == [t EXCEPT !.call = [x \in Agents |-> IF @[x] = a THEN NoOne ELSE @[x]]]
GoesOn(t, parent, a) ==
    IF parent \in Agents /\ Ending(t, parent) /\ t.stop[parent][1].on = a THEN Unwind(t, parent) ELSE t
EndStop(t, a) ==
    LET over == [t EXCEPT !.stop[a] = <<>>, !.silent = @ \ {a}]
    IN  GoesOn(CallEnds(IF t.stop[a][1].own /\ t.state[a] = "stopped"
                          THEN Finish(t, a, a \in t.silent)
                          ELSE Pump(over), a),
               t.parent[a], a)

\* Without a session there is nothing to abort: such stops end at once.
SettleNext(t, n) ==
    LET ready == {a \in Agents : Aborting(t, a) /\ ~t.stop[a][1].held}
    IN  IF ready = {} THEN t ELSE EndStop(t, CHOOSE a \in ready : \A b \in ready : a <= b)
Settled(t) == FoldLeft(SettleNext, t, InOrder(Agents))

Stop(t, a, by) == IF CanStop(t, a) THEN Unwind(Mark(t, a, by), a) ELSE t

\* fail: its subagents stop, each with a report that goes on up.
Fail(t, a) ==
    LET failed == [UnreadLeft(t, a) EXCEPT !.state[a] = "failed", !.prompting = @ \ {a}]
        StopChild(u, c) == Stop(u, c, NoOne)
    IN  Finish(FoldLeft(StopChild, failed, StopOrder(t, Children(t, a))), a, a \in t.silent)

\* failOrFallBack: the same run goes on with a fallback model, if one is left.
FallBack(t, a) ==
    Pump(Enqueue([UnreadLeft(t, a) EXCEPT !.state[a] = "queued", !.prompting = @ \ {a},
                                          !.held[a] = FALSE, !.continuing = @ \cup {a}],
                 a, FALSE))
FailRun(t, a) == Fail(ParkResume([t EXCEPT !.continuing = @ \ {a}], a), a)

\* resumeFailed: it stays resumable, and the failure goes up.
ResumeFailed(t, a) ==
    LET paused == [ParkResume(RunEnded(t, a), a) EXCEPT !.state[a] = "interrupted", !.blocking[a] = FALSE]
    IN  Pump(HandUpFailure(paused, a))

------------------------------------------------------------------------------
(* What sessions and main do *)

\* What a handler leaves, with the wait: true calls that return because of it.
Becomes(t) == team' = Returned(t)

Calls(by) == by = Main \/ (by \in Agents /\ Acting(team, by))

\* spawn: the next number; the names in `after` are checked.
Spawn(by) ==
    LET new == {a \in Agents : ~Known(team, a)}
        a == CHOOSE x \in new : \A y \in new : x <= y
    IN  /\ Calls(by)
        /\ new # {}
        /\ Depth(team, by) < MaxDepth
        /\ by # Main => ~Ending(team, by)
        /\ \E after \in SUBSET Agents, blocking \in BOOLEAN :
              /\ after # {} => MayAfter /\ MayFollow(team, by, after) /\ ~blocking
              /\ blocking => MayBlock /\ by # Main
              /\ LET put == [team EXCEPT !.state[a] = "queued", !.parent[a] = by,
                                         !.after[a] = after, !.blocking[a] = blocking]
                     called == IF blocking THEN [put EXCEPT !.wait[by] = a] ELSE put
                 IN  Becomes(Pump(Enqueue(called, a, blocking)))
        /\ UNCHANGED spent

\* message: a note or a question (ask), or the answer to a question.
Message(from, to) ==
    /\ Calls(from)
    /\ from # to
    /\ to \in Agents => Known(team, to)
    /\ from = Main => to \in Agents
    /\ Happens("message", MaxMessages)
    /\ \E ask \in BOOLEAN : Becomes(Send(team, from, to, ask))

\* Its session reads what was steered into it, after a tool call.
SessionReads(a) ==
    /\ Acting(team, a)
    /\ team.unread[a] # {}
    /\ team' = [team EXCEPT !.unread[a] = {}]
    /\ UNCHANGED spent

\* work: the prompt ends.  What came too late for it is the next prompt.  The
\* abort of an earlier run settles before a run that a relaunch started ends.
PromptEnds(a) ==
    /\ Acting(team, a)
    /\ ~Ending(team, a)
    /\ IF team.unread[a] \cup team.inbox[a] # {}
         THEN team' = [team EXCEPT !.unread[a] = {}, !.inbox[a] = {}]
         ELSE Becomes(Settle(team, a))
    /\ UNCHANGED spent

\* run: the prompt fails, and a fallback model may be left or not.
PromptFails(a) ==
    /\ Acting(team, a)
    /\ ~Ending(team, a)
    /\ Happens("failure", MaxFailures)
    /\ Becomes(FallBack(team, a)) \/ Becomes(Settled(FailRun(team, a)))

\* start, after open: the first prompt has the mail.
LaunchDone(a) ==
    /\ a \in team.opening
    /\ Becomes(Run([team EXCEPT !.opening = @ \ {a}, !.held[a] = TRUE,
                                !.inbox[a] = {}, !.resume[a] = {}], a))
    /\ UNCHANGED spent

LaunchFails(a) ==
    LET closed == [team EXCEPT !.opening = @ \ {a}]
    IN  /\ a \in team.opening
        /\ ~Ending(team, a)
        /\ Happens("failure", MaxFailures)
        /\ IF a \in team.continuing
             THEN Becomes(FallBack(closed, a)) \/ Becomes(Settled(FailRun(closed, a)))
             ELSE Becomes(IF team.resume[a] # {} THEN ResumeFailed(closed, a) ELSE Settled(Fail(closed, a)))

\* stop: by the stop_subagent tool of main or of an agent above it, or by the user (NoOne).
CallWaits(t, by, a) == IF by \in Agents /\ Ending(t, a) THEN [t EXCEPT !.call[by] = a] ELSE t
StopAgent(by, a) ==
    /\ by = NoOne \/ Calls(by)
    /\ CanStop(team, a)
    /\ by \in Agents => Under(team, a, by)
    /\ Happens("stop", MaxStops)
    /\ Becomes(CallWaits(Settled(Stop(team, a, by)), by, a))

\* The abort of a stopped agent's session settles.
Aborted(a) ==
    /\ Aborting(team, a)
    /\ Becomes(Settled(EndStop(team, a)))
    /\ UNCHANGED spent

\* The reply timeout passes, or the user answers.
QuestionEnds(a) ==
    /\ team.question[a] # NoOne
    /\ Becomes(EndQuestion(team, a))
    /\ UNCHANGED spent

\* rest: a bash call that begins with a sleep lends its slot out.
RestBegins(a) ==
    /\ Acting(team, a) /\ team.state[a] = "running"
    /\ Happens("rest", MaxRests)
    /\ Becomes(Pump([team EXCEPT !.resting = @ \cup {a}]))

RestEnds(a) ==
    LET awake == [team EXCEPT !.resting = @ \ {a}]
    IN  /\ a \in team.resting
        /\ Becomes(IF team.state[a] # "running" \/ Fits(awake) THEN awake ELSE GoOnWhenFree(awake, a, "rest"))
        /\ UNCHANGED spent

\* sessions.ts: an idle agent's session goes after a quiet spell.
IdleRelease(a) ==
    /\ team.state[a] = "idle" /\ team.held[a]
    /\ Happens("rest", MaxRests)
    /\ team' = [team EXCEPT !.held[a] = FALSE]

Next ==
    \/ \E by \in Actors : Spawn(by)
    \/ \E from, to \in Actors : Message(from, to)
    \/ \E a \in Agents :
          \/ SessionReads(a) \/ PromptEnds(a) \/ PromptFails(a)
          \/ LaunchDone(a) \/ LaunchFails(a)
          \/ \E by \in Actors \cup {NoOne} : StopAgent(by, a)
          \/ Aborted(a) \/ QuestionEnds(a)
          \/ RestBegins(a) \/ RestEnds(a) \/ IdleRelease(a)

Spec == Init /\ [][Next]_vars

\* Pi settles aborts and opens or refuses sessions, timers fire, and a session
\* ends its prompt some time, since what it may do meanwhile is bounded: while
\* one of these is due, the team does not stand still.  (This is less than weak
\* fairness of each of them, and TLC need not compute ENABLED of the handlers.)
Due(a) ==
    \/ a \in team.opening \/ a \in team.resting \/ Aborting(team, a)
    \/ team.question[a] # NoOne
    \/ Acting(team, a) /\ ~Ending(team, a)
FairSpec == Spec /\ ([]<>(\A a \in Agents : ~Due(a)) \/ []<><<TRUE>>_vars)

------------------------------------------------------------------------------
(* Properties *)

TypeOK ==
    /\ team.state \in [Agents -> States]
    /\ team.parent \in [Agents -> Actors \cup {NoOne}]
    /\ \A f \in {"blocking", "ran", "held"} : team[f] \in [Agents -> BOOLEAN]
    /\ \A f \in {"after", "owed"} : team[f] \in [Agents -> SUBSET Agents]
    /\ \A f \in {"inbox", "unread", "resume"} : team[f] \in [Agents -> SUBSET Actors]
    /\ \A f \in {"wait", "call"} : team[f] \in [Agents -> Agents \cup {NoOne}]
    /\ team.question \in [Agents -> Actors \cup {NoOne}]
    /\ team.going \in [Agents -> {"no", "on", "run", "rest"}]
    /\ \A a \in Agents : Ending(team, a) => Len(team.stop[a]) = 1
    /\ \A a \in Agents : team.going[a] # "no" => \E i \in 1..Len(team.line) : team.line[i] = a
    /\ \A f \in {"opening", "prompting", "resting", "continuing", "silent",
                  "peerRuns", "owesMain", "overlap"} : team[f] \subseteq Agents

\* No more agents work at once than there are slots, through every wait that
\* lends a slot out and every return from one (slots.ts).  A parent in a
\* wait: true call does not work.  A run that starts while the stop of the last
\* one is under way is not counted: that one's sleep may still lend its slot out.
AtWork == {a \in Agents : /\ team.state[a] \in ActiveStates
                          /\ team.wait[a] = NoOne /\ a \notin team.resting}
SlotsHold == Cardinality(AtWork \ team.overlap) <= MaxConcurrent

\* No slot is free while an agent that could use it waits in the line: every
\* handler that frees a slot, or ends what a spawn waits for, pumps the line.
\* A stop pumps when it ends, not when it begins.
NoIdleSlot ==
    (\A a \in Agents : ~Ending(team, a)) /\ Free(team) =>
        \A i \in 1..Len(team.line) : Held(team, team.line[i])

\* Every live agent has something that will move it: a place in the line, a
\* launch, a prompt, an open question, or an agent whose end or answer it
\* waits for.  Lost callbacks and forgotten wake-ups would leave one without.
\* Only a run that overlaps a stop may still show a question that is answered.
Driven ==
    \A a \in Agents :
        LET place == Cardinality({i \in 1..Len(team.line) : team.line[i] = a})
        IN  CASE team.state[a] = "queued"   -> place = 1
              [] team.state[a] = "starting" -> place = 0 /\ a \in team.opening
              [] team.state[a] = "running"  -> place = 0 /\ a \in team.prompting
              [] team.state[a] = "asking"   -> /\ a \in team.prompting
                                               /\ team.question[a] # NoOne \/ a \in team.overlap
              [] team.state[a] = "waiting"  -> \/ WaitsFor(team, a) # {}
                                               \/ \E c \in Children(team, a) \cup team.owed[a] : Ending(team, c)
              [] OTHER -> team.question[a] = NoOne /\ a \notin team.prompting

\* The agents never wait for each other in a ring, by subagents, owed answers
\* and `after` together (after.ts refuses what would close one), as long as no
\* agent that had ended is resumed and has to wait from the start.
NoWaitLoop ==
    team.reentered \/ \A a \in Agents :
        Live(team, a) => \A b \in Blockers(team, a) : ~DependsOn(team, b, a)

\* Some agents wait only for each other: nothing in the team moves them any more.
Stuck(S) ==
    \A a \in S : \/ /\ team.state[a] = "waiting"
                    /\ WaitsFor(team, a) # {} /\ WaitsFor(team, a) \subseteq S
                 \/ WaitingFor(team, a) \cap S # {} /\ team.state[a] = "queued"

\* README: "So agents never wait on each other in a loop", also when ended
\* agents are resumed.
NobodyStuck == \A S \in SUBSET Agents : Stuck(S) => S = {}

\* Mail leaves the queues of an agent only into a prompt or the session of a
\* run that goes on: no stop, failure or launch that will not go drops it
\* (resume-prompts.ts: "the message is not lost").  An agent that a freed slot or
\* an answer sets to work may get its prompt and be stopped in one step, by the
\* stop or the failure of its parent.
Mail(t, a) == t.inbox[a] \cup t.unread[a] \cup t.resume[a]
MayGetPrompt(t, a) == t.held[a] /\ (t.state[a] \in {"idle", "waiting"} \/ t.going[a] = "run")
GoesAndStops(a) ==
    /\ MayGetPrompt(team, a) /\ team'.state[a] = "stopped"
    /\ team.parent[a] \in Agents
    /\ Ending(team, team.parent[a]) \/ Ended(team', team.parent[a])
MailIsKept ==
    [][\A a \in Agents : \/ Mail(team, a) \subseteq Mail(team', a)
                        \/ Prompted(team', a)
                        \/ GoesAndStops(a)]_vars

\* Every run ends, whatever waits for whatever, unless agents wait only for
\* each other: a ring of waits is the one way a run hangs.
RunsEnd == \A a \in Agents : Live(team, a) ~> ~NobodyStuck \/ ~Live(team, a)
=============================================================================
