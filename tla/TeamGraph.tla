------------------------------- MODULE TeamGraph -------------------------------
(***************************************************************************)
(* The records of a team of subagents and who waits for whom               *)
(* (src/lib/subagents: types, after).                                      *)
(*                                                                         *)
(* The team runs on one JavaScript thread: a handler runs to its next      *)
(* await, calling many others on its way.  So every operator of the Team   *)
(* modules maps a team t (a record, see Team!TypeOK) to the team that a    *)
(* call leaves, and an action of Team is one handler between two awaits.   *)
(*                                                                         *)
(* Main is 0; the agents are numbered in the order they are spawned, which *)
(* is the order of Team.list().  The user, who may do what main may do,    *)
(* and main are one actor, except where the code tells them apart.         *)
(***************************************************************************)
EXTENDS Integers, FiniteSets, Sequences

CONSTANTS
    MaxAgents,      \* bound: agents ever spawned
    MaxDepth,       \* maxDepth: how deep agents may start agents
    MaxConcurrent   \* maxConcurrent: slots

ASSUME TeamAssumption ==
    /\ MaxAgents \in Nat \ {0}
    /\ MaxDepth \in Nat \ {0}
    /\ MaxConcurrent \in Nat \ {0}

Main == 0
NoOne == -1
Agents == 1..MaxAgents
Actors == Agents \cup {Main}

LiveStates == {"queued", "starting", "running", "asking", "waiting"}
ActiveStates == {"starting", "running"}
EndedStates == {"failed", "stopped"}
States == LiveStates \cup EndedStates \cup {"none", "idle", "interrupted"}

Known(t, a) == t.state[a] # "none"
Live(t, a) == t.state[a] \in LiveStates
Ended(t, a) == t.state[a] \in EndedStates
Children(t, a) == {c \in Agents : Known(t, c) /\ t.parent[c] = a}
LiveChildren(t, a) == {c \in Children(t, a) : Live(t, c)}

\* A stop of this agent has begun and its report has not been handed up.
Ending(t, a) == t.stop[a] # <<>>

\* What From and its successors reach: in every set closed under Succ.
Reach(From, Succ(_)) ==
    {y \in Agents : \A S \in SUBSET Agents :
        From \subseteq S /\ (\A x \in S : Succ(x) \subseteq S) => y \in S}

\* The agents above a, without main.
Above(t, a) == Reach({t.parent[a]} \cap Agents, LAMBDA x : {t.parent[x]} \cap Agents)
Depth(t, a) == IF a = Main THEN 0 ELSE Cardinality(Above(t, a)) + 1
Under(t, a, above) == above \in Above(t, a) \cup {Main}

------------------------------------------------------------------------------
(* after.ts *)

\* waitingFor: the agents that a spawn still waits for before its first run.
WaitingFor(t, a) == IF t.ran[a] THEN {} ELSE {x \in t.after[a] : Live(t, x)}
Held(t, a) == t.state[a] = "queued" /\ WaitingFor(t, a) # {}

\* The agents a cannot end before; owed answers count as `owing` says.
WaitsOf(t, a, owing) ==
    LiveChildren(t, a) \cup owing \cup (IF t.state[a] = "queued" THEN WaitingFor(t, a) ELSE {})
OwedLive(t, a) == {x \in t.owed[a] : Live(t, x)}
Blockers(t, a) == WaitsOf(t, a, OwedLive(t, a))
AnyOwed(t, a) == WaitsOf(t, a, t.owed[a])

\* dependsOn: whether a cannot end before target does.
DependsOn(t, a, target) == target \in Reach({a}, LAMBDA x : Blockers(t, x))

\* heldBetween: the same, on a path through a spawn that is held.
HeldBetween(t, a, target) ==
    LET Succ(x) == AnyOwed(t, x)
        before == Reach({a}, Succ)
        waited == UNION {IF t.state[h] = "queued" THEN WaitingFor(t, h) ELSE {} : h \in before}
    IN  target \in Reach(waited, Succ)

\* afterError: what a spawn of parent may wait for.
MayFollow(t, parent, names) ==
    \A x \in names : Known(t, x) /\ x # parent /\ ~DependsOn(t, x, parent)

\* askError and loopError: whether a may ask `to` a question it does not block on.
OnlyHeldLoops(t, a, to) == ~Held(t, to) /\ ~HeldBetween(t, to, a)  \* mutant
MayAsk(t, a, to) == ~Held(t, to) /\ ~HeldBetween(t, to, a) /\ ~DependsOn(t, to, a)

\* awaited: a spawn of the same parent waits to start after a.
Awaited(t, a) ==
    \E x \in Agents : /\ t.parent[x] = t.parent[a] /\ t.state[x] = "queued"
                      /\ ~t.ran[x] /\ a \in t.after[x]

\* stopOrder: the queued ones first.
InOrder(S) ==
    LET nth[n \in 1..Cardinality(S)] ==
            CHOOSE x \in S : Cardinality({y \in S : y < x}) = n - 1
    IN  [n \in 1..Cardinality(S) |-> nth[n]]
StopOrder(t, S) ==
    InOrder({a \in S : t.state[a] = "queued"}) \o InOrder({a \in S : t.state[a] # "queued"})
=============================================================================
