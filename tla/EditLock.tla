------------------------------- MODULE EditLock -------------------------------
(***************************************************************************)
(* The edit lock of one work tree (src/lib/subagents/edit-lock.ts): a       *)
(* subagent takes it with its first edit, or after a bash command that       *)
(* changed files there (bash-guard.ts); the agents above and below the       *)
(* holder edit beside it, others are refused.                               *)
(*                                                                         *)
(* What agents do besides, and in which order they stop, is in Team; here    *)
(* an agent is live, stopping (no longer live, its session not yet aborted)  *)
(* or ended.                                                               *)
(***************************************************************************)
EXTENDS Naturals

CONSTANTS
    Agents,
    Main,
    Parent,   \* who starts each agent
    NoOne,
    MaxStarts, \* bound: starts and resumes
    MaxBash   \* bound: bash calls that begin

VARIABLES
    state,    \* of each agent: none, live, stopping, ended
    holder,   \* holders.get(work tree)
    bash,     \* each agent's bash call: none, skipped, alone, shared; left by a stopped run
    wrote,    \* agents whose bash call has changed files
    starts, calls,
    edited,   \* ghost: agents that were let to edit, or changed files, in their run
    adrift,   \* ghost: those that worked under the lock of an agent that stopped before them
    unseen    \* ghost: agents whose bash change nothing came of

runs == <<state, starts>>
shells == <<bash, wrote, calls>>
ghosts == <<edited, adrift, unseen>>
vars == <<runs, holder, shells, ghosts>>

Init ==
    /\ state = [a \in Agents |-> "none"]
    /\ holder = NoOne
    /\ bash = [a \in Agents |-> "none"]
    /\ wrote = {}
    /\ starts = 0
    /\ calls = 0
    /\ edited = {}
    /\ adrift = {}
    /\ unseen = {}

Live(a) == a \in Agents /\ state[a] = "live"
Works(a) == state[a] \in {"live", "stopping"}
Children(a) == {c \in Agents : Parent[c] = a}

\* With each agent in it, such a set has who started that agent.
Lines == {S \in SUBSET (Agents \cup {Main}) : \A x \in S \cap Agents : Parent[x] \in S}

\* under: a sits anywhere under b, which is in every line that goes up from a.
Under(a, b) == a \in Agents /\ \A S \in Lines : Parent[a] \in S => b \in S

LiveHolder == IF Live(holder) THEN holder ELSE NoOne

\* Mutant of Holds: an agent may also edit while one of its helpers holds the lock.
HoldsNear(a) ==
    /\ LiveHolder # NoOne
    /\ LiveHolder = a \/ Under(a, LiveHolder) \/ Under(LiveHolder, a)

\* holds: without taking the lock.
Holds(a) == LiveHolder # NoOne /\ (LiveHolder = a \/ Under(a, LiveHolder))

\* claim refuses.
Refused(a) ==
    /\ LiveHolder \notin {NoOne, a}
    /\ ~Under(a, LiveHolder) /\ ~Under(LiveHolder, a)

\* Mutant of Taken: the lock stays with the helper.
TakenOnce(a) == IF LiveHolder = NoOne THEN a ELSE holder

\* The holder once claim has let a edit: the lock moves up to an ancestor of the holder.
Taken(a) == IF Holds(a) /\ LiveHolder # a THEN holder ELSE a

\* Those that count on the lock of a.
Below(a) == {b \in Agents : Under(b, a) /\ (b \in edited \/ bash[b] = "skipped")}

\* A stopping agent may take it, too, and then nobody has it.
Claims(a) ==
    /\ ~Refused(a)
    /\ holder' = Taken(a)
    /\ edited' = IF Live(a) THEN edited \cup {a} ELSE edited
    /\ adrift' = IF Live(a) THEN adrift ELSE adrift \cup Below(a)

------------------------------------------------------------------------------

\* spawn by a live parent; any message resumes an agent that has ended.
Starts(a) ==
    /\ ~Live(a) /\ starts < MaxStarts
    /\ state[a] = "none" => Parent[a] = Main \/ Live(Parent[a])
    /\ starts' = starts + 1
    /\ state' = [state EXCEPT ![a] = "live"]
    /\ UNCHANGED <<holder, shells, ghosts>>

\* follow: a holder that is no longer live lets go.
LetsGo(a, next) ==
    /\ state' = [state EXCEPT ![a] = next]
    /\ holder' = IF holder = a THEN NoOne ELSE holder
    /\ edited' = edited \ {a}
    /\ adrift' = (IF holder = a THEN adrift \cup Below(a) ELSE adrift) \ {a}

\* settle: a run does not end before the subagents of it that are live.
Ends(a) ==
    /\ Live(a) /\ bash[a] = "none"
    /\ \A c \in Children(a) : ~Live(c)
    /\ LetsGo(a, "ended")
    /\ UNCHANGED <<starts, shells, unseen>>

\* stop, and fail: the record first; its session works until its subagents have stopped.
Stops(a) ==
    /\ Live(a)
    /\ LetsGo(a, "stopping")
    /\ bash' = IF bash[a] = "skipped" THEN [bash EXCEPT ![a] = "left"] ELSE bash
    /\ UNCHANGED <<starts, wrote, calls, unseen>>

\* The abort of its session ends its bash call, too; what that changed is looked at
\* (BashEnds).
Aborted(a) ==
    /\ state[a] = "stopping" /\ bash[a] = "none"
    /\ \A c \in Children(a) : ~Works(c)
    /\ state' = [state EXCEPT ![a] = "ended"]
    /\ UNCHANGED <<starts, holder, shells, ghosts>>

\* An edit or write call: refused ones change nothing.
Edit(a) ==
    /\ Works(a) /\ bash[a] \in {"none", "left"}
    /\ Claims(a)
    /\ UNCHANGED <<runs, shells, unseen>>

Watched(a) == bash[a] \in {"alone", "shared"}

\* before: an agent that may edit is not watched.  Calls that run beside each other are
\* both marked.
BashBegins(a) ==
    /\ Live(a) /\ bash[a] = "none" /\ calls < MaxBash
    /\ calls' = calls + 1
    /\ bash' = IF Holds(a) THEN [bash EXCEPT ![a] = "skipped"]
               ELSE [b \in Agents |->
                        IF b = a THEN IF \E c \in Agents : Watched(c) THEN "shared" ELSE "alone"
                        ELSE IF Watched(b) THEN "shared" ELSE bash[b]]
    /\ UNCHANGED <<runs, holder, wrote, ghosts>>

\* The command changes a file.
BashWrites(a) ==
    /\ bash[a] # "none" /\ a \notin wrote
    /\ wrote' = wrote \cup {a}
    /\ UNCHANGED <<runs, holder, bash, calls, ghosts>>

\* after and bashChanged: what a watched call has changed alone takes the lock, or is
\* reported beside the holder.
BashEnds(a) ==
    /\ bash[a] # "none"
    /\ bash' = [bash EXCEPT ![a] = "none"]
    /\ wrote' = wrote \ {a}
    /\ IF bash[a] = "alone" /\ a \in wrote /\ ~Refused(a)
         THEN Claims(a)
         ELSE UNCHANGED <<holder, edited, adrift>>
    /\ unseen' = IF bash[a] = "skipped" /\ a \in wrote /\ ~Holds(a) /\ a \notin adrift
                   THEN unseen \cup {a} ELSE unseen
    /\ UNCHANGED <<runs, calls>>

Next ==
    \E a \in Agents :
        \/ Starts(a) \/ Ends(a) \/ Stops(a) \/ Aborted(a)
        \/ Edit(a) \/ BashBegins(a) \/ BashWrites(a) \/ BashEnds(a)

Spec == Init /\ [][Next]_vars

------------------------------------------------------------------------------
(* Properties *)

TypeOK ==
    /\ state \in [Agents -> {"none", "live", "stopping", "ended"}]
    /\ holder \in Agents \cup {NoOne}
    /\ bash \in [Agents -> {"none", "skipped", "alone", "shared", "left"}]
    /\ wrote \subseteq Agents
    /\ starts \in 0 .. MaxStarts /\ calls \in 0 .. MaxBash
    /\ edited \subseteq Agents /\ adrift \subseteq Agents /\ unseen \subseteq Agents

\* edit-lock.ts: "One child at a time edits files in each workspace".  Live agents that
\* have edited in their run are the holder and agents under it, while the lock moves up to
\* the agents above; only those who edited under the lock of an agent that has ended since,
\* by a stop or before a subagent of a subagent, may find others beside them.
OneFamily == \A a \in edited \ adrift : holder = a \/ Under(a, LiveHolder)

\* A change that a live agent made by bash without a look at it was made under the
\* lock still: an agent is not watched only while its place under the holder lasts.
ChangesSeen == unseen = {}
=============================================================================
