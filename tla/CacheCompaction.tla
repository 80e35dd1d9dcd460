--------------------------- MODULE CacheCompaction ---------------------------
(***************************************************************************)
(* A summary written beside the session, and the requests that keep its       *)
(* prompt cache warm (src/extensions/cache-compaction.ts,                    *)
(* src/lib/cache-compaction/warmer.ts): the request that was captured, the     *)
(* summary held for Pi's trigger, and the timer of the warms.                *)
(*                                                                         *)
(* An entry of the branch stands for the messages in `covers`; a message is    *)
(* a number and the version that an extension's edits gave it.  Prices, token *)
(* counts and lifetimes are choices.                                        *)
(***************************************************************************)
EXTENDS Naturals, Sequences

CONSTANTS
    Models,
    MaxMessages,  \* bound: messages of the session
    MaxEvents,    \* bound: moves in the tree, edits, and changes of the model
    MaxNotes,     \* bound: records of warms
    None

VARIABLES
    branch,   \* what the model is sent
    model,
    turn,     \* idle, called (a request is due), built, streaming or tools
    pending,  \* the request Pi builds: None, or its branch and model
    latest,   \* the last request that was sent
    summary,  \* None, or the summary held or waited for: its request and its result
    compact,  \* None, or Pi's compaction: its step and the entries it keeps
    timer,    \* a warm is planned
    warm,     \* a warm is under way
    late,     \* a warm was aborted that may still report its usage
    wake,     \* a job, an agent or a form will wake the session
    told,     \* ghost: the messages of the conversation up to here
    spent     \* bounds: messages, events and notes so far

cache == <<timer, warm, late, wake>>
session == <<branch, model, turn, told, spent>>
vars == <<session, pending, latest, summary, compact, cache>>

Covered(entries) == UNION {entries[i].covers : i \in DOMAIN entries}
Ids(entries) == [i \in DOMAIN entries |-> entries[i].id]
Spend(what) == spent' = [spent EXCEPT ![what] = @ + 1]

Init ==
    /\ branch = <<>> /\ told = {}
    /\ model \in Models
    /\ turn = "idle"
    /\ pending = None /\ latest = None /\ summary = None /\ compact = None
    /\ timer = FALSE /\ warm = FALSE /\ late = FALSE /\ wake = FALSE
    /\ spent = [messages |-> 0, events |-> 0, notes |-> 0]

------------------------------------------------------------------------------
(* What the handlers share *)

\* cutPoint: entries Pi can keep first.
CutPoint(entry) == entry.kind \in {"user", "reply", "summary"}

Message(kind) ==
    LET n == spent.messages + 1
    IN [id |-> <<"m", n>>, kind |-> kind, covers |-> {<<n, 0>>}]

Says(kind) ==
    /\ spent.messages < MaxMessages
    /\ branch' = Append(branch, Message(kind))
    /\ told' = told \cup Message(kind).covers
    /\ Spend("messages")

\* Mutant of Extends: the entries are compared, not what is in them.
ExtendsByIds(cap) ==
    Len(cap.branch) <= Len(branch) /\ Ids(SubSeq(branch, 1, Len(cap.branch))) = Ids(cap.branch)

\* reconcile: the session goes on from the request, and nothing in it was edited.
Extends(cap) ==
    Len(cap.branch) <= Len(branch) /\ SubSeq(branch, 1, Len(cap.branch)) = cap.branch

\* abort: the warm's answer, if it comes, is of no use.
WarmAborted ==
    /\ warm' = FALSE
    /\ late' = (late \/ warm)

\* clear: no request to share a prefix with.
Clear ==
    /\ pending' = None /\ latest' = None
    /\ timer' = FALSE
    /\ WarmAborted

------------------------------------------------------------------------------
(* The session *)

\* agent_start stops a warm.
Prompt ==
    /\ turn = "idle" /\ compact = None
    /\ turn' = "called"
    /\ Says("user")
    /\ WarmAborted
    /\ UNCHANGED <<model, pending, latest, summary, compact, timer, wake>>

\* context_with_system; a projection that cannot be told apart is not captured.
BuildRequest ==
    /\ turn = "called" /\ compact = None
    /\ turn' = "built"
    /\ pending' \in {None, [branch |-> branch, model |-> model]}
    /\ UNCHANGED <<branch, model, told, spent, latest, summary, compact, cache>>

\* before_provider_request: the request sent again stays the latest one; another one takes
\* its place, or none if it is not the one that was built or cannot be replayed.
SendRequest ==
    /\ turn = "built"
    /\ turn' = "streaming"
    /\ WarmAborted
    /\ \/ /\ latest # None /\ latest.branch = branch /\ latest.model = model
          /\ UNCHANGED <<pending, latest>>
       \/ /\ pending' = None
          /\ latest' \in {None} \cup {p \in {pending} : p # None /\ p.model = model}
    /\ timer' \in {FALSE, latest' # None}
    /\ UNCHANGED <<branch, model, told, spent, summary, compact, wake>>

\* A summary of the latest request: the model must be its model.
MayStart == summary = None /\ latest # None /\ latest.model = model

\* message_end: above the start point the summary is asked for; one without room is held as failed.
Reply ==
    /\ turn = "streaming"
    /\ Says("reply")
    /\ turn' \in {"tools", "idle"}
    /\ summary' \in {summary} \cup
          {[cap |-> latest, place |-> "held", result |-> r] : r \in IF MayStart THEN {"running", "failed"} ELSE {}}
    /\ UNCHANGED <<model, pending, latest, compact, cache>>

\* The request failed or was aborted; Pi may send it again.
ReplyFails ==
    /\ turn = "streaming"
    /\ turn' \in {"called", "idle"}
    /\ UNCHANGED <<branch, model, told, spent, pending, latest, summary, compact, cache>>

ToolEnds ==
    /\ turn = "tools"
    /\ turn' = "called"
    /\ Says("tool")
    /\ UNCHANGED <<model, pending, latest, summary, compact, cache>>

\* The user's or a job's message while tools run.
Steer ==
    /\ turn = "called" /\ compact = None
    /\ Says("user")
    /\ UNCHANGED <<model, turn, pending, latest, summary, compact, cache>>

WakeChanges ==
    /\ wake' = ~wake
    /\ UNCHANGED <<session, pending, latest, summary, compact, timer, warm, late>>

------------------------------------------------------------------------------
(* Resets *)

\* reset: a summary that is held is dropped; one that a compaction waits for is aborted.
Reset ==
    /\ Clear
    /\ summary' = IF summary # None /\ summary.place = "used" THEN [summary EXCEPT !.result = "failed"] ELSE None

Event ==
    /\ spent.events < MaxEvents
    /\ Spend("events")

\* session_tree, to an earlier entry.
Navigate ==
    /\ turn = "idle"
    /\ \E n \in 1 .. Len(branch) - 1 :
          /\ branch' = SubSeq(branch, 1, n)
          /\ told' = Covered(SubSeq(branch, 1, n))
    /\ Event /\ Reset
    /\ UNCHANGED <<model, turn, compact, wake>>

\* model_select.
SelectModel ==
    /\ model' \in Models \ {model}
    /\ Event /\ Reset
    /\ UNCHANGED <<branch, turn, told, compact, wake>>

\* Another extension edits a message that was sent; this one hears nothing of it.
Edit ==
    /\ compact # None => compact.step = "wait"
    /\ \E i \in 1 .. Len(branch), n \in 1 .. MaxMessages :
          /\ branch[i].covers = {<<n, 0>>}
          /\ branch' = [branch EXCEPT ![i].covers = {<<n, 1>>}]
          /\ told' = (told \ {<<n, 0>>}) \cup {<<n, 1>>}
    /\ Event
    /\ UNCHANGED <<model, turn, pending, latest, summary, compact, cache>>

------------------------------------------------------------------------------
(* Compaction *)

SummaryEnds ==
    /\ summary # None /\ summary.result = "running"
    /\ \E r \in {"ready", "failed"} : summary' = [summary EXCEPT !.result = r]
    /\ UNCHANGED <<session, pending, latest, compact, cache>>

\* Pi's own boundary: any entry that it can keep first.
Boundaries == {i \in 2 .. Len(branch) : CutPoint(branch[i])}

\* session_before_compact.  At Pi's trigger it waits for the summary that is held, if the
\* model is still its model; a manual one, or one after an overflow, goes its own way.
BeginCompact ==
    /\ compact = None /\ turn \in {"idle", "called"}
    /\ Clear
    /\ \E i \in Boundaries :
          LET waits == summary # None /\ summary.cap.model = model
              begun(step) == [step |-> step, first |-> branch[i].id, covers |-> Covered(SubSeq(branch, 1, i - 1))]
          IN \/ /\ waits
                /\ compact' = begun("wait")
                /\ summary' = [summary EXCEPT !.place = "used"]
             \/ /\ compact' = begun("request")
                /\ summary' = None
    /\ UNCHANGED <<session, wake>>

\* What the session becomes, and session_compact.
Compacted(covers, rest) ==
    /\ branch' = <<[id |-> <<"s", spent.messages, Len(rest)>>, kind |-> "summary", covers |-> covers]>> \o rest
    /\ compact' = None
    /\ summary' = None
    /\ Clear
    /\ UNCHANGED <<model, turn, told, spent, wake>>

\* The first entry Pi can keep of those after the request that was summarized.
Kept == {i \in Len(summary.cap.branch) + 1 .. Len(branch) : CutPoint(branch[i])}

\* The summary is the compaction only if the session, read again after the wait, extends its request.
Usable == summary.result = "ready" /\ Extends(summary.cap) /\ Kept # {}

UseSummary ==
    /\ compact # None /\ compact.step = "wait"
    /\ Usable
    /\ \E i \in Kept :
          /\ \A j \in Kept : i <= j
          /\ Compacted(Covered(summary.cap.branch), SubSeq(branch, i, Len(branch)))

\* Aborted by the user, unusable, or what it keeps is too large.
LeaveSummary ==
    /\ compact # None /\ compact.step = "wait"
    /\ summary' = None
    /\ compact' \in {None, [compact EXCEPT !.step = "request"]}
    /\ UNCHANGED <<session, pending, latest, cache>>

\* The summary of Pi's own span, asked for now: with the captured prefix, in parts, or by Pi.
UseOwn ==
    /\ compact # None /\ compact.step = "request"
    /\ \E i \in 1 .. Len(branch) :
          /\ branch[i].id = compact.first
          /\ Covered(SubSeq(branch, 1, i - 1)) = compact.covers
          /\ Compacted(compact.covers, SubSeq(branch, i, Len(branch)))

NoCompaction ==
    /\ compact # None /\ compact.step = "request"
    /\ compact' = None
    /\ UNCHANGED <<session, pending, latest, summary, cache>>

------------------------------------------------------------------------------
(* Warms *)

\* Mutant of AgentRuns: the agent's own requests do not count.
NeverRuns == FALSE

\* The agent is running with no tool call: its own request may be under way.
AgentRuns == turn \in {"called", "built", "streaming"}

\* A compaction waits for a summary, or one is being written.
Busy == summary # None /\ (summary.place = "used" \/ summary.result = "running")

\* fire, where the warm waits: it tries again, up to a deadline.
FireLater ==
    /\ timer /\ latest # None /\ (wake \/ turn = "tools")
    /\ Busy \/ AgentRuns
    /\ timer' \in BOOLEAN
    /\ UNCHANGED <<session, pending, latest, summary, compact, warm, late, wake>>

\* fire, where the prices and the clock may still be against it.
Fire ==
    /\ timer /\ latest # None /\ (wake \/ turn = "tools")
    /\ ~Busy /\ ~AgentRuns
    /\ latest.model = model /\ Extends(latest)
    /\ timer' = FALSE
    /\ warm' = TRUE
    /\ UNCHANGED <<session, pending, latest, summary, compact, late, wake>>

FireStops ==
    /\ timer
    /\ timer' = FALSE
    /\ UNCHANGED <<session, pending, latest, summary, compact, warm, late, wake>>

\* appendEntry of the warm's usage, which may fail.
Note ==
    /\ \/ /\ spent.notes < MaxNotes
          /\ branch' = Append(branch, [id |-> <<"n", spent.notes + 1>>, kind |-> "note", covers |-> {}])
          /\ Spend("notes")
       \/ UNCHANGED <<branch, spent>>
    /\ UNCHANGED <<model, turn, told, pending, latest, summary, compact, wake>>

\* send, once the answer is there: it is recorded and the next warm planned.
WarmEnds ==
    /\ warm
    /\ warm' = FALSE
    /\ timer' = TRUE
    /\ Note
    /\ UNCHANGED late

\* A warm that failed is not sent again.
WarmFails ==
    /\ warm
    /\ warm' = FALSE
    /\ timer' = FALSE
    /\ UNCHANGED <<session, pending, latest, summary, compact, late, wake>>

\* An aborted warm that reported its usage is recorded; the timer is the new request's.
LateEnds ==
    /\ late
    /\ late' = FALSE
    /\ Note
    /\ UNCHANGED <<timer, warm>>

------------------------------------------------------------------------------

Next ==
    \/ Prompt \/ BuildRequest \/ SendRequest \/ Reply \/ ReplyFails \/ ToolEnds \/ Steer \/ WakeChanges
    \/ Navigate \/ SelectModel \/ Edit
    \/ SummaryEnds \/ BeginCompact \/ UseSummary \/ LeaveSummary \/ UseOwn \/ NoCompaction
    \/ FireLater \/ Fire \/ FireStops \/ WarmEnds \/ WarmFails \/ LateEnds

Spec == Init /\ [][Next]_vars

------------------------------------------------------------------------------
(* Properties *)

Kinds == {"user", "reply", "tool", "note", "summary"}
EntryIds == ({"m", "n"} \X Nat) \cup ({"s"} \X Nat \X Nat)
Versions == (1 .. MaxMessages) \X {0, 1}
Entries == [id : EntryIds, kind : Kinds, covers : SUBSET Versions]
Requests == [branch : Seq(Entries), model : Models]
Summaries == [cap : Requests, place : {"held", "used"}, result : {"running", "ready", "failed"}]
Spent == [messages : 0 .. MaxMessages, events : 0 .. MaxEvents, notes : 0 .. MaxNotes]
Compactions == [step : {"wait", "request"}, first : EntryIds, covers : SUBSET Versions]

TypeOK ==
    /\ branch \in Seq(Entries) /\ told \subseteq Versions
    /\ model \in Models
    /\ turn \in {"idle", "called", "built", "streaming", "tools"}
    /\ pending \in Requests \cup {None} /\ latest \in Requests \cup {None}
    /\ summary \in Summaries \cup {None}
    /\ compact \in Compactions \cup {None}
    /\ {timer, warm, late, wake} \subseteq BOOLEAN
    /\ spent \in Spent

\* README.md: "The reply to the summarized request and all later messages stay verbatim after
\* it."  However the session went on while the summary was written, each message of the
\* conversation is in one entry: in a summary as it was last, or after it, and not in both.
ToldOnce ==
    /\ Covered(branch) = told
    /\ \A i, j \in DOMAIN branch : i # j => branch[i].covers \cap branch[j].covers = {}

\* README.md: "If a compaction or a background summary is in progress, or the agent is running
\* with no tool call, the warm waits."  While a warm is under way no other request of the
\* session is, also when one of them began after the warm did.
WarmAlone ==
    warm =>
        /\ turn # "streaming"
        /\ compact = None
        /\ summary = None \/ summary.result # "running"
=============================================================================
