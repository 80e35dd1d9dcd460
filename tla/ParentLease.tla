----------------------------- MODULE ParentLease -----------------------------
(***************************************************************************)
(* The lease on the subagents of a session                                   *)
(* (src/lib/subagents/ownership.ts): a directory `.owner` with owner.json in  *)
(* it, and `reaping`, made by the process that takes an abandoned one away.   *)
(* Every action is a call on the file system; processes stop between any two  *)
(* of them, for longer than the grace times, too.                           *)
(*                                                                         *)
(* One host; `rm` of a directory is one step; every claim is a process of its *)
(* own (its token), and the birth time tells a reused pid from the process.   *)
(***************************************************************************)
EXTENDS Naturals, FiniteSets

CONSTANT Procs

VARIABLES
    lock,    \* the directory is there
    owner,   \* whose owner.json is in it: one process or none
    reaping, \* whose `reaping` is in it: one process or none
    young,   \* the directory changed less than 5 s ago
    fresh,   \* reaping is less than 5 minutes old
    pc,      \* what each process does next
    blind,   \* ghost: a reaper went by an owner.json not written yet, or in a directory not its own
    twice    \* ghost: `reaping` of a live process was taken for abandoned

dir == <<lock, owner, reaping, young, fresh>>
vars == <<dir, pc, blind, twice>>

Live(p) == pc[p] \notin {"dead", "gone"}
Goto(p, label) == pc' = [pc EXCEPT ![p] = label]

\* Mutant of Stale: a signal that is refused counts as a process that has exited.
StaleWhenRefused(o) == TRUE

\* No owner.json that parses, or its process has exited.
Stale(o) == \A p \in o : ~Live(p)

Init ==
    /\ lock = FALSE
    /\ owner = {} /\ reaping = {}
    /\ young = FALSE /\ fresh = FALSE
    /\ pc = [p \in Procs |-> "start"]
    /\ blind = FALSE /\ twice = FALSE

------------------------------------------------------------------------------
(* acquireParent *)

Made ==
    /\ lock' = TRUE
    /\ owner' = {} /\ reaping' = {}
    /\ young' = TRUE
    /\ UNCHANGED fresh

\* rmSync of the directory, with what is in it by now.
Removed ==
    /\ lock' = FALSE
    /\ owner' = {} /\ reaping' = {}
    /\ UNCHANGED <<young, fresh>>

\* claim: mkdir, at once or after the old directory was removed.
Claim(p) ==
    /\ pc[p] \in {"start", "again"}
    /\ IF lock
         THEN /\ Goto(p, IF pc[p] = "start" THEN "read" ELSE "gone")
              /\ UNCHANGED dir
         ELSE Goto(p, "write") /\ Made
    /\ UNCHANGED <<blind, twice>>

\* It asks ps for its own birth time, and then writes owner.json, into whatever directory
\* has the name.
Write(p) ==
    /\ pc[p] = "write"
    /\ IF lock
         THEN /\ Goto(p, "owns")
              /\ owner' = {p}
              /\ young' = (young \/ owner = {})
              /\ UNCHANGED <<lock, reaping, fresh>>
         ELSE Goto(p, "gone") /\ UNCHANGED dir
    /\ UNCHANGED <<blind, twice>>

\* A claim is under way between its mkdir and its owner.json.
Unwritten == owner = {} /\ \E q \in Procs : pc[q] = "write"

\* What is there has no owner: one that has exited, or none after the grace time.
Abandoned == lock /\ Stale(owner) /\ (owner = {} => ~young)

Read(p) ==
    /\ pc[p] = "read"
    /\ Goto(p, IF Abandoned THEN "reap" ELSE "gone")
    /\ blind' = (blind \/ (Abandoned /\ Unwritten))
    /\ UNCHANGED <<dir, twice>>

Reaps(p) ==
    /\ reaping' = {p}
    /\ fresh' = TRUE /\ young' = TRUE
    /\ UNCHANGED <<lock, owner>>

\* mkdir of reaping; a directory there that is old is taken away first.
Reap(p) ==
    /\ pc[p] = "reap"
    /\ \/ /\ lock /\ reaping = {}
          /\ Reaps(p)
          /\ Goto(p, "reread")
       \/ /\ lock /\ reaping # {} /\ ~fresh
          /\ Goto(p, "rereap")
          /\ UNCHANGED dir
       \/ /\ ~lock \/ (reaping # {} /\ fresh)
          /\ Goto(p, "gone")
          /\ UNCHANGED dir
    /\ UNCHANGED <<blind, twice>>

\* rmSync of the old reaping, whosever it is by now, and the second mkdir.
RemoveReaping(p) ==
    /\ pc[p] = "rereap"
    /\ IF lock /\ reaping # {}
         THEN /\ Goto(p, "remake")
              /\ reaping' = {}
              /\ young' = TRUE
              /\ twice' = (twice \/ ~Stale(reaping))
              /\ UNCHANGED <<lock, owner, fresh>>
         ELSE Goto(p, "gone") /\ UNCHANGED <<dir, twice>>
    /\ UNCHANGED blind

Remake(p) ==
    /\ pc[p] = "remake"
    /\ IF lock /\ reaping = {}
         THEN Reaps(p) /\ Goto(p, "reread")
         ELSE Goto(p, "gone") /\ UNCHANGED dir
    /\ UNCHANGED <<blind, twice>>

\* current: an owner.json that is not there yet counts as none.
StillAbandoned == Stale(owner)

\* The second look, behind reaping: a live owner keeps the directory, but for reaping.
Reread(p) ==
    /\ pc[p] = "reread"
    /\ IF StillAbandoned
         THEN Goto(p, "remove") /\ UNCHANGED dir
         ELSE /\ Goto(p, "gone")
              /\ reaping' = {}
              /\ UNCHANGED <<lock, owner, young, fresh>>
    /\ blind' = (blind \/ (StillAbandoned /\ (Unwritten \/ reaping # {p})))
    /\ UNCHANGED twice

Remove(p) ==
    /\ pc[p] = "remove"
    /\ IF lock
         THEN Goto(p, "again") /\ Removed
         ELSE Goto(p, "gone") /\ UNCHANGED dir
    /\ UNCHANGED <<blind, twice>>

------------------------------------------------------------------------------
(* The end of a claim *)

\* The release reads owner.json; a directory with another token is left alone.
Release(p) ==
    /\ pc[p] = "owns"
    /\ Goto(p, IF lock /\ owner = {p} THEN "drop" ELSE "gone")
    /\ UNCHANGED <<dir, blind, twice>>

Drop(p) ==
    /\ pc[p] = "drop"
    /\ Goto(p, "gone")
    /\ Removed
    /\ UNCHANGED <<blind, twice>>

Crash(p) ==
    /\ Live(p)
    /\ Goto(p, "dead")
    /\ UNCHANGED <<dir, blind, twice>>

Age ==
    /\ lock
    /\ \/ young /\ young' = FALSE /\ UNCHANGED fresh
       \/ reaping # {} /\ fresh /\ fresh' = FALSE /\ UNCHANGED young
    /\ UNCHANGED <<lock, owner, reaping, pc, blind, twice>>

Next ==
    \/ \E p \in Procs :
          \/ Claim(p) \/ Write(p) \/ Read(p) \/ Reap(p) \/ RemoveReaping(p) \/ Remake(p)
          \/ Reread(p) \/ Remove(p) \/ Release(p) \/ Drop(p) \/ Crash(p)
    \/ Age

Spec == Init /\ [][Next]_vars

------------------------------------------------------------------------------
(* Properties *)

TypeOK ==
    /\ lock \in BOOLEAN
    /\ {owner, reaping} \subseteq {{}} \cup {{p} : p \in Procs}
    /\ {young, fresh, blind, twice} \subseteq BOOLEAN
    /\ pc \in [Procs -> {"start", "again", "write", "read", "reap", "rereap", "remake", "reread",
                         "remove", "owns", "drop", "gone", "dead"}]

Owns(p) == pc[p] \in {"owns", "drop"}

\* README.md: "Only one Pi process at a time can own a session's children".
OnlyOne == \A p, q \in Procs : Owns(p) /\ Owns(q) => p = q

\* Two processes own the subagents at once only after a reaper looked at a claim between its
\* mkdir and its owner.json, or found the directory replaced or gone since its mkdir of reaping,
\* or took the reaping of a live process for abandoned.
OneParent == blind \/ twice \/ OnlyOne
=============================================================================
