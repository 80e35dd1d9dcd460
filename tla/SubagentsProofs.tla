---------------------------- MODULE SubagentsProofs ----------------------------
(***************************************************************************)
(* The invariants of a team and of the lease, for any number of agents,    *)
(* slots and processes and any bounds: the handlers one by one, and the    *)
(* theorems.                                                               *)
(***************************************************************************)
EXTENDS MCSubagents, TeamLemmas

------------------------------------------------------------------------------
(* The lease (ParentLease) *)

\* There is no reaping without the directory.
Nested == reaping # {} => lock

\* A claim before its owner.json is alone in its directory, and the only one.
Claims ==
    \A p \in Procs : pc[p] = "write" =>
        /\ lock /\ owner = {}
        /\ \A q \in Procs : pc[q] = "write" => q = p

\* An owner has the directory.
Holds == \A p \in Procs : L!Owns(p) => lock /\ owner = {p}

\* Who is about to remove the directory has its reaping, and nobody owns or claims it.
Removes ==
    \A p \in Procs : pc[p] = "remove" =>
        /\ reaping = {p} /\ L!Stale(owner)
        /\ \A q \in Procs : pc[q] # "write"

\* Without a blind look or a reaping taken twice, these hold.
LeaseInv ==
    /\ L!TypeOK
    /\ Nested
    /\ blind \/ twice \/ (Claims /\ Holds /\ Removes)

\* The invariant holds at first.
LEMMA InitLeaseInv == L!Init => LeaseInv
  BY DEF L!Init, LeaseInv, L!TypeOK, Nested, Claims, Holds, Removes, L!Owns

\* Every step keeps the types.
LEMMA TypeStep == L!TypeOK /\ [L!Next]_leaseVars => L!TypeOK'
<1> SUFFICES ASSUME L!TypeOK, [L!Next]_leaseVars PROVE L!TypeOK'
  OBVIOUS
<1> USE DEF L!TypeOK, L!Goto, L!Made, L!Removed, L!Reaps, L!dir, L!Live
<1>1. ASSUME NEW p \in Procs, L!Claim(p) PROVE L!TypeOK'
  BY <1>1 DEF L!Claim
<1>2. ASSUME NEW p \in Procs, L!Write(p) PROVE L!TypeOK'
  BY <1>2 DEF L!Write
<1>3. ASSUME NEW p \in Procs, L!Read(p) PROVE L!TypeOK'
  BY <1>3 DEF L!Read, L!Abandoned, L!Stale, L!Unwritten
<1>4. ASSUME NEW p \in Procs, L!Reap(p) PROVE L!TypeOK'
  BY <1>4 DEF L!Reap
<1>5. ASSUME NEW p \in Procs, L!RemoveReaping(p) PROVE L!TypeOK'
  BY <1>5 DEF L!RemoveReaping
<1>6. ASSUME NEW p \in Procs, L!Remake(p) PROVE L!TypeOK'
  BY <1>6 DEF L!Remake
<1>7. ASSUME NEW p \in Procs, L!Reread(p) PROVE L!TypeOK'
  BY <1>7 DEF L!Reread, L!StillAbandoned, L!Stale, L!Unwritten
<1>8. ASSUME NEW p \in Procs, L!Remove(p) PROVE L!TypeOK'
  BY <1>8 DEF L!Remove
<1>9. ASSUME NEW p \in Procs, L!Release(p) \/ L!Drop(p) \/ L!Crash(p) PROVE L!TypeOK'
  BY <1>9 DEF L!Release, L!Drop, L!Crash
<1>10. CASE L!Age
  BY <1>10 DEF L!Age
<1>11. CASE UNCHANGED leaseVars
  BY <1>11 DEF leaseVars
<1> QED
  BY <1>1, <1>2, <1>3, <1>4, <1>5, <1>6, <1>7, <1>8, <1>9, <1>10, <1>11 DEF L!Next

\* Every step keeps the invariant, action by action.
LEMMA StepLeaseInv == LeaseInv /\ [L!Next]_leaseVars => LeaseInv'
<1> SUFFICES ASSUME LeaseInv, [L!Next]_leaseVars PROVE LeaseInv'
  OBVIOUS
<1>t. L!TypeOK'
  BY TypeStep DEF LeaseInv
<1>b. L!TypeOK
  BY DEF LeaseInv
<1> USE <1>t, <1>b DEF LeaseInv, Nested, Claims, Holds, Removes, L!Owns, L!Goto, L!dir
<1>1. ASSUME NEW p \in Procs, L!Claim(p) PROVE LeaseInv'
  BY <1>1 DEF L!Claim, L!Made, L!TypeOK, L!Stale, L!Live
<1>2. ASSUME NEW p \in Procs, L!Write(p) PROVE LeaseInv'
  BY <1>2 DEF L!Write, L!TypeOK, L!Stale, L!Live
<1>3. ASSUME NEW p \in Procs, L!Read(p) PROVE LeaseInv'
  BY <1>3 DEF L!Read, L!TypeOK, L!Stale, L!Live
<1>4. ASSUME NEW p \in Procs, L!Reap(p) PROVE LeaseInv'
  BY <1>4 DEF L!Reap, L!Reaps, L!TypeOK, L!Stale, L!Live
<1>5. ASSUME NEW p \in Procs, L!RemoveReaping(p) PROVE LeaseInv'
  BY <1>5 DEF L!RemoveReaping, L!TypeOK, L!Stale, L!Live
<1>6. ASSUME NEW p \in Procs, L!Remake(p) PROVE LeaseInv'
  BY <1>6 DEF L!Remake, L!Reaps, L!TypeOK, L!Stale, L!Live
<1>7. ASSUME NEW p \in Procs, L!Reread(p) PROVE LeaseInv'
  <2>1. L!TypeOK' /\ Nested'
    BY <1>7 DEF L!Reread, L!TypeOK
  <2>2. ASSUME L!StillAbandoned, ~blind', ~twice' PROVE (Claims /\ Holds /\ Removes)'
    <3>a. /\ UNCHANGED <<lock, owner, reaping>> /\ L!Stale(owner)
          /\ pc' = [pc EXCEPT ![p] = "remove"]
      BY <1>7, <2>2 DEF L!Reread, L!StillAbandoned
    <3>b. ~blind /\ ~twice /\ ~L!Unwritten /\ reaping = {p}
      BY <1>7, <2>2 DEF L!Reread
    <3>1. /\ UNCHANGED <<lock, owner, reaping>> /\ reaping = {p} /\ L!Stale(owner)
          /\ pc' = [pc EXCEPT ![p] = "remove"] /\ Claims /\ Holds /\ Removes
          /\ ~L!Unwritten
      BY <3>a, <3>b
    <3>2. \A q \in Procs : L!Live(q)' => L!Live(q)
      BY <1>7, <3>1 DEF L!Reread, L!TypeOK, L!Live
    <3>3. L!Stale(owner)'
      BY <3>1, <3>2 DEF L!Stale, L!TypeOK
    <3>4. \A q \in Procs : pc[q] # "write"
      BY <3>1 DEF L!Unwritten
    <3> QED
      BY <3>1, <3>3, <3>4 DEF L!TypeOK
  <2>3. ASSUME ~L!StillAbandoned, ~blind', ~twice' PROVE (Claims /\ Holds /\ Removes)'
    <3>1. /\ UNCHANGED <<lock, owner>> /\ reaping' = {} /\ ~L!Stale(owner)
          /\ pc' = [pc EXCEPT ![p] = "gone"] /\ Claims /\ Holds /\ Removes
      BY <1>7, <2>3 DEF L!Reread, L!StillAbandoned, L!TypeOK
    <3> QED
      BY <3>1 DEF L!TypeOK
  <2> QED
    BY <2>1, <2>2, <2>3 DEF L!TypeOK
<1>8. ASSUME NEW p \in Procs, L!Remove(p) PROVE LeaseInv'
  BY <1>8 DEF L!Remove, L!Removed, L!TypeOK, L!Stale, L!Live
<1>9. ASSUME NEW p \in Procs, L!Release(p) PROVE LeaseInv'
  BY <1>9 DEF L!Release, L!TypeOK, L!Stale, L!Live
<1>10. ASSUME NEW p \in Procs, L!Drop(p) PROVE LeaseInv'
  BY <1>10 DEF L!Drop, L!Removed, L!TypeOK, L!Stale, L!Live
<1>11. ASSUME NEW p \in Procs, L!Crash(p) PROVE LeaseInv'
  BY <1>11 DEF L!Crash, L!TypeOK, L!Stale, L!Live
<1>12. CASE L!Age
  BY <1>12 DEF L!Age, L!TypeOK, L!Stale, L!Live
<1>13. CASE UNCHANGED leaseVars
  BY <1>13 DEF leaseVars, L!TypeOK, L!Stale, L!Live
<1> QED
  BY <1>1, <1>2, <1>3, <1>4, <1>5, <1>6, <1>7, <1>8, <1>9, <1>10, <1>11, <1>12, <1>13 DEF L!Next

------------------------------------------------------------------------------
(* Both *)

\* Both invariants hold at first, and every step of either part keeps them.
LEMMA StartsTogether == MCInit => Good(team, NoOne) /\ LeaseInv
  BY StartsGood, InitLeaseInv DEF MCInit

\* The step of a part.
LEMMA StepsTogether ==
  Good(team, NoOne) /\ LeaseInv /\ [MCNext]_<<part, vars, leaseVars>> => (Good(team, NoOne)
  /\ LeaseInv)'
<1> SUFFICES ASSUME Good(team, NoOne), LeaseInv, [MCNext]_<<part, vars, leaseVars>>
             PROVE  (Good(team, NoOne) /\ LeaseInv)'
  OBVIOUS
<1>1. [Next]_vars /\ [L!Next]_leaseVars
  BY DEF MCNext
<1> QED
  BY <1>1, StepsGood, StepLeaseInv

\* What every reachable state of a team and of a lease has in common.
THEOREM Invariance == MCSpec => [](Good(team, NoOne) /\ LeaseInv)
  BY StartsTogether, StepsTogether, PTL DEF MCSpec

\* No more agents work at once than there are slots, for any numbers of agents and slots:
\* through every wait that lends a slot out, every stop, and every return (slots.ts).
THEOREM SlotsHoldHolds == MCSpec => []SlotsHold
<1>1. Good(team, NoOne) => SlotsHold
  BY GoodSlots
<1> QED
  BY <1>1, Invariance, PTL

\* The records of the team and of the lease keep their types.
THEOREM SubagentsTyped == MCSpec => []SubagentsTypeOK
<1>1. Good(team, NoOne) /\ LeaseInv => SubagentsTypeOK
  BY GoodTypes DEF LeaseInv, SubagentsTypeOK
<1> QED
  BY <1>1, Invariance, PTL

\* Two processes own a session's subagents at once only through one of the windows of
\* ownership.ts that OneParent names, for any number of processes.
THEOREM OneParentHolds == MCSpec => []OneParent
<1>1. LeaseInv => OneParent
  BY DEF LeaseInv, OneParent, L!OneParent, L!OnlyOne, Holds
<1> QED
  BY Invariance, <1>1, PTL

------------------------------------------------------------------------------
(* The handlers that stop nobody *)

\* Mail stays where it is, or its agent works with it.
MailStays(t, u) == \A a \in Agents : Mail(t, a) \subseteq Mail(u, a)
Begins(t, u) == \A a \in Agents : Mail(t, a) \subseteq Mail(u, a) \/ Works(u, a)

\* One after another.
LEMMA BeginsMore ==
  ASSUME NEW t, NEW u, NEW v
  PROVE  /\ MailStays(t, t) /\ (MailStays(t, u) /\ MailStays(u, v) => MailStays(t, v))
         /\ Kept(t, u) => Begins(t, u)
         /\ Begins(t, u) /\ Kept(u, v) => Begins(t, v)
         /\ MailStays(t, u) => Begins(t, u)
         /\ MailStays(t, u) /\ Begins(u, v) => Begins(t, v)
         /\ Alike(t, u) => MailStays(t, u)
<1>1. MailStays(t, t) /\ (MailStays(t, u) /\ MailStays(u, v) => MailStays(t, v))
  BY DEF MailStays
<1>2. ASSUME Begins(t, u), Kept(u, v), NEW a \in Agents
      PROVE  Mail(t, a) \subseteq Mail(v, a) \/ Works(v, a)
  <2>1. KeptOf(u, v, a) /\ (Mail(t, a) \subseteq Mail(u, a) \/ Works(u, a))
    BY <1>2 DEF Kept, Begins
  <2> QED
    BY <2>1 DEF KeptOf
<1>3. Alike(t, u) => MailStays(t, u)
  BY DEF Alike, AlikeOf, Ending, MailStays, Mail
<1>4. MailStays(t, u) /\ Begins(u, v) => Begins(t, v)
  BY DEF MailStays, Begins
<1> QED
  BY <1>1, <1>2, <1>3, <1>4 DEF Kept, KeptOf, Begins, MailStays

\* Everyone is tidy, but for x.
Neat(t, x) == \A b \in Agents : b # x => Tidy(t, b)
Locals(t) == \A b \in Agents : Tidy(t, b)

\* And no slot is free for an agent in the line.
Snug(t) == Locals(t) /\ Tight(t)

\* It is where nothing that matters changes.
LEMMA AlikeTidy ==
  ASSUME NEW t, NEW u, NEW b, AlikeOf(t, u, b)
  PROVE  Tidy(t, b) => Tidy(u, b)
  BY DEF AlikeOf, Tidy

\* They stay so where nothing changes, or is kept.
LEMMA NeatMore ==
  ASSUME NEW t, NEW u
  PROVE  /\ Kept(t, u) \/ Alike(t, u) => (Locals(t) => Locals(u))
         /\ \A a \in Agents : /\ Locals(t) => Neat(t, a)
                              /\ Kept(t, u) \/ Alike(t, u) => (Neat(t, a) => Neat(u, a))
                              /\ Apart(t, u, a) => (Neat(t, a) => Neat(u, a))
                              /\ Neat(t, a) /\ Tidy(t, a) => Locals(t)
<1>1. ASSUME NEW b \in Agents, AlikeOf(t, u, b), Tidy(t, b) PROVE Tidy(u, b)
  BY <1>1 DEF AlikeOf, Tidy
<1>2. ASSUME NEW b \in Agents, KeptOf(t, u, b), Tidy(t, b) PROVE Tidy(u, b)
  BY <1>2 DEF KeptOf, TidyOf
<1>3. ASSUME Kept(t, u) \/ Alike(t, u), NEW b \in Agents, Tidy(t, b) PROVE Tidy(u, b)
  BY <1>1, <1>2, <1>3 DEF Kept, Alike
<1>4. ASSUME NEW a \in Agents, Apart(t, u, a), NEW b \in Agents, b # a, Tidy(t, b) PROVE Tidy(u, b)
  BY <1>1, <1>4 DEF Apart
<1> QED
  BY <1>3, <1>4 DEF Neat, Locals

\* What is firm and owes no more tends the team.
LEMMA FirmOwes ==
  ASSUME NEW t, NEW x, Tends(t, x), NEW y, NEW u, Good(u, y), Posted(u), Firm(t, u),
         \A b \in Agents : u.owed[b] \subseteq t.owed[b]
  PROVE  Tends(u, y)
<1>1. Debts(u)
  BY DEF Tends, Debts, Firm
<1>2. Todo(u)
  <2> SUFFICES ASSUME NEW a \in Agents, Ending(u, a), NEW i \in 1 .. Len(u.stop[a][1].todo)
               PROVE  u.stop[a][1].todo[i] \in Children(u, a)
    BY DEF Todo
  <2>1. Ending(t, a) /\ u.stop[a][1].todo = t.stop[a][1].todo
    BY DEF Firm
  <2>2. t.stop[a][1].todo[i] \in Children(t, a)
    BY <2>1 DEF Tends, Todo
  <2> QED
    BY <2>1, <2>2 DEF Firm, Children
<1> QED
  BY <1>1, <1>2 DEF Tends

\* Whoever joins the line, mail stays.
LEMMA EnqueueSteady ==
  ASSUME NEW t, NEW x, Tends(t, x), NEW a \in Agents, NEW first \in BOOLEAN,
         NEW u, u = Enqueue(t, a, first)
  PROVE  Tends(u, x) /\ Steady(t, u)
<1>0. Good(t, x) /\ t \in Teams /\ Posted(t) /\ Sound(t, x)
  BY DEF Tends, Good
<1>1. u \in Teams /\ Sound(u, x) /\ Counted(u) = Counted(t) /\ Stays(t, u)
  BY <1>0, EnqueueSound
<1>2. Good(u, x)
  BY <1>0, <1>1 DEF Good, Few
<1>3. PICK l : u = [t EXCEPT !.line = l]
  BY DEF Enqueue
<1>4. Alike(t, u)
  BY <1>0, <1>3 DEF Teams, Alike, AlikeOf, Ending
<1>5. Posted(u) /\ Kept(t, u)
  BY <1>0, <1>4, AlikeKept
<1>6. u.parent = t.parent /\ u.state = t.state /\ u.stop = t.stop
  BY <1>0, <1>3 DEF Teams
<1>7. Firm(t, u) /\ Lasts(t, u)
  BY <1>6 DEF Firm, Lasts, Known, Ended, Ending
<1> QED
  BY <1>2, <1>5, <1>7, FirmTends DEF Steady

\* Who is set aside keeps its mail.
LEMMA PutTends ==
  ASSUME NEW t, NEW x, Tends(t, x), NEW a \in Agents, Idles(t, a), t.going[a] = "no",
         NEW s, s # "none", s = "queued" \/ t.resume[a] = {}, NEW u, u = Put(t, a, s),
         Good(u, x), Idles(u, a), u.state[a] = s
  PROVE  /\ Tends(u, x) /\ MailStays(t, u) /\ Apart(t, u, a)
         /\ u.going[a] = "no" /\ u.held = t.held /\ u.parent = t.parent /\ u.stop = t.stop
         /\ u.silent = t.silent /\ u.prompting = t.prompting
         /\ a \notin t.prompting /\ s \notin {"running", "asking", "starting", "idle"} => Tidy(u, a)
<1>0. Good(t, x) /\ t \in Teams /\ Posted(t)
  BY DEF Tends, Good
<1>2. u = [t EXCEPT !.state[a] = s]
  BY DEF Put
<1>3. /\ u.state = [t.state EXCEPT ![a] = s] /\ u.going = t.going /\ u.inbox = t.inbox
      /\ u.unread = t.unread /\ u.resume = t.resume /\ u.held = t.held /\ u.question = t.question
      /\ u.wait = t.wait /\ u.owed = t.owed /\ u.prompting = t.prompting /\ u.parent = t.parent
      /\ u.blocking = t.blocking /\ u.opening = t.opening /\ u.overlap = t.overlap
      /\ u.stop = t.stop /\ u.silent = t.silent
  BY <1>0, <1>2 DEF Teams
<1>4. Apart(t, u, a)
  BY <1>0, <1>3 DEF Teams, Apart, AlikeOf, Ending
<1>5. PostedOf(u, a)
  BY <1>0, <1>3 DEF Posted, PostedOf
<1>6. Posted(u)
  BY <1>0, <1>4, <1>5 DEF Posted, PostedOf, Apart, AlikeOf, Ending
<1>7. MailStays(t, u)
  BY <1>3 DEF MailStays, Mail
<1>8. Firm(t, u)
  BY <1>0, <1>3 DEF Teams, Firm, Known, Ending
<1>9. Tends(u, x)
  BY <1>0, <1>3, <1>6, <1>8, FirmOwes
<1>10. ASSUME a \notin t.prompting, s \notin {"running", "asking", "starting", "idle"}
       PROVE  Tidy(u, a)
  BY <1>3, <1>10 DEF Tidy
<1> QED
  BY <1>3, <1>4, <1>7, <1>9, <1>10

\* A change of a that leaves its state alone, and its mail no less.
SetAside(t, u, a) ==
    /\ Apart(t, u, a) /\ Mail(t, a) \subseteq Mail(u, a) /\ u.going = t.going /\ u.owed = t.owed
    /\ u.resume[a] \subseteq t.resume[a] /\ u.state[a] = t.state[a]
    /\ u.held[a] = t.held[a] \/ (t.going[a] # "run" /\ ~u.held[a])
    /\ u.silent = t.silent /\ u.prompting \subseteq t.prompting

\* It is one.
LEMMA SetAsideTends ==
  ASSUME NEW t, NEW x, Tends(t, x), NEW a \in Agents, NEW u \in Teams, Same(t, u), SetAside(t, u, a)
  PROVE  Tends(u, x) /\ MailStays(t, u) /\ (Idles(t, a) => Idles(u, a)) /\ u.going[a] = t.going[a]
<1>0. Good(t, x) /\ Posted(t)
  BY DEF Tends
<1>1. Good(u, x) /\ Firm(t, u)
  BY <1>0, GoodSame, FirmBy
<1>2. PostedOf(u, a)
  BY <1>0 DEF Posted, PostedOf, SetAside
<1>3. Posted(u)
  BY <1>0, <1>2 DEF Posted, PostedOf, SetAside, Apart, AlikeOf, Ending
<1>4. MailStays(t, u)
  BY DEF SetAside, MailStays, Apart, AlikeOf, Ending, Mail
<1>5. Tends(u, x)
  BY <1>1, <1>3, FirmOwes DEF SetAside
<1>6. Idles(t, a) => Idles(u, a)
  BY IdlesOn
<1> QED
  BY <1>4, <1>5, <1>6 DEF SetAside

\* The changes of this kind.
LEMMA AsideIs ==
  ASSUME NEW t \in Teams, NEW a \in Agents
  PROVE  /\ SetAside(t, Unprompted(t, a), a) /\ SetAside(t, UnreadLeft(t, a), a)
         /\ SetAside(t, ParkResume(t, a), a) /\ ParkResume(t, a).resume[a] = {}
         /\ SetAside(t, Quits(t, a), a) /\ SetAside(t, Closed(t, a), a)
         /\ t.going[a] # "run" => SetAside(t, Left(t, a), a)
<1>1. SetAside(t, Unprompted(t, a), a)
  BY DEF Teams, SetAside, Apart, AlikeOf, Ending, Mail, Unprompted
<1>2. SetAside(t, UnreadLeft(t, a), a)
  <2>1. PICK u : u = UnreadLeft(t, a)
    OBVIOUS
  <2>2. /\ u.inbox = [t.inbox EXCEPT ![a] = @ \cup t.unread[a]] /\ u.unread = [t.unread EXCEPT ![a] = {}]
        /\ u.state = t.state /\ u.going = t.going /\ u.resume = t.resume /\ u.held = t.held
        /\ u.question = t.question /\ u.wait = t.wait /\ u.owed = t.owed
        /\ u.prompting = t.prompting /\ u.silent = t.silent /\ u.blocking = t.blocking
        /\ u.opening = t.opening /\ u.overlap = t.overlap /\ u.stop = t.stop
    BY <2>1 DEF UnreadLeft, Teams
  <2> QED
    BY <2>1, <2>2 DEF Teams, SetAside, Apart, AlikeOf, Ending, Mail
<1>3. SetAside(t, ParkResume(t, a), a) /\ ParkResume(t, a).resume[a] = {}
  <2>1. PICK u : u = ParkResume(t, a)
    OBVIOUS
  <2>2. /\ u.inbox = [t.inbox EXCEPT ![a] = @ \cup t.resume[a]] /\ u.resume = [t.resume EXCEPT ![a] = {}]
        /\ u.state = t.state /\ u.going = t.going /\ u.unread = t.unread /\ u.held = t.held
        /\ u.question = t.question /\ u.wait = t.wait /\ u.owed = t.owed
        /\ u.prompting = t.prompting /\ u.silent = t.silent /\ u.blocking = t.blocking
        /\ u.opening = t.opening /\ u.overlap = t.overlap /\ u.stop = t.stop
    BY <2>1 DEF ParkResume, Teams
  <2> QED
    BY <2>1, <2>2 DEF Teams, SetAside, Apart, AlikeOf, Ending, Mail
<1>4. SetAside(t, Quits(t, a), a) /\ SetAside(t, Closed(t, a), a)
  BY DEF Teams, SetAside, Apart, AlikeOf, Ending, Mail, Quits, Closed
<1>5. ASSUME t.going[a] # "run" PROVE SetAside(t, Left(t, a), a)
  <2>1. PICK u : u = Left(t, a)
    OBVIOUS
  <2>2. /\ u.inbox = t.inbox /\ u.resume = t.resume /\ u.held = [t.held EXCEPT ![a] = FALSE]
        /\ u.state = t.state /\ u.going = t.going /\ u.unread = t.unread
        /\ u.question = t.question /\ u.wait = t.wait /\ u.owed = t.owed
        /\ u.prompting = t.prompting \ {a} /\ u.silent = t.silent /\ u.blocking = t.blocking
        /\ u.opening = t.opening /\ u.overlap = t.overlap /\ u.stop = t.stop
    BY <2>1 DEF Left, Teams
  <2> QED
    BY <1>5, <2>1, <2>2 DEF Teams, SetAside, Apart, AlikeOf, Ending, Mail
<1> QED
  BY <1>1, <1>2, <1>3, <1>4, <1>5

\* settle keeps mail.
LEMMA SettleTends ==
  ASSUME NEW t, Tends(t, NoOne), NEW a \in Agents, Idles(t, a), t.going[a] = "no", t.resume[a] = {}
  PROVE  /\ Tends(Settle(t, a), NoOne) /\ Begins(t, Settle(t, a))
         /\ Tight(Settle(t, a)) /\ (Neat(t, a) => Locals(Settle(t, a)))
<1>0. t \in Teams
  BY DEF Tends, Good
<1>1. PICK e : e = Unprompted(t, a)
  OBVIOUS
<1>2. e \in Teams /\ Same(t, e) /\ SetAside(t, e, a)
  BY <1>0, <1>1, UnpromptedSame, AsideIs
<1>3. /\ Tends(e, NoOne) /\ Idles(e, a) /\ MailStays(t, e) /\ e.going[a] = "no"
      /\ e.resume[a] = {} /\ a \notin e.prompting /\ (Neat(t, a) => Neat(e, a))
  <2>1. a \notin e.prompting
    BY <1>0, <1>1 DEF Teams, Unprompted
  <2> QED
    BY <1>2, <2>1, SetAsideTends, NeatMore DEF SetAside
<1>4. PICK v : v = Put(e, a, "waiting")
  OBVIOUS
<1>5. PICK w : w = Put(e, a, "idle")
  OBVIOUS
<1>6. PICK s \in {"waiting", "idle", "failed", "interrupted", "queued"} : s = "waiting"
  OBVIOUS
<1>7. PICK r \in {"waiting", "idle", "failed", "interrupted", "queued"} : r = "idle"
  OBVIOUS
<1>8. Tends(v, NoOne) /\ MailStays(e, v) /\ Tidy(v, a) /\ (Neat(e, a) => Neat(v, a))
  <2>1. Good(v, NoOne) /\ Idles(v, a) /\ v.state[a] = s
    BY <1>3, <1>4, <1>6, PutGood DEF Tends
  <2> QED
    BY <1>3, <1>4, <1>6, <2>1, PutTends, NeatMore
<1>9. /\ Tends(w, NoOne) /\ MailStays(e, w) /\ Idles(w, a) /\ w.state[a] = "idle"
      /\ w.going[a] = "no" /\ a \notin w.prompting /\ (Neat(e, a) => Neat(w, a))
  <2>1. Good(w, NoOne) /\ Idles(w, a) /\ w.state[a] = r
    BY <1>3, <1>5, <1>7, PutGood DEF Tends
  <2>2. /\ Tends(w, NoOne) /\ MailStays(e, w) /\ Apart(e, w, a) /\ w.going[a] = "no"
        /\ w.prompting = e.prompting
    BY <1>3, <1>5, <1>7, <2>1, PutTends
  <2>3. Neat(e, a) => Neat(w, a)
    BY <2>2, NeatMore
  <2> QED
    BY <1>3, <1>5, <1>7, <2>1, <2>2, <2>3, NeatMore
<1>10. /\ Tends(Pump(v), NoOne) /\ Begins(t, Pump(v))
       /\ Tight(Pump(v)) /\ (Neat(t, a) => Locals(Pump(v)))
  <2>1. Tends(Pump(v), NoOne) /\ Steady(v, Pump(v)) /\ Tight(Pump(v))
    BY <1>8, PumpSteady
  <2> QED
    BY <1>3, <1>8, <2>1, BeginsMore, NeatMore DEF Steady
<1>11. PICK f : f = Finish(w, a, a \in t.silent)
  OBVIOUS
<1>12. Tends(f, NoOne) /\ Begins(t, f) /\ Tight(f) /\ (Neat(t, a) => Locals(f))
  <2>1. Tends(f, NoOne) /\ Steady(w, f) /\ Tight(f) /\ (Tidy(Over(w, a), a) => Tidy(f, a))
    BY <1>9, <1>11, FinishSteady DEF Idles, ActiveStates
  <2>2. Tidy(Over(w, a), a)
    BY <1>9 DEF Tends, Good, Teams, Over, Tidy
  <2> QED
    BY <1>3, <1>9, <2>1, <2>2, BeginsMore, NeatMore DEF Steady
<1>13. Settle(t, a) = Pump(v) \/ Settle(t, a) = f
  BY <1>1, <1>4, <1>5, <1>11 DEF Settle, Unprompted, Put
<1> QED
  BY <1>10, <1>12, <1>13

\* So does a run that falls back.
LEMMA FallBackTends ==
  ASSUME NEW t, Tends(t, NoOne), NEW a \in Agents, Idles(t, a), t.going[a] = "no"
  PROVE  /\ Tends(FallBack(t, a), NoOne) /\ Begins(t, FallBack(t, a))
         /\ Tight(FallBack(t, a)) /\ (Neat(t, a) => Locals(FallBack(t, a)))
<1>0. t \in Teams
  BY DEF Tends, Good
<1>1. PICK r : r = UnreadLeft(t, a)
  OBVIOUS
<1>2. r \in Teams /\ Same(t, r) /\ SetAside(t, r, a)
  BY <1>0, <1>1, ParkedSame, AsideIs
<1>3. Tends(r, NoOne) /\ MailStays(t, r) /\ Idles(r, a) /\ r.going[a] = "no"
  BY <1>2, SetAsideTends
<1>4. PICK e : e = Left(r, a)
  OBVIOUS
<1>5. e \in Teams /\ Same(r, e) /\ SetAside(r, e, a)
  BY <1>2, <1>3, <1>4, LeftSame, AsideIs
<1>6. /\ Tends(e, NoOne) /\ MailStays(r, e) /\ Idles(e, a) /\ e.going[a] = "no"
      /\ a \notin e.prompting /\ (Neat(t, a) => Neat(e, a))
  <2>1. a \notin e.prompting
    BY <1>2, <1>4 DEF Teams, Left
  <2> QED
    BY <1>2, <1>3, <1>5, <2>1, SetAsideTends, NeatMore DEF SetAside
<1>7. PICK f : f = Put(e, a, "queued")
  OBVIOUS
<1>8. PICK s \in {"waiting", "idle", "failed", "interrupted", "queued"} : s = "queued"
  OBVIOUS
<1>9. Tends(f, NoOne) /\ MailStays(e, f) /\ Tidy(f, a) /\ (Neat(t, a) => Neat(f, a))
  <2>1. Good(f, NoOne) /\ Idles(f, a) /\ f.state[a] = s
    BY <1>6, <1>7, <1>8, PutGood DEF Tends
  <2>2. Tends(f, NoOne) /\ MailStays(e, f) /\ Apart(e, f, a) /\ Tidy(f, a)
    BY <1>6, <1>7, <1>8, <2>1, PutTends
  <2>3. Neat(e, a) => Neat(f, a)
    BY <2>2, NeatMore
  <2> QED
    BY <1>6, <2>2, <2>3
<1>10. f = [r EXCEPT !.state[a] = "queued", !.prompting = @ \ {a}, !.held[a] = FALSE,
                     !.continuing = @ \cup {a}]
  BY <1>2, <1>4, <1>7 DEF Left, Put, Teams
<1>11. PICK first \in BOOLEAN : first = FALSE
  OBVIOUS
<1>12. PICK q : q = Enqueue(f, a, first)
  OBVIOUS
<1>13. Tends(q, NoOne) /\ Steady(f, q)
  BY <1>9, <1>12, EnqueueSteady
<1>14. PICK u : u = Pump(q)
  OBVIOUS
<1>15. Tends(u, NoOne) /\ Steady(q, u) /\ Tight(u)
  BY <1>13, <1>14, PumpSteady
<1>16. FallBack(t, a) = u
  BY <1>1, <1>10, <1>11, <1>12, <1>14 DEF FallBack
<1>17. MailStays(t, f)
  BY <1>3, <1>6, <1>9, BeginsMore
<1>18. Begins(t, q)
  BY <1>13, <1>17, BeginsMore DEF Steady
<1>19. Neat(t, a) => Locals(u)
  BY <1>9, <1>13, <1>15, NeatMore DEF Steady
<1> QED
  BY <1>15, <1>16, <1>18, <1>19, BeginsMore DEF Steady

\* An agent that no longer blocks its parent keeps its mail, as all do.
LEMMA UnblockSteady ==
  ASSUME NEW t, NEW x, Tends(t, x), NEW a \in Agents, NEW u, u = Unblock(t, a)
  PROVE  Tends(u, x) /\ Steady(t, u) /\ Alike(t, u) /\ (Tight(t) => Tight(u))
<1>0. Good(t, x) /\ t \in Teams /\ Posted(t)
  BY DEF Tends, Good
<1>1. Good(u, x) /\ u.state = t.state /\ u.parent = t.parent /\ u.stop = t.stop
  BY <1>0, UnblockGood
<1>2. Alike(t, u)
  BY <1>0 DEF Teams, Unblock, Alike, AlikeOf, Ending
<1>3. Posted(u) /\ Kept(t, u)
  BY <1>0, <1>2, AlikeKept
<1>4. Firm(t, u) /\ Lasts(t, u)
  BY <1>1 DEF Firm, Lasts, Known, Ended, Ending
<1>5. Tight(t) => Tight(u)
  <2>1. Shares(t, u)
    BY <1>0 DEF Teams, Unblock, Shares, Ending
  <2> QED
    BY <1>0, <2>1, SharesTight
<1> QED
  BY <1>1, <1>2, <1>3, <1>4, <1>5, FirmTends DEF Steady

\* The report of a launch that failed keeps mail.
LEMMA HandUpFailureKept ==
  ASSUME NEW t, NEW x, Tends(t, x), NEW a \in Agents, Known(t, a), NEW u, u = HandUpFailure(t, a)
  PROVE  Tends(u, x) /\ Kept(t, u)
<1>1. PICK p : p = Paid(t, a)
  OBVIOUS
<1>2. Tends(p, x) /\ Steady(t, p)
  BY <1>1, PaySteady
<1>3. t.parent[a] \in Actors /\ Main \notin Agents
  BY NumbersOf DEF Tends, Good, Sound, Parents
<1>4. PICK r : r = IF t.parent[a] = Main THEN p ELSE Deliver(p, a, t.parent[a], TRUE)
  OBVIOUS
<1>5. Tends(r, x) /\ Kept(t, r) /\ r.parent = t.parent
  <2>1. CASE t.parent[a] = Main
    BY <1>2, <1>4, <2>1 DEF Steady, Firm
  <2>2. CASE t.parent[a] # Main
    <3>1. t.parent[a] \in Agents /\ a \in Actors
      BY <1>3, <2>2 DEF Actors
    <3>2. Tends(r, x) /\ Kept(p, r) /\ Firm(p, r)
      BY <1>2, <1>4, <2>2, <3>1, DeliverSteady
    <3> QED
      BY <1>2, <3>2, KeptMore DEF Steady, Firm
  <2> QED
    BY <2>1, <2>2
<1>6. PICK S : S = Askers(t, a) \ {t.parent[a]}
  OBVIOUS
<1>7. S \in SUBSET Agents /\ \A b \in S : r.parent[b] # a
  <2>1. S \in SUBSET Agents /\ \A b \in S : a \in t.owed[b]
    BY <1>6 DEF Askers
  <2>2. \A b \in S : t.parent[b] # a
    BY <2>1 DEF Tends, Debts
  <2> QED
    BY <1>5, <2>1, <2>2
<1>8. PICK q : q = TellUnanswered(r, a, S)
  OBVIOUS
<1>9. Tends(q, x) /\ Steady(r, q)
  BY <1>5, <1>7, <1>8, TellUnansweredSteady
<1>10. u = EndOtherQuestions(q, a)
  BY <1>1, <1>4, <1>6, <1>8 DEF HandUpFailure
<1>11. Tends(u, x) /\ Steady(q, u)
  BY <1>9, <1>10, EndOtherQuestionsSteady
<1> QED
  BY <1>5, <1>9, <1>11, KeptMore DEF Steady

\* So does the launch itself: the mail of its prompt is parked.
LEMMA ResumeFailedTends ==
  ASSUME NEW t, Tends(t, NoOne), NEW a \in Agents, Idles(t, a), t.going[a] = "no",
         a \notin t.prompting, NEW v, v = ResumeFailed(t, a)
  PROVE  Tends(v, NoOne) /\ Begins(t, v) /\ Tight(v) /\ (Neat(t, a) => Locals(v))
<1>0. t \in Teams
  BY DEF Tends, Good
<1>1. PICK e : e = RunEnded(t, a)
  OBVIOUS
<1>2. Tends(e, NoOne) /\ e \in Teams /\ Same(t, e) /\ Alike(t, e)
  <2>1. Tends(e, NoOne) /\ e \in Teams /\ Same(t, e)
    BY <1>0, <1>1, RunEndedSteady, RunEndedSame
  <2>2. Alike(t, e)
    BY <1>0, <1>1 DEF Teams, RunEnded, Alike, AlikeOf, Ending
  <2> QED
    BY <2>1, <2>2
<1>3. Idles(e, a) /\ e.going[a] = "no" /\ a \notin e.prompting
  BY <1>2, IdlesOn DEF Alike, AlikeOf, Ending
<1>4. PICK p : p = ParkResume(e, a)
  OBVIOUS
<1>5. p \in Teams /\ Same(e, p) /\ SetAside(e, p, a) /\ p.resume[a] = {}
  BY <1>2, <1>4, ParkedSame, AsideIs
<1>6. /\ Tends(p, NoOne) /\ MailStays(e, p) /\ Idles(p, a) /\ p.going[a] = "no"
      /\ a \notin p.prompting /\ (Neat(t, a) => Neat(p, a))
  <2>1. a \notin p.prompting /\ (Neat(t, a) => Neat(p, a))
    BY <1>2, <1>3, <1>5, NeatMore DEF SetAside
  <2> QED
    BY <1>2, <1>3, <1>5, <2>1, SetAsideTends
<1>7. PICK w : w = Put(p, a, "interrupted")
  OBVIOUS
<1>8. PICK s \in {"waiting", "idle", "failed", "interrupted", "queued"} : s = "interrupted"
  OBVIOUS
<1>9. /\ Tends(w, NoOne) /\ MailStays(p, w) /\ Idles(w, a) /\ Tidy(w, a)
      /\ Neat(p, a) => Neat(w, a)
  <2>1. Good(w, NoOne) /\ Idles(w, a) /\ w.state[a] = s
    BY <1>6, <1>7, <1>8, PutGood DEF Tends
  <2>2. Tends(w, NoOne) /\ MailStays(p, w) /\ Apart(p, w, a) /\ Tidy(w, a)
    BY <1>5, <1>6, <1>7, <1>8, <2>1, PutTends
  <2>3. Neat(p, a) => Neat(w, a)
    BY <2>2, NeatMore
  <2> QED
    BY <2>1, <2>2, <2>3
<1>10. PICK u : u = Unblock(w, a)
  OBVIOUS
<1>11. Tends(u, NoOne) /\ Steady(w, u) /\ Alike(w, u) /\ Known(u, a)
  <2>1. Tends(u, NoOne) /\ Steady(w, u) /\ Alike(w, u)
    BY <1>9, <1>10, UnblockSteady
  <2> QED
    BY <1>9, <2>1 DEF Idles, Known, Steady, Firm
<1>12. PICK h : h = HandUpFailure(u, a)
  OBVIOUS
<1>13. Tends(h, NoOne) /\ Kept(u, h)
  BY <1>11, <1>12, HandUpFailureKept
<1>14. u = [p EXCEPT !.state[a] = "interrupted", !.blocking[a] = FALSE]
  BY <1>7, <1>10 DEF Put, Unblock
<1>15. v = Pump(h)
  BY <1>1, <1>4, <1>12, <1>14 DEF ResumeFailed
<1>16. Tends(v, NoOne) /\ Steady(h, v) /\ Tight(v)
  BY <1>13, <1>15, PumpSteady
<1>17. MailStays(t, u)
  BY <1>2, <1>6, <1>9, <1>11, BeginsMore
<1>18. Begins(t, h)
  BY <1>13, <1>17, BeginsMore
<1>19. Neat(t, a) => Locals(v)
  BY <1>6, <1>9, <1>11, <1>13, <1>16, NeatMore DEF Steady
<1> QED
  BY <1>16, <1>18, <1>19, BeginsMore DEF Steady

\* The mail of a launch is in its prompt.
LEMMA LaunchTends ==
  ASSUME NEW t, Tends(t, NoOne), NEW a \in t.opening, NEW u, u = Run(Launched(t, a), a)
  PROVE  /\ Tends(u, NoOne) /\ Begins(t, u) /\ (Neat(t, a) => Locals(u))
         /\ Tight(t) => Tight(u)
<1>0. Good(t, NoOne) /\ t \in Teams /\ Posted(t) /\ a \in Agents
  BY DEF Tends, Good, Teams
<1>1. Good(u, NoOne)
  BY <1>0, LaunchGood
<1>2. t.state[a] = "starting" /\ t.question[a] = NoOne /\ t.wait[a] = NoOne /\ t.going[a] = "no"
  <2>1. t.state[a] = "starting"
    BY <1>0 DEF Good, Sound, Opens
  <2> QED
    BY <1>0, <2>1 DEF Good, Sound, Waits, Asks, Posted, PostedOf
<1>3. PICK v : v = Launched(t, a)
  OBVIOUS
<1>4. /\ v.state = t.state /\ v.going = t.going /\ v.inbox = [t.inbox EXCEPT ![a] = {}]
      /\ v.unread = t.unread /\ v.resume = [t.resume EXCEPT ![a] = {}]
      /\ v.held = [t.held EXCEPT ![a] = TRUE] /\ v.question = t.question /\ v.wait = t.wait
      /\ v.owed = t.owed /\ v.prompting = t.prompting /\ v.parent = t.parent /\ v.stop = t.stop
      /\ v.blocking = t.blocking /\ v.overlap = t.overlap /\ v.opening = t.opening \ {a}
      /\ v \in Teams
  BY <1>0, <1>3 DEF Teams, Launched
<1>5. v.held[a]
  BY <1>0, <1>4 DEF Teams
<1>6. /\ u.state = [v.state EXCEPT ![a] = "running"] /\ u.going = v.going
      /\ u.inbox = v.inbox /\ u.unread = v.unread /\ u.resume = v.resume
      /\ u.held = v.held /\ u.question = v.question /\ u.wait = v.wait
      /\ u.owed = v.owed /\ u.prompting = v.prompting \cup {a}
      /\ u.blocking = v.blocking /\ u.opening = v.opening /\ u.overlap = v.overlap
      /\ u.stop = v.stop
  <2>1. v \in Teams /\ a \in Agents /\ v.held[a] /\ u = Run(v, a)
    BY <1>0, <1>3, <1>4, <1>5
  <2> QED
    BY <2>1, RunIs
<1>7. u.parent = t.parent /\ u.stop = t.stop
  <2>1. u = [v EXCEPT !.state[a] = "running", !.ran[a] = TRUE, !.prompting = @ \cup {a},
                      !.continuing = @ \ {a}]
    BY <1>3, <1>5 DEF Run
  <2> QED
    BY <1>4, <2>1 DEF Teams
<1>8. Apart(t, u, a) /\ u.state[a] = "running" /\ u.resume[a] = {} /\ u.going[a] = "no"
  BY <1>0, <1>2, <1>4, <1>6 DEF Teams, Apart, AlikeOf, Ending
<1>9. Posted(u)
  BY <1>0, <1>8 DEF Posted, PostedOf, Apart, AlikeOf, Ending
<1>10. Works(u, a)
  BY <1>2, <1>4, <1>6, <1>8 DEF Works, Prompted
<1>11. Begins(t, u)
  BY <1>8, <1>10 DEF Begins, Apart, AlikeOf, Ending, Mail
<1>12. Firm(t, u)
  BY <1>0, <1>4, <1>6, <1>7 DEF Firm, Known, Ending, Teams
<1>13. \A b \in Agents : u.owed[b] \subseteq t.owed[b]
  BY <1>4, <1>6
<1>14. Tidy(u, a)
  BY <1>2, <1>4, <1>6, <1>8 DEF Tidy
<1>15. Neat(t, a) => Locals(u)
  BY <1>0, <1>8, <1>14, NeatMore
<1>16. Tight(t) => Tight(u)
  <2>1. /\ v.ran = t.ran /\ v.after = t.after /\ v.resting = t.resting /\ v.line = t.line
    BY <1>0, <1>3 DEF Teams, Launched
  <2>2. u = [v EXCEPT !.state[a] = "running", !.ran[a] = TRUE, !.prompting = @ \cup {a},
                      !.continuing = @ \ {a}]
    BY <1>3, <1>5 DEF Run
  <2>3. /\ u.ran = [t.ran EXCEPT ![a] = TRUE] /\ u.after = t.after /\ u.resting = t.resting
        /\ u.line = t.line /\ u.blocking = t.blocking /\ u.state = [t.state EXCEPT ![a] = "running"]
    <3>1. v \in Teams
      BY <1>4
    <3>2. u.ran = [v.ran EXCEPT ![a] = TRUE]
      BY <2>2, <3>1 DEF Teams
    <3>3. u.after = v.after /\ u.resting = v.resting /\ u.line = v.line
      BY <2>2, <3>1 DEF Teams
    <3>4. u.blocking = t.blocking
      BY <1>4, <1>6
    <3>5. u.state = [t.state EXCEPT ![a] = "running"]
      BY <1>4, <1>6
    <3> QED
      BY <2>1, <3>2, <3>3, <3>4, <3>5
  <2>4. /\ u.state[a] = "running"
        /\ \A b \in Agents : b # a => u.state[b] = t.state[b] /\ u.ran[b] = t.ran[b]
    BY <1>0, <2>3 DEF Teams
  <2>5. \A b \in Agents : Live(u, b) <=> Live(t, b)
    BY <1>2, <2>4 DEF Live, LiveStates
  <2>6. Blocked(u) = Blocked(t)
    BY <1>7, <2>3, <2>5 DEF Blocked
  <2>7. Working(t) \subseteq Working(u)
    BY <2>3, <2>4, <2>6 DEF Working, ActiveStates
  <2>8. ASSUME NEW b \in Agents, Held(t, b) PROVE Held(u, b)
    <3>1. b # a /\ t.after[b] \in SUBSET Agents
      BY <1>0, <1>2, <2>8 DEF Held, Teams
    <3> QED
      BY <2>3, <2>4, <2>5, <2>8, <3>1 DEF Held, WaitingFor
  <2>9. Busy(t, u)
    BY <1>7, <2>3, <2>7, <2>8 DEF Busy, Ending
  <2> QED
    BY <1>0, <2>9, BusyTight
<1> QED
  BY <1>1, <1>15, <1>16, <1>9, <1>11, <1>12, <1>13, FirmOwes

\* A question to a peer.
LEMMA AskPeerTends ==
  ASSUME NEW t, NEW x, Tends(t, x), NEW from \in Agents, NEW to \in Agents, Known(t, from),
         to # t.parent[from], NEW u, u = AskPeer(t, from, to)
  PROVE  Tends(u, x) /\ Begins(t, u) /\ (Locals(t) => Locals(u)) /\ (Snug(t) => Tight(u))
<1>1. CASE u = t
  BY <1>1, KeptMore, BeginsMore DEF Snug
<1>2. PICK s : s = Deliver(t, from, to, TRUE)
  OBVIOUS
<1>3. from \in Actors
  BY DEF Actors
<1>4. Tends(s, x) /\ Kept(t, s) /\ Firm(t, s) /\ (Snug(t) => Tight(s))
  BY <1>2, <1>3, DeliverSteady DEF Snug, Locals, Tidy
<1>5. CASE u = [s EXCEPT !.owed[from] = @ \cup {to}]
  <2>0. Good(s, x) /\ s \in Teams /\ Posted(s)
    BY <1>4 DEF Tends, Good
  <2>1. /\ u.state = s.state /\ u.going = s.going /\ u.inbox = s.inbox /\ u.unread = s.unread
        /\ u.resume = s.resume /\ u.held = s.held /\ u.question = s.question /\ u.wait = s.wait
        /\ u.prompting = s.prompting /\ u.parent = s.parent
        /\ u.blocking = s.blocking /\ u.opening = s.opening /\ u.overlap = s.overlap
        /\ u.stop = s.stop
        /\ u.owed = [s.owed EXCEPT ![from] = @ \cup {to}]
    BY <1>5, <2>0 DEF Teams
  <2>2. Good(u, x)
    <3>1. PICK o : o = [s.owed EXCEPT ![from] = @ \cup {to}]
      OBVIOUS
    <3>2. o \in [Agents -> SUBSET Agents]
      BY <2>0, <3>1 DEF Teams
    <3>3. u = [s EXCEPT !.owed = o]
      BY <1>5, <3>1
    <3>4. u \in Teams /\ Same(s, u)
      BY <2>0, <3>2, <3>3, OwedSame
    <3> QED
      BY <2>0, <3>4, GoodSame
  <2>3. Posted(u)
    BY <2>0, <2>1 DEF Posted, PostedOf
  <2>4. Debts(u)
    <3>1. Known(s, from) /\ s.parent = t.parent
      BY <1>4 DEF Firm
    <3>2. Debts(s)
      BY <1>4 DEF Tends
    <3> QED
      BY <2>0, <2>1, <3>1, <3>2 DEF Teams, Debts, Known
  <2>5. Todo(u)
    BY <1>4, <2>1 DEF Tends, Todo, Ending, Children, Known
  <2>6. Begins(t, s)
    BY <1>4, BeginsMore
  <2>7. Begins(t, u)
    BY <2>1, <2>6 DEF Begins, Mail, Works, Prompted
  <2>8. Locals(s) => Locals(u)
    BY <2>1 DEF Locals, Tidy, Ending
  <2>9. Tight(s) => Tight(u)
    <3>1. Shares(s, u)
      BY <1>5, <2>0, <2>1 DEF Teams, Shares, Ending
    <3> QED
      BY <2>0, <3>1, SharesTight
  <2> QED
    BY <1>4, <2>2, <2>3, <2>4, <2>5, <2>7, <2>8, <2>9, NeatMore DEF Tends
<1> QED
  BY <1>1, <1>2, <1>5 DEF AskPeer

\* A question of main.
LEMMA MainAsksTends ==
  ASSUME NEW t, NEW x, Tends(t, x), NEW to \in Agents, NEW u, u = MainAsks(t, to)
  PROVE  Tends(u, x) /\ Kept(t, u) /\ (Snug(t) => Tight(u))
<1>1. PICK s : s = Deliver(t, Main, to, TRUE)
  OBVIOUS
<1>2. Main \in Actors
  BY DEF Actors
<1>3. Tends(s, x) /\ Kept(t, s) /\ (Snug(t) => Tight(s))
  BY <1>1, <1>2, DeliverSteady DEF Snug, Locals, Tidy
<1>4. PICK m : m = s.owesMain \cup {to}
  OBVIOUS
<1>5. m \in SUBSET Agents
  BY <1>3, <1>4 DEF Tends, Good, Teams
<1>6. u = [s EXCEPT !.owesMain = m]
  BY <1>1, <1>4 DEF MainAsks
<1>7. Tends(u, x) /\ Steady(s, u) /\ (Tight(s) => Tight(u))
  BY <1>3, <1>5, <1>6, RunEndedSteady
<1> QED
  BY <1>3, <1>7, KeptMore DEF Steady

\* Mail to main, and to an agent.
LEMMA ToTends ==
  ASSUME NEW t, NEW x, Tends(t, x)
  PROVE  /\ \A from \in Agents : /\ Tends(ToMain(t, from), x) /\ Kept(t, ToMain(t, from))
                                 /\ Tight(t) => Tight(ToMain(t, from))
         /\ \A from \in Actors, to \in Agents : \A ask :
                /\ Tends(ToChild(t, from, to, ask), x) /\ Kept(t, ToChild(t, from, to, ask))
                /\ Snug(t) => Tight(ToChild(t, from, to, ask))
<1>1. ASSUME NEW from \in Agents
      PROVE  /\ Tends(ToMain(t, from), x) /\ Kept(t, ToMain(t, from))
             /\ Tight(t) => Tight(ToMain(t, from))
  <2>1. PICK m : m = t.owesMain \ {from}
    OBVIOUS
  <2>2. m \in SUBSET Agents
    BY <2>1 DEF Tends, Good, Teams
  <2>3. ToMain(t, from) = [t EXCEPT !.owesMain = m]
    BY <2>1 DEF ToMain
  <2> QED
    BY <2>2, <2>3, RunEndedSteady DEF Steady
<1>2. ASSUME NEW from \in Actors, NEW to \in Agents, NEW ask, NEW u, u = ToChild(t, from, to, ask)
      PROVE  Tends(u, x) /\ Kept(t, u) /\ (Snug(t) => Tight(u))
  <2>1. PICK w : w = (from \in Agents /\ to \in Agents /\ from \in t.owed[to])
    OBVIOUS
  <2>2. PICK s : s = IF w THEN PayOwed(t, to, from) ELSE t
    OBVIOUS
  <2>3. Tends(s, x) /\ Kept(t, s) /\ (Tight(t) => Tight(s))
    BY <2>2, PaySteady, KeptMore DEF Steady
  <2>4. u = Deliver(s, from, to, ask \/ w)
    BY <1>2, <2>1, <2>2 DEF ToChild
  <2>5. Tends(u, x) /\ Kept(s, u) /\ (Snug(s) => Tight(u))
    BY <2>3, <2>4, DeliverSteady DEF Snug, Locals, Tidy
  <2>6. Snug(t) => Snug(s)
    BY <2>3, NeatMore DEF Snug
  <2> QED
    BY <2>3, <2>5, <2>6, KeptMore
<1> QED
  BY <1>1, <1>2

\* Who asks and waits keeps its mail.
LEMMA AskTends ==
  ASSUME NEW t, NEW x, Tends(t, x), NEW a \in Agents, FreeToAsk(t, a), NEW s, Tends(s, x),
         Kept(t, s), FreeToAsk(s, a), NEW to \in Actors, NEW u, u = Ask(s, a, to)
  PROVE  Tends(u, x) /\ Begins(t, u) /\ Tight(u) /\ (Locals(t) => Locals(u))
<1>0. Good(t, x) /\ Posted(t) /\ Good(s, x) /\ s \in Teams /\ Posted(s)
  BY DEF Tends, Good
<1>1. PICK v : v = Asked(s, a, to)
  OBVIOUS
<1>2. Good(v, x) /\ v.state[a] = "asking"
  BY <1>0, <1>1, AskedGood DEF FreeToAsk
<1>3. /\ v.state = [s.state EXCEPT ![a] = "asking"] /\ v.going = s.going /\ v.inbox = s.inbox
      /\ v.unread = s.unread /\ v.resume = s.resume /\ v.held = s.held
      /\ v.question = [s.question EXCEPT ![a] = to] /\ v.wait = s.wait
      /\ v.owed = s.owed /\ v.prompting = s.prompting /\ v.parent = s.parent
      /\ v.blocking = s.blocking /\ v.opening = s.opening /\ v.overlap = s.overlap
      /\ v.stop = s.stop
  BY <1>0, <1>1 DEF Teams, Asked
<1>4. Apart(s, v, a) /\ Mail(v, a) = Mail(s, a)
  BY <1>0, <1>3 DEF Teams, Apart, AlikeOf, Ending, Mail
<1>5. s.going[a] = "no" /\ s.resume[a] = {}
  BY <1>0 DEF FreeToAsk, Posted, PostedOf
<1>6. Posted(v)
  BY <1>0, <1>3, <1>4, <1>5 DEF Posted, PostedOf, Apart, AlikeOf, Ending
<1>7. Firm(s, v)
  BY <1>0, <1>3 DEF Firm, Known, Ending, Teams
<1>8. Tends(v, x)
  BY <1>2, <1>3, <1>6, <1>7, FirmOwes
<1>9. ~MayGetPrompt(t, a)
  BY <1>0 DEF FreeToAsk, Posted, PostedOf, MayGetPrompt
<1>10. Begins(t, v)
  <2>1. Mail(t, a) \subseteq Mail(s, a)
    BY <1>9 DEF Kept, KeptOf
  <2>2. ASSUME NEW b \in Agents, b # a PROVE Mail(t, b) \subseteq Mail(v, b) \/ Works(v, b)
    BY <1>4, <2>2 DEF Kept, KeptOf, Apart, AlikeOf, Ending, Mail, Works, Prompted
  <2> QED
    BY <1>4, <2>1, <2>2 DEF Begins
<1>11. u = Pump(v)
  BY <1>1 DEF Ask, Asked
<1>12. Tends(u, x) /\ Steady(v, u) /\ Tight(u)
  BY <1>8, <1>11, PumpSteady
<1>13. ASSUME Locals(t) PROVE Locals(u)
  <2>1. Locals(s)
    BY <1>13, NeatMore
  <2>2. a \in s.prompting
    BY <2>1 DEF Locals, Tidy, FreeToAsk
  <2>3. Ending(v, a) => a \in v.overlap
    <3>1. Ending(s, a) => a \in s.overlap
      <4>1. Tidy(s, a)
        BY <2>1 DEF Locals
      <4>2. s.state[a] \in {"running", "asking"}
        BY DEF FreeToAsk
      <4>3. Ending(s, a) => a \in s.overlap \/ s.state[a] \in {"stopped", "queued", "asking"}
        BY <1>0 DEF Good, Sound, Overlaps
      <4> QED
        BY <4>1, <4>2, <4>3 DEF Tidy
    <3>2. Ending(v, a) <=> Ending(s, a)
      BY <1>3 DEF Ending
    <3> QED
      BY <1>3, <3>1, <3>2
  <2>4. Tidy(v, a)
    <3>1. v.question[a] # NoOne
      BY <1>0, <1>3, NumbersOf DEF Teams
    <3>2. v.going[a] = "no" /\ a \in v.prompting
      BY <1>3, <1>5, <2>2
    <3> QED
      BY <1>2, <2>3, <3>1, <3>2 DEF Tidy
  <2>5. Locals(v)
    BY <1>4, <2>1, <2>4, NeatMore
  <2> QED
    BY <1>12, <2>5, NeatMore DEF Steady
<1> QED
  BY <1>10, <1>12, <1>13, BeginsMore DEF Steady

\* Whatever is sent up, down or across the tree, mail is kept.
LEMMA SendOnlyTends ==
  ASSUME NEW t, NEW x, Tends(t, x), NEW from \in Actors, NEW to \in Actors, from # to,
         from = Main => to \in Agents, from \in Agents => FreeToAsk(t, from),
         NEW ask, NEW u, u = SendOnly(t, from, to, ask)
  PROVE  Tends(u, x) /\ Begins(t, u) /\ (Locals(t) => Locals(u)) /\ (Snug(t) => Tight(u))
<1>0. Good(t, x)
  BY DEF Tends
<1>1. (from \in Agents \/ from = Main) /\ (to \in Agents \/ to = Main) /\ Main \notin Agents
  BY NumbersOf DEF Actors
<1>2. CASE ask /\ from \in Agents /\ ~UpTheTree(t, from, to)
  <2>1. to \in Agents /\ from \in Agents /\ to # t.parent[from] /\ Known(t, from)
    BY <1>1, <1>2 DEF UpTheTree, FreeToAsk, Known
  <2>2. u = AskPeer(t, from, to)
    BY <1>2 DEF SendOnly
  <2> QED
    BY <2>1, <2>2, AskPeerTends
<1>3. CASE ask /\ from = Main
  <2>1. u = MainAsks(t, to)
    BY <1>1, <1>3 DEF SendOnly
  <2>2. Tends(u, x) /\ Kept(t, u) /\ (Snug(t) => Tight(u))
    BY <1>3, <2>1, MainAsksTends
  <2> QED
    BY <2>2, BeginsMore, NeatMore
<1>4. CASE ~(ask /\ from \in Agents /\ ~UpTheTree(t, from, to)) /\ ~(ask /\ from = Main)
  <2>1. PICK s : s = IF to = Main THEN ToMain(t, from) ELSE ToChild(t, from, to, ask)
    OBVIOUS
  <2>2. /\ Tends(s, x) /\ Kept(t, s) /\ (Snug(t) => Tight(s))
        /\ from \in Agents => FreeToAsk(s, from)
    <3>1. CASE to = Main
      <4>1. from \in Agents /\ s = ToMain(t, from)
        BY <1>1, <2>1, <3>1
      <4>2. Good(s, x) /\ Same(t, s)
        BY <1>0, <4>1, ToMainGood
      <4>3. Tends(s, x) /\ Kept(t, s) /\ (Snug(t) => Tight(s))
        BY <4>1, ToTends DEF Snug
      <4> QED
        BY <4>1, <4>2, <4>3, StillAsks
    <3>2. CASE to # Main
      <4>1. to \in Agents /\ s = ToChild(t, from, to, ask)
        BY <1>1, <2>1, <3>2
      <4>2. Good(s, x) /\ Serves(t, s, to)
        BY <1>0, <4>1, ToChildGood
      <4>3. Tends(s, x) /\ Kept(t, s) /\ (Snug(t) => Tight(s))
        BY <4>1, ToTends DEF Snug
      <4> QED
        BY <4>2, <4>3, StillAsks
    <3> QED
      BY <3>1, <3>2
  <2>3. CASE u = s
    BY <2>2, <2>3, BeginsMore, NeatMore
  <2>4. CASE ask /\ u = Ask(s, from, to)
    <3>1. from \in Agents
      BY <1>1, <1>4, <2>4
    <3>2. FreeToAsk(s, from) /\ FreeToAsk(t, from)
      BY <2>2, <3>1
    <3> QED
      BY <2>2, <2>4, <3>1, <3>2, AskTends
  <2>5. u = s \/ (ask /\ u = Ask(s, from, to))
    BY <1>4, <2>1 DEF SendOnly
  <2> QED
    BY <2>3, <2>4, <2>5
<1> QED
  BY <1>2, <1>3, <1>4

\* send keeps mail.
LEMMA SendTends ==
  ASSUME NEW t, NEW x, Tends(t, x), NEW from \in Actors, NEW to \in Actors, from # to,
         from = Main => to \in Agents, from \in Agents => FreeToAsk(t, from),
         NEW ask, NEW u, u = Send(t, from, to, ask)
  PROVE  Tends(u, x) /\ Begins(t, u) /\ (Locals(t) => Locals(u)) /\ (Snug(t) => Tight(u))
<1>1. CASE to \in Agents /\ t.question[to] = from
  <2>1. from # NoOne
    BY NumbersOf
  <2>2. u = EndQuestion(t, to)
    BY <1>1 DEF Send
  <2>3. Tends(u, x) /\ Steady(t, u) /\ Tight(u)
    BY <1>1, <2>1, <2>2, EndQuestionSteady
  <2> QED
    BY <2>3, BeginsMore, NeatMore DEF Steady
<1>2. CASE u = t
  BY <1>2, KeptMore, BeginsMore DEF Snug
<1>3. CASE u = SendOnly(t, from, to, ask)
  BY <1>3, SendOnlyTends
<1>4. CASE from \in Agents /\ u = SendOnly(Unblock(t, from), from, to, ask)
  <2>1. PICK v : v = Unblock(t, from)
    OBVIOUS
  <2>2. Tends(v, x) /\ Alike(t, v) /\ (Tight(t) => Tight(v))
    BY <1>4, <2>1, UnblockSteady
  <2>3. v.state = t.state /\ v.wait = t.wait /\ v.resting = t.resting /\ v.question = t.question
    BY <1>4, <2>1, UnblockGood DEF Tends
  <2>4. FreeToAsk(v, from)
    BY <1>4, <2>3 DEF FreeToAsk
  <2>5. Tends(u, x) /\ Begins(v, u) /\ (Locals(v) => Locals(u)) /\ (Snug(v) => Tight(u))
    BY <1>4, <2>1, <2>2, <2>4, SendOnlyTends
  <2> QED
    BY <2>2, <2>5, BeginsMore, NeatMore DEF Snug
<1> QED
  BY <1>1, <1>2, <1>3, <1>4 DEF Send, BlockedOn

\* A new agent has no mail, and its parent keeps its own.
LEMMA SpawnTends ==
  ASSUME NEW t, Tends(t, NoOne), NEW a \in Agents, ~Known(t, a), NEW by \in Actors,
         NEW after \in SUBSET Agents, NEW blocking \in BOOLEAN,
         blocking => by \in Agents /\ FreeToAsk(t, by),
         NEW put, put = Joins(t, a, by, after, blocking),
         NEW u, u = IF blocking THEN WaitFor(put, by, a) ELSE put
  PROVE  Tends(u, NoOne) /\ MailStays(t, u) /\ (Locals(t) => Locals(u))
<1>0. Good(t, NoOne) /\ t \in Teams /\ Posted(t)
  BY DEF Tends, Good
<1>1. Good(u, NoOne)
  BY <1>0, SpawnGood
<1>2. /\ put.state = [t.state EXCEPT ![a] = "queued"] /\ put.parent = [t.parent EXCEPT ![a] = by]
      /\ put.going = t.going /\ put.inbox = t.inbox /\ put.unread = t.unread
      /\ put.resume = t.resume /\ put.held = t.held /\ put.owed = t.owed /\ put.stop = t.stop
      /\ put.prompting = t.prompting /\ put.opening = t.opening /\ put.overlap = t.overlap
      /\ put.question = t.question /\ put.blocking = [t.blocking EXCEPT ![a] = blocking]
  BY <1>0 DEF Joins, Teams
<1>3. /\ u.state = put.state /\ u.parent = put.parent /\ u.going = put.going
      /\ u.inbox = put.inbox /\ u.unread = put.unread /\ u.resume = put.resume
      /\ u.held = put.held /\ u.owed = put.owed /\ u.stop = put.stop
      /\ u.prompting = put.prompting /\ u.opening = put.opening /\ u.overlap = put.overlap
      /\ u.question = put.question /\ u.blocking = put.blocking
  BY DEF WaitFor
<1>4. u.state[a] = "queued" /\ \A b \in Agents : b # a => u.state[b] = t.state[b]
      /\ u.parent[b] = t.parent[b]
  BY <1>0, <1>2, <1>3 DEF Teams
<1>5. t.going[a] = "no"
  BY <1>0 DEF Posted, PostedOf, Known
<1>6. Posted(u)
  <2> SUFFICES ASSUME NEW b \in Agents PROVE PostedOf(u, b)
    BY DEF Posted
  <2>1. PostedOf(t, b)
    BY <1>0 DEF Posted
  <2> QED
    BY <1>2, <1>3, <1>4, <1>5, <2>1 DEF PostedOf
<1>7. Debts(u)
  <2> SUFFICES ASSUME NEW c \in Agents, NEW b \in Agents, b \in u.owed[c]
               PROVE  Known(u, c) /\ u.parent[c] # b
    BY DEF Debts
  <2>1. Known(t, c) /\ t.parent[c] # b
    BY SMTT(30), <1>2, <1>3 DEF Tends, Debts
  <2> QED
    BY <1>4, <2>1 DEF Known
<1>8. Todo(u)
  <2> SUFFICES ASSUME NEW c \in Agents, Ending(u, c), NEW i \in 1 .. Len(u.stop[c][1].todo)
               PROVE  u.stop[c][1].todo[i] \in Children(u, c)
    BY DEF Todo
  <2>1. t.stop[c][1].todo[i] \in Children(t, c) /\ u.stop = t.stop
    BY <1>2, <1>3 DEF Tends, Todo, Ending
  <2>2. PICK b : b = t.stop[c][1].todo[i]
    OBVIOUS
  <2>3. b \in Agents /\ Known(t, b) /\ t.parent[b] = c
    BY <2>1, <2>2 DEF Children
  <2>4. Known(u, b) /\ u.parent[b] = c
    BY <1>4, <2>3 DEF Known
  <2> QED
    BY <2>1, <2>2, <2>3, <2>4 DEF Children
<1>9. MailStays(t, u)
  BY <1>2, <1>3 DEF MailStays, Mail
<1>10. ASSUME Locals(t) PROVE Locals(u)
  <2>1. Tidy(t, a) /\ t.state[a] = "none"
    BY <1>10 DEF Locals, Known
  <2>2. Tidy(u, a)
    BY <1>2, <1>3, <1>4, <1>5, <2>1 DEF Tidy
  <2>3. ASSUME NEW b \in Agents, b # a PROVE Tidy(u, b)
    <3>1. Tidy(t, b)
      BY <1>10 DEF Locals
    <3>2. u.state[b] = t.state[b] /\ (u.blocking[b] <=> t.blocking[b])
      BY <1>0, <1>2, <1>3, <1>4, <2>3 DEF Teams
    <3> QED
      BY <1>2, <1>3, <3>1, <3>2 DEF Tidy, Ending
  <2> QED
    BY <2>2, <2>3 DEF Locals
<1> QED
  BY <1>1, <1>10, <1>6, <1>7, <1>8, <1>9 DEF Tends

\* What its session reads is in its prompt.
LEMMA ReadTends ==
  ASSUME NEW t, Tends(t, NoOne), NEW a \in Agents, Acting(t, a),
         NEW u, u = ReadAll(t, a) \/ u = ReadMore(t, a)
  PROVE  Tends(u, NoOne) /\ Begins(t, u) /\ (Locals(t) => Locals(u)) /\ (Tight(t) => Tight(u))
<1>0. Good(t, NoOne) /\ t \in Teams /\ Posted(t)
  BY DEF Tends, Good
<1>1. u \in Teams /\ Same(t, u)
  BY <1>0, ReadSame
<1>2. /\ u.state = t.state /\ u.going = t.going /\ u.resume = t.resume /\ u.held = t.held
      /\ u.question = t.question /\ u.wait = t.wait /\ u.owed = t.owed
      /\ u.prompting = t.prompting
      /\ u.blocking = t.blocking /\ u.opening = t.opening /\ u.overlap = t.overlap
      /\ u.stop = t.stop
      /\ \A b \in Agents : b # a => u.inbox[b] = t.inbox[b] /\ u.unread[b] = t.unread[b]
  <2>1. CASE u = ReadAll(t, a)
    BY <1>0, <2>1 DEF Teams, ReadAll
  <2>2. CASE u = ReadMore(t, a)
    BY <1>0, <2>2 DEF Teams, ReadMore
  <2> QED
    BY <2>1, <2>2
<1>3. Posted(u)
  BY <1>0, <1>2 DEF Posted, PostedOf
<1>4. Works(u, a)
  BY <1>2 DEF Acting, Prompted, Works
<1>5. Begins(t, u)
  BY <1>2, <1>4 DEF Begins, Mail
<1>6. Good(u, NoOne) /\ Firm(t, u)
  BY <1>0, <1>1, GoodSame, FirmBy
<1>7. Locals(t) => Locals(u)
  BY <1>2 DEF Locals, Tidy, Ending
<1>8. Tight(t) => Tight(u)
  <2>1. u.ran = t.ran
    BY <1>0 DEF Teams, ReadAll, ReadMore
  <2> QED
    BY <1>0, <1>1, <2>1, SameTight
<1> QED
  BY <1>2, <1>3, <1>5, <1>6, <1>7, <1>8, FirmOwes

\* Its session goes, its mail does not.
LEMMA GoneTends ==
  ASSUME NEW t, Tends(t, NoOne), NEW a \in Agents, t.state[a] = "idle", NEW u, u = SessionGone(t, a)
  PROVE  Tends(u, NoOne) /\ MailStays(t, u) /\ (Locals(t) => Locals(u)) /\ (Tight(t) => Tight(u))
<1>0. Good(t, NoOne) /\ t \in Teams /\ Posted(t)
  BY DEF Tends, Good
<1>1. u \in Teams /\ Same(t, u)
  BY <1>0, ReadSame
<1>2. t.going[a] = "no"
  BY <1>0 DEF Posted, PostedOf
<1>3. /\ u.inbox = t.inbox /\ u.resume = t.resume /\ u.held = [t.held EXCEPT ![a] = FALSE]
      /\ u.state = t.state /\ u.going = t.going /\ u.unread = t.unread
      /\ u.question = t.question /\ u.wait = t.wait /\ u.owed = t.owed
      /\ u.prompting = t.prompting /\ u.silent = t.silent
      /\ u.blocking = t.blocking /\ u.opening = t.opening /\ u.overlap = t.overlap
      /\ u.stop = t.stop
  BY <1>0 DEF SessionGone, Teams
<1>4. SetAside(t, u, a)
  BY <1>0, <1>2, <1>3 DEF Teams, SetAside, Apart, AlikeOf, Ending, Mail
<1>5. Locals(t) => Locals(u)
  BY <1>3 DEF Locals, Tidy, Ending
<1>6. Tight(t) => Tight(u)
  <2>1. u.ran = t.ran
    BY <1>0 DEF Teams, SessionGone
  <2> QED
    BY <1>0, <1>1, <2>1, SameTight
<1> QED
  BY <1>1, <1>4, <1>5, <1>6, SetAsideTends

\* Sleeps are no matter of mail.
LEMMA RestTends ==
  ASSUME NEW t, Tends(t, NoOne), NEW R \in SUBSET Agents, NEW u, u = [t EXCEPT !.resting = R],
         Good(u, NoOne)
  PROVE  Tends(u, NoOne) /\ Alike(t, u)
<1>0. t \in Teams /\ Posted(t)
  BY DEF Tends, Good
<1>1. Alike(t, u) /\ u.state = t.state /\ u.parent = t.parent /\ u.stop = t.stop
  BY <1>0 DEF Teams, Alike, AlikeOf, Ending
<1>2. Posted(u) /\ Kept(t, u)
  BY <1>0, <1>1, AlikeKept
<1>3. Firm(t, u)
  BY <1>1 DEF Firm, Known, Ending
<1> QED
  BY <1>1, <1>2, <1>3, FirmTends

\* Who wakes keeps its mail.
LEMMA RestsOnKept ==
  ASSUME NEW u \in Teams, Posted(u), NEW a \in Agents, u.state[a] = "running",
         NEW v, v = GoOnWhenFree(u, a, "rest")
  PROVE  /\ Posted(v) /\ Apart(u, v, a) /\ Mail(u, a) \subseteq Mail(v, a) /\ v.owed = u.owed
         /\ a \in u.prompting => Tidy(v, a)
<1>1. PICK how \in {"on", "rest"} : how = "rest"
  OBVIOUS
<1>2. v = GoOnWhenFree(u, a, how)
  BY <1>1
<1>3. u.state[a] \in {"running", "asking"}
  OBVIOUS
<1> QED
  BY <1>2, <1>3, GoOnWhenFreeKept

\* It works on with it.
LEMMA WakesTends ==
  ASSUME NEW t, Tends(t, NoOne), NEW a \in Agents, a \in t.resting, NEW R \in SUBSET Agents,
         \A b \in Agents : b \in R <=> (b \in t.resting /\ b # a), NEW u, u = [t EXCEPT !.resting = R],
         NEW v, v = IF t.state[a] # "running" \/ Fits(u) THEN u ELSE GoOnWhenFree(u, a, "rest")
  PROVE  Tends(v, NoOne) /\ Begins(t, v) /\ (Locals(t) => Locals(v)) /\ (Tight(t) => Tight(v))
<1>0. Good(t, NoOne) /\ t \in Teams /\ Posted(t)
  BY DEF Tends, Good
<1>1. /\ Good(v, NoOne) /\ u \in Teams /\ Sound(u, NoOne)
      /\ v # u => /\ u.state[a] = "running" /\ Serves(u, v, a)
                  /\ v = GoOnWhenFree(u, a, "rest")
  BY <1>0, WakesGood
<1>4. Shares(t, u) /\ (Tight(t) => Tight(u))
  <2>1. R \subseteq t.resting
    BY <1>0 DEF Teams
  <2>2. Shares(t, u)
    BY <1>0, <2>1 DEF Teams, Shares, Ending
  <2> QED
    BY <1>0, <2>2, SharesTight
<1>2. CASE v = u
  <2>1. Tends(u, NoOne) /\ Alike(t, u)
    BY <1>1, <1>2, RestTends
  <2> QED
    BY <1>2, <1>4, <2>1, BeginsMore, NeatMore
<1>3. CASE v # u
  <2>1. /\ Alike(t, u) /\ u.state = t.state /\ u.parent = t.parent /\ u.stop = t.stop
        /\ u.owed = t.owed
    BY <1>0 DEF Teams, Alike, AlikeOf, Ending
  <2>2. Posted(u)
    BY <1>0, <2>1, AlikeKept
  <2>4. /\ Posted(v) /\ Apart(u, v, a) /\ Mail(u, a) \subseteq Mail(v, a) /\ v.owed = u.owed
        /\ a \in u.prompting => Tidy(v, a)
    BY <1>1, <1>3, <2>2, RestsOnKept
  <2>5. Begins(t, v)
    BY <2>1, <2>4 DEF Begins, Alike, Apart, AlikeOf, Ending, Mail
  <2>6. Firm(u, v)
    <3>1. Serves(u, v, a) /\ (Known(u, a) => Known(v, a))
      BY <1>1, <1>3 DEF Serves
    <3> QED
      BY <3>1, FirmBy
  <2>7. Firm(t, v)
    BY <2>1, <2>6 DEF Firm, Known, Ending
  <2>8. ASSUME Locals(t) PROVE Locals(v)
    <3>1. Locals(u)
      BY <2>1, <2>8, NeatMore
    <3>2. a \in u.prompting
      BY <1>1, <1>3, <3>1 DEF Locals, Tidy
    <3> QED
      BY <2>4, <3>1, <3>2, NeatMore
  <2>9. Tight(v)
    <3>1. PICK how \in {"on", "rest"} : how = "rest"
      OBVIOUS
    <3>2. ~Fits(u) /\ v = GoOnWhenFree(u, a, how) /\ u.state[a] \in ActiveStates
      BY <1>1, <1>3, <3>1 DEF ActiveStates
    <3> QED
      BY <1>1, <3>2, LateTight
  <2> QED
    BY <1>1, <2>1, <2>4, <2>5, <2>7, <2>8, <2>9, FirmOwes
<1> QED
  BY <1>2, <1>3

\* What every handler does last.
LEMMA BecomesTends ==
  ASSUME NEW t, NEW u, Tends(u, NoOne)
  PROVE  /\ Tends(Returned(u), NoOne) /\ (Locals(u) => Locals(Returned(u)))
         /\ Tight(u) => Tight(Returned(u))
         /\ Begins(t, u) => Begins(t, Returned(u))
         /\ MailStays(t, u) => Begins(t, Returned(u))
<1>1. /\ Tends(Returned(u), NoOne) /\ Steady(u, Returned(u))
      /\ Tight(u) => Tight(Returned(u))
  BY ReturnedSteady
<1> QED
  BY <1>1, BeginsMore, NeatMore DEF Steady

\* Who acts goes on from no line.
LEMMA ActingPosted ==
  ASSUME NEW t, Tends(t, NoOne), NEW a \in Agents
  PROVE  /\ Acting(t, a) => t.going[a] = "no" /\ t.resume[a] = {}
         /\ a \in t.opening => t.going[a] = "no"
<1>1. Posted(t) /\ Opens(t)
  BY DEF Tends, Good, Sound
<1>2. Acting(t, a) => t.state[a] \in {"running", "asking"}
  BY DEF Acting, Prompted
<1>3. a \in t.opening => t.state[a] = "starting"
  BY <1>1 DEF Opens
<1> QED
  BY <1>1, <1>2, <1>3 DEF Posted, PostedOf

\* Spawns and messages keep mail.
LEMMA CallsTend ==
  ASSUME Tends(team, NoOne), NEW from \in Actors, NEW to \in Actors, Spawn(from) \/ Message(from, to)
  PROVE  /\ Tends(team', NoOne) /\ Begins(team, team') /\ (Locals(team) => Locals(team'))
         /\ Snug(team) => Tight(team')
<1>0. Good(team, NoOne)
  BY DEF Tends
<1>1. CASE Message(from, to)
  <2>1. PICK ask \in BOOLEAN : Becomes(Send(team, from, to, ask))
    BY <1>1 DEF Message
  <2>2. from # to /\ (from = Main => to \in Agents) /\ (from = Main \/ Acting(team, from))
    BY <1>1 DEF Message, Calls
  <2>3. from \in Agents => FreeToAsk(team, from)
    BY <1>0, <2>2, ActingIdles, NumbersOf
  <2>4. PICK u : u = Send(team, from, to, ask)
    OBVIOUS
  <2>5. /\ Tends(u, NoOne) /\ Begins(team, u) /\ (Locals(team) => Locals(u))
        /\ Snug(team) => Tight(u)
    BY <2>2, <2>3, <2>4, SendTends
  <2> QED
    BY <2>1, <2>4, <2>5, BecomesTends DEF Becomes
<1>2. CASE Spawn(from)
  <2>1. PICK new : new = {c \in Agents : ~Known(team, c)}
    BY Zenon
  <2>2. PICK a : a = CHOOSE c \in new : \A y \in new : c <= y
    OBVIOUS
  <2>3. new # {}
    BY Zenon, <1>2, <2>1 DEF Spawn
  <2>4. a \in Agents /\ ~Known(team, a)
    <3>1. new \in SUBSET Nat
      BY <2>1, NumbersOf
    <3>2. \E c \in new : \A y \in new : c <= y
      BY <2>3, <3>1, LeastOf
    <3>3. a \in new
      BY <2>2, <3>2
    <3> QED
      BY <2>1, <3>3
  <2>5. PICK after \in SUBSET Agents, blocking \in BOOLEAN :
          /\ blocking => MayBlock /\ from # Main
          /\ LET put == Joins(team, a, from, after, blocking)
                 called == IF blocking THEN WaitFor(put, from, a) ELSE put
             IN  Becomes(Pump(Enqueue(called, a, blocking)))
    BY ZenonT(40), <1>2, <2>1, <2>2 DEF Spawn, Joins, WaitFor
  <2>6. blocking => from \in Agents /\ FreeToAsk(team, from)
    <3> SUFFICES ASSUME blocking PROVE from \in Agents /\ FreeToAsk(team, from)
      OBVIOUS
    <3>1. from # Main /\ from \in Agents
      BY <2>5 DEF Actors
    <3>2. Acting(team, from)
      BY Zenon, <1>2, <3>1 DEF Spawn, Calls
    <3> QED
      BY <1>0, <3>1, <3>2, ActingIdles
  <2>7. PICK put : put = Joins(team, a, from, after, blocking)
    OBVIOUS
  <2>8. PICK called : called = IF blocking THEN WaitFor(put, from, a) ELSE put
    OBVIOUS
  <2>9. /\ Tends(called, NoOne) /\ MailStays(team, called)
        /\ Locals(team) => Locals(called)
    BY <2>4, <2>6, <2>7, <2>8, SpawnTends
  <2>10. PICK q : q = Enqueue(called, a, blocking)
    OBVIOUS
  <2>11. Tends(q, NoOne) /\ Steady(called, q)
    BY <2>4, <2>9, <2>10, EnqueueSteady
  <2>12. PICK u : u = Pump(q)
    OBVIOUS
  <2>13. Tends(u, NoOne) /\ Steady(q, u) /\ Tight(u)
    BY <2>11, <2>12, PumpSteady
  <2>14. Begins(team, u)
    BY <2>9, <2>11, <2>13, BeginsMore DEF Steady
  <2>15. team' = Returned(u)
    BY <2>5, <2>7, <2>8, <2>10, <2>12 DEF Becomes
  <2>16. Locals(team) => Locals(u)
    BY <2>9, <2>11, <2>13, NeatMore DEF Steady
  <2> QED
    BY <2>13, <2>14, <2>15, <2>16, BecomesTends
<1> QED
  BY <1>1, <1>2

\* So do prompts that go on or end, questions and sleeps.
LEMMA PromptsTend ==
  ASSUME Tends(team, NoOne), NEW a \in Agents,
         \/ SessionReads(a) \/ PromptEnds(a) \/ IdleRelease(a) \/ QuestionEnds(a)
         \/ RestBegins(a) \/ RestEnds(a)
  PROVE  /\ Tends(team', NoOne) /\ Begins(team, team') /\ (Locals(team) => Locals(team'))
         /\ Tight(team) => Tight(team')
<1>0. Good(team, NoOne) /\ team \in Teams
  BY DEF Tends, Good
<1>1. CASE SessionReads(a)
  <2>1. team' = ReadAll(team, a) /\ Acting(team, a)
    BY <1>1 DEF SessionReads, ReadAll
  <2> QED
    BY <2>1, ReadTends
<1>2. CASE IdleRelease(a)
  <2>1. team' = SessionGone(team, a) /\ team.state[a] = "idle"
    BY <1>2 DEF IdleRelease, SessionGone
  <2> QED
    BY <2>1, GoneTends, BeginsMore
<1>3. CASE PromptEnds(a)
  <2>1. Acting(team, a) /\ ~Ending(team, a)
    BY <1>3 DEF PromptEnds
  <2>2. CASE team' = ReadMore(team, a)
    BY <2>1, <2>2, ReadTends
  <2>3. CASE Becomes(Settle(team, a))
    <3>1. Idles(team, a) /\ team.going[a] = "no" /\ team.resume[a] = {}
      BY <1>0, <2>1, ActingIdles, ActingPosted
    <3>2. /\ Tends(Settle(team, a), NoOne) /\ Begins(team, Settle(team, a))
          /\ Tight(Settle(team, a)) /\ (Locals(team) => Locals(Settle(team, a)))
      BY <3>1, SettleTends, NeatMore
    <3> QED
      BY <2>3, <3>2, BecomesTends DEF Becomes
  <2> QED
    BY <1>3, <2>2, <2>3 DEF PromptEnds, ReadMore
<1>4. CASE QuestionEnds(a)
  <2>1. PICK u : u = EndQuestion(team, a)
    OBVIOUS
  <2>2. Tends(u, NoOne) /\ Steady(team, u) /\ Tight(u)
    BY <1>4, <2>1, EndQuestionSteady DEF QuestionEnds
  <2> QED
    BY <1>4, <2>1, <2>2, BecomesTends, BeginsMore, NeatMore DEF QuestionEnds, Becomes, Steady
<1>5. CASE RestBegins(a)
  <2>1. PICK R : R = team.resting \cup {a}
    OBVIOUS
  <2>2. PICK u : u = [team EXCEPT !.resting = R]
    OBVIOUS
  <2>3. Good(u, NoOne)
    BY <1>0, <1>5, <2>1, <2>2, LendsGood DEF RestBegins, Acting
  <2>4. R \in SUBSET Agents
    BY <1>0, <2>1 DEF Teams
  <2>5. Tends(u, NoOne) /\ Alike(team, u)
    BY <2>2, <2>3, <2>4, RestTends
  <2>6. PICK p : p = Pump(u)
    OBVIOUS
  <2>7. Tends(p, NoOne) /\ Steady(u, p) /\ Tight(p)
    BY <2>5, <2>6, PumpSteady
  <2>8. Begins(team, p)
    BY <2>5, <2>7, BeginsMore DEF Steady
  <2>9. team' = Returned(p)
    BY <1>5, <2>1, <2>2, <2>6 DEF RestBegins, Becomes
  <2>10. Locals(team) => Locals(p)
    BY <2>5, <2>7, NeatMore DEF Steady
  <2> QED
    BY <2>7, <2>8, <2>9, <2>10, BecomesTends
<1>6. CASE RestEnds(a)
  <2>1. PICK R : R = team.resting \ {a}
    OBVIOUS
  <2>2. PICK u : u = [team EXCEPT !.resting = R]
    OBVIOUS
  <2>3. PICK v : v = IF team.state[a] # "running" \/ Fits(u) THEN u ELSE GoOnWhenFree(u, a, "rest")
    OBVIOUS
  <2>4. a \in team.resting /\ team' = Returned(v)
    BY <1>6, <2>1, <2>2, <2>3 DEF RestEnds, Becomes
  <2>5. R \in SUBSET Agents /\ \A b \in Agents : b \in R <=> (b \in team.resting /\ b # a)
    BY <1>0, <2>1 DEF Teams
  <2>6. /\ Tends(v, NoOne) /\ Begins(team, v) /\ (Locals(team) => Locals(v))
        /\ Tight(team) => Tight(v)
    BY <2>2, <2>3, <2>4, <2>5, WakesTends
  <2> QED
    BY <2>4, <2>6, BecomesTends
<1> QED
  BY <1>1, <1>2, <1>3, <1>4, <1>5, <1>6

------------------------------------------------------------------------------
(* The handlers that stop agents *)

\* a is stopped by its parent's end: its parent is stopping, or has ended.
GoneOf(t, u, a) ==
    /\ u.state[a] = "stopped" /\ t.parent[a] \in Agents
    /\ Ending(t, t.parent[a]) \/ Ended(u, t.parent[a])

\* Nobody's parent changes, who ended stays as it is, and who begins to stop ends.
Ends(t, u) ==
    /\ u.parent = t.parent
    /\ \A b \in Agents : /\ Known(t, b) => Known(u, b)
                         /\ Ended(t, b) => u.state[b] = t.state[b]
                         /\ Ending(u, b) => Ending(t, b) \/ Ended(u, b)

\* The mail of a stays, or goes into its prompt, which may go with its parent.
SparesOf(t, u, a) ==
    /\ MayGetPrompt(u, a) => MayGetPrompt(t, a)
    /\ \/ Mail(t, a) \subseteq Mail(u, a)
       \/ MayGetPrompt(t, a) /\ (Works(u, a) \/ GoneOf(t, u, a))
    /\ Works(t, a) => Works(u, a) \/ GoneOf(t, u, a)
    /\ Tidy(t, a) => Tidy(u, a)
Spares(t, u) == Ends(t, u) /\ \A a \in Agents : SparesOf(t, u, a)

\* The same, but for a, which is struck and keeps its mail.
Strikes(t, u, a) ==
    /\ Ends(t, u) /\ \A b \in Agents : b # a => SparesOf(t, u, b)
    /\ Mail(t, a) \subseteq Mail(u, a) /\ ~MayGetPrompt(u, a) /\ Tidy(u, a)

\* One after another, for one agent
LEMMA SparesOfMore ==
  ASSUME NEW t, NEW u, NEW v, NEW a \in Agents, Ends(t, u), Ends(u, v), SparesOf(t, u, a),
         SparesOf(u, v, a)
  PROVE  SparesOf(t, v, a)
<1>1. GoneOf(u, v, a) => GoneOf(t, v, a)
  BY DEF GoneOf, Ends, Ended
<1>2. GoneOf(t, u, a) => GoneOf(t, v, a)
  BY DEF GoneOf, Ends, Ended, EndedStates
<1> QED
  BY <1>1, <1>2 DEF SparesOf

\* and for all; a handler that stops nobody spares them.
LEMMA SparesMore ==
  ASSUME NEW t, NEW u, NEW v
  PROVE  /\ Spares(t, t) /\ (Spares(t, u) /\ Spares(u, v) => Spares(t, v))
         /\ Steady(t, u) => Spares(t, u)
         /\ \A a \in Agents : Strikes(t, u, a) /\ Spares(u, v) => Strikes(t, v, a)
         /\ Spares(t, u) => (Locals(t) => Locals(u))
         /\ \A a \in Agents : Strikes(t, u, a) => (Neat(t, a) => Locals(u))
<1>1. ASSUME Ends(t, u), Ends(u, v) PROVE Ends(t, v)
  BY <1>1 DEF Ends, Ended
<1>2. ASSUME Spares(t, u), Spares(u, v) PROVE Spares(t, v)
  BY <1>1, <1>2, SparesOfMore DEF Spares
<1>3. ASSUME Steady(t, u) PROVE Spares(t, u)
  <2>1. Ends(t, u)
    BY <1>3 DEF Steady, Firm, Lasts, Ends
  <2>2. \A a \in Agents : SparesOf(t, u, a)
    BY <1>3 DEF Steady, Kept, KeptOf, TidyOf, SparesOf
  <2> QED
    BY <2>1, <2>2 DEF Spares
<1>4. ASSUME NEW a \in Agents, Strikes(t, u, a), Spares(u, v) PROVE Strikes(t, v, a)
  <2>1. Ends(t, u) /\ Ends(u, v) /\ Ends(t, v)
    BY <1>1, <1>4 DEF Strikes, Spares
  <2>2. ASSUME NEW b \in Agents, b # a PROVE SparesOf(t, v, b)
    BY <1>4, <2>1, <2>2, SparesOfMore DEF Strikes, Spares
  <2>3. SparesOf(u, v, a) /\ Mail(t, a) \subseteq Mail(u, a) /\ ~MayGetPrompt(u, a) /\ Tidy(u, a)
    BY <1>4 DEF Strikes, Spares
  <2>4. Mail(t, a) \subseteq Mail(v, a) /\ ~MayGetPrompt(v, a) /\ Tidy(v, a)
    BY <2>3 DEF SparesOf
  <2> QED
    BY <2>1, <2>2, <2>4 DEF Strikes
<1>5. Spares(t, t)
  BY DEF Spares, SparesOf, Ends
<1>6. Spares(t, u) => (Locals(t) => Locals(u))
  BY DEF Spares, SparesOf, Locals
<1>7. ASSUME NEW a \in Agents, Strikes(t, u, a), Neat(t, a) PROVE Locals(u)
  BY <1>7 DEF Strikes, SparesOf, Locals, Neat
<1> QED
  BY <1>2, <1>3, <1>4, <1>5, <1>6, <1>7

\* Who is struck after its parent is spared as the rest.
LEMMA StruckBelow ==
  ASSUME NEW t, NEW u, NEW c \in Agents, Strikes(t, u, c), u.state[c] = "stopped",
         t.parent[c] \in Agents, Ending(t, t.parent[c]) \/ Ended(u, t.parent[c])
  PROVE  Spares(t, u)
<1>1. GoneOf(t, u, c)
  BY DEF GoneOf
<1>2. SparesOf(t, u, c)
  BY <1>1 DEF SparesOf, Strikes
<1> QED
  BY <1>2 DEF Spares, Strikes

\* A handler either begins work or strikes one agent and spares the rest: mail is kept.
LEMMA StrikesKeep ==
  ASSUME NEW a \in Agents, Strikes(team, team', a) \/ Spares(team, team')
  PROVE  \A b \in Agents : \/ Mail(team, b) \subseteq Mail(team', b)
                           \/ Prompted(team', b) \/ GoesAndStops(b)
<1> SUFFICES ASSUME NEW b \in Agents
             PROVE  \/ Mail(team, b) \subseteq Mail(team', b)
                    \/ Prompted(team', b) \/ GoesAndStops(b)
  OBVIOUS
<1>1. SparesOf(team, team', b) \/ Mail(team, b) \subseteq Mail(team', b)
  BY DEF Strikes, Spares
<1>2. GoneOf(team, team', b) /\ MayGetPrompt(team, b) => GoesAndStops(b)
  BY DEF GoneOf, GoesAndStops
<1> QED
  BY <1>1, <1>2 DEF SparesOf, Works

\* stopOrder lists the agents of the set.
LEMMA StopOrderLists ==
  ASSUME NEW t, NEW S \in SUBSET Agents, NEW i \in 1 .. Len(StopOrder(t, S))
  PROVE  StopOrder(t, S)[i] \in S
<1>1. PICK Q : Q = {a \in S : t.state[a] = "queued"}
  OBVIOUS
<1>2. PICK R : R = {a \in S : t.state[a] # "queued"}
  OBVIOUS
<1>3. Q \in SUBSET Agents /\ R \in SUBSET Agents /\ Q \subseteq S /\ R \subseteq S
  BY <1>1, <1>2
<1>4. PICK q : q = InOrder(Q)
  OBVIOUS
<1>5. PICK r : r = InOrder(R)
  OBVIOUS
<1>6. q \in Seq(S) /\ r \in Seq(S)
  <2>1. q \in [1 .. Cardinality(Q) -> Q] /\ Cardinality(Q) \in Nat
    BY <1>3, <1>4, InOrderLists
  <2>2. r \in [1 .. Cardinality(R) -> R] /\ Cardinality(R) \in Nat
    BY <1>3, <1>5, InOrderLists
  <2>3. q \in [1 .. Cardinality(Q) -> S] /\ r \in [1 .. Cardinality(R) -> S]
    BY <1>3, <2>1, <2>2
  <2> QED
    BY <2>1, <2>2, <2>3
<1>7. StopOrder(t, S) = q \o r
  BY <1>1, <1>2, <1>4, <1>5 DEF StopOrder
<1>8. q \o r \in Seq(S)
  BY <1>6
<1> QED
  BY <1>7, <1>8

\* Leaving the line changes no mail.
LEMMA LeaveLineTends ==
  ASSUME NEW t, Tends(t, NoOne), NEW a \in Agents, NEW u, u = LeaveLine(t, a)
  PROVE  /\ Tends(u, NoOne) /\ MailStays(t, u) /\ Apart(t, u, a) /\ u.state = t.state
         /\ u.going[a] = "no" /\ u.held = t.held /\ u.parent = t.parent /\ u.stop = t.stop
         /\ u.question = t.question
<1>0. Good(t, NoOne) /\ t \in Teams /\ Posted(t)
  BY DEF Tends, Good
<1>1. Good(u, NoOne) /\ Keeps(t, u) /\ u.state = t.state /\ u.going[a] = "no" /\ u.stop = t.stop
  BY <1>0, LeaveLineGood
<1>2. PICK l : u = [t EXCEPT !.line = l, !.going[a] = "no"]
  BY Zenon DEF LeaveLine
<1>3. /\ u.going = [t.going EXCEPT ![a] = "no"] /\ u.inbox = t.inbox
      /\ u.unread = t.unread /\ u.resume = t.resume /\ u.held = t.held /\ u.question = t.question
      /\ u.wait = t.wait /\ u.owed = t.owed /\ u.prompting = t.prompting /\ u.parent = t.parent
      /\ u.blocking = t.blocking /\ u.opening = t.opening /\ u.overlap = t.overlap
      /\ u.stop = t.stop
  BY <1>0, <1>2 DEF Teams
<1>4. Apart(t, u, a)
  BY <1>0, <1>1, <1>3 DEF Teams, Apart, AlikeOf, Ending
<1>5. PostedOf(u, a)
  BY <1>0, <1>1, <1>3 DEF Posted, PostedOf
<1>6. Posted(u)
  BY <1>0, <1>4, <1>5 DEF Posted, PostedOf, Apart, AlikeOf, Ending
<1>7. MailStays(t, u)
  BY <1>3 DEF MailStays, Mail
<1>8. Firm(t, u)
  BY <1>1, <1>3 DEF Firm, Known, Ending
<1>9. Tends(u, NoOne)
  BY <1>1, <1>3, <1>6, <1>8, FirmOwes
<1> QED
  BY <1>1, <1>3, <1>4, <1>7, <1>9

\* The last part of Mark, as the mail sees it.
LEMMA MarkedIs ==
  ASSUME NEW w \in Teams, NEW a \in Agents, Ending(w, a),
         NEW u, u = Marked(Ceased(UnreadLeft(w, a), a), a)
  PROVE  /\ u \in Teams /\ Stopped(w, u, a)
         /\ u.inbox = [w.inbox EXCEPT ![a] = w.inbox[a] \cup w.unread[a]]
         /\ u.unread = [w.unread EXCEPT ![a] = {}] /\ u.resume = w.resume /\ u.held = w.held
         /\ u.owed = w.owed /\ u.prompting = w.prompting \ {a}
         /\ u.blocking = w.blocking /\ u.opening = w.opening \ {a} /\ u.overlap = w.overlap
         /\ \A i \in 1 .. Len(u.stop[a][1].todo) : u.stop[a][1].todo[i] \in Children(u, a)
<1>1. PICK q : q = UnreadLeft(w, a)
  OBVIOUS
<1>2. q \in Teams /\ q.stop = w.stop
  <2>1. q \in Teams
    BY <1>1, ParkedSame
  <2> QED
    BY <1>1, <2>1 DEF UnreadLeft, Teams
<1>3. /\ q.inbox = [w.inbox EXCEPT ![a] = w.inbox[a] \cup w.unread[a]]
      /\ q.unread = [w.unread EXCEPT ![a] = {}] /\ q.resume = w.resume /\ q.held = w.held
      /\ q.owed = w.owed /\ q.prompting = w.prompting
      /\ q.blocking = w.blocking /\ q.opening = w.opening /\ q.overlap = w.overlap
      /\ q.stop = w.stop
  BY <1>1 DEF UnreadLeft, Teams
<1>4. PICK r : r = Ceased(q, a)
  OBVIOUS
<1>5. r \in Teams /\ r.stop = q.stop
  BY <1>2, <1>4, CeasedLeaves
<1>6. /\ r.inbox = q.inbox /\ r.unread = q.unread /\ r.resume = q.resume /\ r.held = q.held
      /\ r.owed = q.owed /\ r.prompting = q.prompting \ {a}
      /\ r.blocking = q.blocking /\ r.opening = q.opening \ {a} /\ r.overlap = q.overlap
  BY <1>2, <1>4 DEF Ceased, Teams
<1>7. PICK order : order = StopOrder(r, Children(r, a))
  OBVIOUS
<1>8. Children(r, a) \in SUBSET Agents
  BY DEF Children
<1>9. order \in Seq(Agents)
  BY <1>7, <1>8, StopOrderTyped
<1>10. u = Ordered(r, a, order)
  BY <1>1, <1>4, <1>7 DEF Marked, Ordered
<1>11. Ending(r, a)
  BY <1>2, <1>5 DEF Ending
<1>12. u \in Teams /\ u = [r EXCEPT !.stop = u.stop] /\ u.stop[a][1].todo = order
  BY <1>5, <1>9, <1>10, <1>11, OrderedLeaves
<1>13. /\ u.inbox = r.inbox /\ u.unread = r.unread /\ u.resume = r.resume /\ u.held = r.held
       /\ u.owed = r.owed /\ u.prompting = r.prompting /\ u.state = r.state /\ u.parent = r.parent
       /\ u.blocking = r.blocking /\ u.opening = r.opening /\ u.overlap = r.overlap
  BY <1>5, <1>12 DEF Teams
<1>14. \A i \in 1 .. Len(u.stop[a][1].todo) : u.stop[a][1].todo[i] \in Children(u, a)
  <2> SUFFICES ASSUME NEW i \in 1 .. Len(u.stop[a][1].todo)
               PROVE  u.stop[a][1].todo[i] \in Children(u, a)
    OBVIOUS
  <2>1. order[i] \in Children(r, a)
    BY <1>7, <1>8, <1>12, StopOrderLists
  <2>2. Children(r, a) = Children(u, a)
    BY <1>13 DEF Children, Known
  <2> QED
    BY <1>12, <2>1, <2>2
<1>15. u \in Teams /\ Stopped(w, u, a)
  BY MarkLeaves
<1> QED
  BY <1>3, <1>6, <1>13, <1>14, <1>15

\* Who is marked in a team that is sound but for its stop is struck.
LEMMA MarkedStrikes ==
  ASSUME NEW t, NEW e, NEW w \in Teams, NEW a \in Agents,
         Apart(t, e, a), Mail(t, a) \subseteq Mail(w, a), e.state = t.state, e.parent = t.parent,
         ~Ended(t, a),
         Posted(w), Debts(w), Todo(w), Ending(w, a), Kept(e, w), w.parent = e.parent,
         \A b \in Agents : Known(e, b) => Known(w, b), Lasts(e, w), w.going[a] = "no",
         w.resume[a] = {}, NEW u, u = Marked(Ceased(UnreadLeft(w, a), a), a), Good(u, a),
         \A b \in Agents : b # a => (Ending(u, b) <=> Ending(t, b))
  PROVE  Tends(u, a) /\ Strikes(t, u, a) /\ u.state[a] = "stopped"
<1>1. /\ u \in Teams /\ Stopped(w, u, a)
      /\ u.inbox = [w.inbox EXCEPT ![a] = w.inbox[a] \cup w.unread[a]]
      /\ u.unread = [w.unread EXCEPT ![a] = {}] /\ u.resume = w.resume /\ u.held = w.held
      /\ u.owed = w.owed /\ u.prompting = w.prompting \ {a}
      /\ u.blocking = w.blocking /\ u.opening = w.opening \ {a} /\ u.overlap = w.overlap
      /\ \A i \in 1 .. Len(u.stop[a][1].todo) : u.stop[a][1].todo[i] \in Children(u, a)
  BY MarkedIs
<1>2. /\ Ending(u, a) /\ u.state[a] = "stopped" /\ u.wait[a] = NoOne
      /\ u.parent = w.parent /\ u.going = w.going /\ u.question = w.question
      /\ \A b \in Agents : b # a => /\ u.stop[b] = w.stop[b] /\ u.wait[b] = w.wait[b]
                                    /\ u.state[b] = w.state[b]
  BY <1>1 DEF Stopped
<1>3. Apart(w, u, a)
  BY <1>1, <1>2 DEF Teams, Apart, AlikeOf, Ending
<1>4. Mail(w, a) \subseteq Mail(u, a)
  BY <1>1 DEF Teams, Mail
<1>5. Posted(u)
  <2>1. PostedOf(u, a)
    BY <1>1, <1>2 DEF PostedOf
  <2> QED
    BY <1>3, <2>1 DEF Posted, PostedOf, Apart, AlikeOf, Ending
<1>6. \A b \in Agents : Known(w, b) => Known(u, b)
  BY <1>2 DEF Known
<1>7. Debts(u)
  BY <1>1, <1>2, <1>6 DEF Debts
<1>8. Todo(u)
  <2> SUFFICES ASSUME NEW b \in Agents, Ending(u, b), NEW i \in 1 .. Len(u.stop[b][1].todo)
               PROVE  u.stop[b][1].todo[i] \in Children(u, b)
    BY DEF Todo
  <2>1. CASE b = a
    BY <1>1, <2>1
  <2>2. CASE b # a
    <3>1. u.stop[b] = w.stop[b] /\ Ending(w, b)
      BY <1>2, <2>2 DEF Ending
    <3>2. w.stop[b][1].todo[i] \in Children(w, b)
      BY <3>1 DEF Todo
    <3>3. Children(w, b) \subseteq Children(u, b)
      BY <1>2, <1>6 DEF Children
    <3> QED
      BY <3>1, <3>2, <3>3
  <2> QED
    BY <2>1, <2>2
<1>9. Tends(u, a)
  BY <1>5, <1>7, <1>8 DEF Tends
<1>10. Mail(t, a) \subseteq Mail(u, a)
  BY <1>4
<1>11. ~MayGetPrompt(u, a)
  BY <1>2 DEF MayGetPrompt
<1>12. ASSUME NEW b \in Agents, b # a PROVE SparesOf(t, u, b)
  <2>1. /\ (MayGetPrompt(t, b) <=> MayGetPrompt(e, b)) /\ Mail(t, b) = Mail(e, b)
        /\ (Works(t, b) <=> Works(e, b))
    BY <1>12 DEF Apart, AlikeOf, Ending, MayGetPrompt, Mail, Works, Prompted
  <2>2. /\ (MayGetPrompt(w, b) <=> MayGetPrompt(u, b)) /\ Mail(w, b) = Mail(u, b)
        /\ (Works(w, b) <=> Works(u, b))
    BY <1>3, <1>12 DEF Apart, AlikeOf, Ending, MayGetPrompt, Mail, Works, Prompted
  <2>3. KeptOf(e, w, b)
    BY DEF Kept
  <2>4. Tidy(t, b) => Tidy(u, b)
    <3>1. AlikeOf(t, e, b) /\ AlikeOf(w, u, b)
      BY <1>3, <1>12 DEF Apart
    <3> QED
      BY <2>3, <3>1, AlikeTidy DEF KeptOf, TidyOf
  <2> QED
    BY <2>1, <2>2, <2>3, <2>4 DEF KeptOf, SparesOf
<1>13. Ends(t, u)
  <2>1. ASSUME NEW b \in Agents
        PROVE  /\ Known(t, b) => Known(u, b)
               /\ Ended(t, b) => u.state[b] = t.state[b]
               /\ Ending(u, b) => Ending(t, b) \/ Ended(u, b)
    <3>1. Known(t, b) => Known(u, b)
      BY <1>6 DEF Known
    <3>2. ASSUME Ended(t, b) PROVE u.state[b] = t.state[b]
      BY <1>2, <3>2 DEF Lasts, Ended
    <3>3. ASSUME Ending(u, b) PROVE Ending(t, b) \/ Ended(u, b)
      BY <1>2, <3>3 DEF Ended, EndedStates
    <3> QED
      BY <3>1, <3>2, <3>3
  <2> QED
    BY <1>2, <2>1 DEF Ends
<1>14. Tidy(u, a)
  BY <1>1, <1>2 DEF Tidy
<1> QED
  BY <1>2, <1>9, <1>10, <1>11, <1>12, <1>13, <1>14 DEF Strikes

\* A frame that begins changes no mail, and has nothing to do yet.
LEMMA FramedTends ==
  ASSUME NEW p, Tends(p, NoOne), NEW a \in Agents, NEW f \in Frames, f.todo = <<>>,
         NEW quiet \in SUBSET Agents, NEW e, e = Framed(p, a, f, quiet)
  PROVE  /\ e \in Teams /\ Posted(e) /\ Debts(e) /\ Todo(e) /\ Apart(p, e, a) /\ Ending(e, a)
         /\ e.resume = p.resume /\ e.parent = p.parent /\ e.state = p.state
         /\ Mail(e, a) = Mail(p, a) /\ e.going = p.going /\ e.question = p.question
<1>0. p \in Teams /\ Posted(p)
  BY DEF Tends, Good
<1>1. /\ e \in Teams /\ e.stop[a] = <<f>> /\ \A b \in Agents : b # a => e.stop[b] = p.stop[b]
      /\ e.parent = p.parent /\ e.wait = p.wait /\ e.question = p.question
      /\ e.state = p.state /\ e.going = p.going
  BY <1>0, FramedLeaves
<1>2. PICK s : e = [p EXCEPT !.stop = s, !.silent = quiet]
  BY Zenon, <1>0 DEF Framed, Teams
<1>3. /\ e.inbox = p.inbox /\ e.unread = p.unread /\ e.resume = p.resume /\ e.held = p.held
      /\ e.owed = p.owed /\ e.prompting = p.prompting
      /\ e.blocking = p.blocking /\ e.opening = p.opening /\ e.overlap = p.overlap
  BY <1>0, <1>2 DEF Teams
<1>4. Apart(p, e, a) /\ Mail(e, a) = Mail(p, a)
  BY <1>1, <1>3 DEF Apart, AlikeOf, Ending, Mail
<1>5. Posted(e)
  BY <1>0, <1>1, <1>3 DEF Posted, PostedOf
<1>6. Debts(e)
  BY <1>1, <1>3 DEF Tends, Debts, Known
<1>7. Todo(e)
  <2> SUFFICES ASSUME NEW b \in Agents, Ending(e, b), NEW i \in 1 .. Len(e.stop[b][1].todo)
               PROVE  e.stop[b][1].todo[i] \in Children(e, b)
    BY DEF Todo
  <2>1. CASE b = a
    <3>1. e.stop[b][1].todo = <<>>
      BY <1>1, <2>1
    <3>2. FALSE
      BY <3>1
    <3> QED
      BY <3>2
  <2>2. CASE b # a
    <3>1. e.stop[b] = p.stop[b] /\ Ending(p, b)
      BY <1>1, <2>2 DEF Ending
    <3>2. p.stop[b][1].todo[i] \in Children(p, b)
      BY <3>1 DEF Tends, Todo
    <3>3. Children(p, b) \subseteq Children(e, b)
      BY <1>1 DEF Children, Known
    <3> QED
      BY <3>1, <3>2, <3>3
  <2> QED
    BY <2>1, <2>2
<1>8. Ending(e, a)
  BY <1>1 DEF Ending
<1> QED
  BY <1>1, <1>3, <1>4, <1>5, <1>6, <1>7, <1>8

\* Mark strikes the agent that it stops.
LEMMA MarkStrikes ==
  ASSUME NEW t, Tends(t, NoOne), NEW a \in Agents, CanStop(t, a), NEW by, NEW u, u = Mark(t, a, by)
  PROVE  /\ Tends(u, a) /\ Strikes(t, u, a) /\ u.state[a] = "stopped" /\ Ending(u, a)
         /\ \A b \in Agents : b # a => (Ending(u, b) <=> Ending(t, b))
<1>0. t \in Teams /\ Good(t, NoOne)
  BY DEF Tends, Good
<1>1. PICK l : l = LeaveLine(t, a)
  OBVIOUS
<1>2. /\ Tends(l, NoOne) /\ MailStays(t, l) /\ Apart(t, l, a) /\ l.state = t.state
      /\ l.going[a] = "no" /\ l.held = t.held /\ l.parent = t.parent /\ l.stop = t.stop
      /\ l.question = t.question
  BY <1>1, LeaveLineTends
<1>3. PICK p : p = ParkResume(l, a)
  OBVIOUS
<1>4. p \in Teams /\ Same(l, p) /\ SetAside(l, p, a) /\ p.resume[a] = {}
  BY <1>2, <1>3, ParkedSame, AsideIs DEF Tends, Good
<1>5. Tends(p, NoOne) /\ MailStays(l, p) /\ p.going[a] = "no"
  BY <1>2, <1>4, SetAsideTends
<1>6. /\ p.state = t.state /\ p.parent = t.parent /\ p.question = t.question /\ p.wait = t.wait
      /\ \A b \in Agents : Ending(p, b) <=> Ending(t, b)
  <2>1. Keeps(t, l)
    BY <1>0, <1>1, LeaveLineGood
  <2>2. Keeps(l, p) /\ p.state = l.state
    BY <1>4 DEF Same, Stays
  <2> QED
    BY <1>2, <2>1, <2>2 DEF Keeps, SameFrames
<1>7. Apart(t, p, a) /\ Mail(t, a) \subseteq Mail(p, a)
  BY <1>2, <1>4, <1>5 DEF Apart, AlikeOf, Ending, SetAside, MailStays
<1>8. PICK f : f = [todo |-> <<>>, on |-> NoOne, own |-> TRUE, held |-> t.held[a],
           wait |-> t.wait[a]]
  OBVIOUS
<1>9. f \in Frames /\ f.todo = <<>> /\ f.on = NoOne /\ f.wait = p.wait[a]
  <2>1. <<>> \in Seq(Agents) /\ t.held[a] \in BOOLEAN /\ t.wait[a] \in Agents \cup {NoOne}
    BY <1>0 DEF Teams
  <2> QED
    BY <1>6, <1>8, <2>1 DEF Frames
<1>10. PICK quiet : quiet = IF by = t.parent[a] THEN p.silent \cup {a} ELSE p.silent
  OBVIOUS
<1>11. quiet \in SUBSET Agents
  BY <1>4, <1>10 DEF Teams
<1>12. PICK e : e = Framed(p, a, f, quiet)
  OBVIOUS
<1>13. /\ e \in Teams /\ Posted(e) /\ Debts(e) /\ Todo(e) /\ Apart(p, e, a) /\ Ending(e, a)
       /\ e.resume = p.resume /\ e.parent = p.parent /\ e.state = p.state
       /\ Mail(e, a) = Mail(p, a) /\ e.going = p.going /\ e.question = p.question
  BY <1>5, <1>9, <1>11, <1>12, FramedTends
<1>15. /\ Apart(t, e, a) /\ Mail(t, a) \subseteq Mail(e, a) /\ e.state = t.state
       /\ e.parent = t.parent /\ e.going[a] = "no" /\ e.question[a] = t.question[a]
  <2>1. Apart(t, e, a)
    BY <1>7, <1>13 DEF Apart, AlikeOf
  <2> QED
    BY <1>5, <1>6, <1>7, <1>13, <2>1
<1>16. PICK w : w = IF t.question[a] # NoOne THEN EndQuestion(e, a) ELSE e
  OBVIOUS
<1>17. u = Marked(Ceased(UnreadLeft(w, a), a), a)
  <2>1. e = [p EXCEPT !.stop[a] = <<f>>, !.silent = IF by = t.parent[a] THEN @ \cup {a} ELSE @]
    BY <1>4, <1>10, <1>12 DEF Framed, Teams
  <2> QED
    BY <1>1, <1>3, <1>8, <1>16, <2>1 DEF Mark, Ceased
<1>18. /\ Good(u, a) /\ Ending(u, a)
       /\ \A b \in Agents : b # a => (Ending(u, b) <=> Ending(t, b))
  BY <1>0, MarkGood
<1>19. ~Ended(t, a) /\ Known(t, a) /\ ~Ending(t, a)
  BY DEF CanStop, Live, LiveStates, Ended, EndedStates, Known
<1>20. CASE t.question[a] # NoOne
  <2>1. Good(e, a)
    <3>1. ~Ending(p, a) /\ p.question[a] # NoOne
      BY <1>6, <1>19, <1>20
    <3> QED
      BY <1>5, <1>9, <1>11, <1>12, <3>1, FramedGood DEF Tends
  <2>2. Tends(e, a)
    BY <1>13, <2>1 DEF Tends
  <2>3. w = EndQuestion(e, a) /\ e.question[a] # NoOne
    BY <1>15, <1>16, <1>20
  <2>4. Tends(w, a) /\ Steady(e, w)
    BY <2>2, <2>3, EndQuestionSteady
  <2>5. /\ w.going[a] = "no" /\ \A b \in Agents : /\ Ending(w, b) <=> Ending(e, b)
                                                  /\ e.state[b] # "queued" => w.state[b] = e.state[b]
    BY <1>13, <1>15, <2>1, <2>3, AloneStops
  <2>6. e.state[a] = "asking"
    BY <2>1, <2>3 DEF Good, Sound, Asks
  <2>7. w.resume[a] = {}
    <3>1. PostedOf(w, a) /\ w.state[a] = "asking"
      BY <2>4, <2>5, <2>6 DEF Tends, Posted
    <3> QED
      BY <3>1 DEF PostedOf
  <2>8. ~MayGetPrompt(e, a)
    BY <1>15, <2>6 DEF MayGetPrompt
  <2>9. /\ w \in Teams /\ Posted(w) /\ Debts(w) /\ Todo(w) /\ Ending(w, a) /\ Kept(e, w)
        /\ w.parent = e.parent /\ Lasts(e, w) /\ \A b \in Agents : Known(e, b) => Known(w, b)
    BY <1>13, <2>4, <2>5 DEF Tends, Good, Steady, Firm
  <2>10. Mail(t, a) \subseteq Mail(w, a)
    <3>1. Mail(e, a) \subseteq Mail(w, a)
      BY <2>8, <2>9 DEF Kept, KeptOf
    <3> QED
      BY <1>15, <3>1
  <2> QED
    BY <1>15, <1>17, <1>18, <1>19, <2>5, <2>7, <2>9, <2>10, MarkedStrikes
<1>21. CASE t.question[a] = NoOne
  <2>1. w = e
    BY <1>16, <1>21
  <2>2. Mail(t, a) \subseteq Mail(w, a)
    BY <1>15, <2>1
  <2>3. Kept(e, e) /\ Lasts(e, e)
    BY SteadyMore DEF Steady
  <2>4. e.resume[a] = {}
    BY <1>4, <1>13
  <2> QED
    BY <1>13, <1>15, <1>17, <1>18, <1>19, <2>1, <2>2, <2>3, <2>4, MarkedStrikes
<1> QED
  BY <1>20, <1>21

\* Who is brought on with its stop changes no mail, and stops subagents only.
LEMMA BroughtOn ==
  ASSUME NEW t, NEW a, Tends(t, a), NEW u, Good(u, NoOne), Alike(t, u), u.state = t.state,
         u.parent = t.parent, \A b \in Agents : Ending(u, b) <=> Ending(t, b),
         \A b \in Agents : Ending(u, b) =>
             \A i \in 1 .. Len(u.stop[b][1].todo) : u.stop[b][1].todo[i] \in Children(t, b)
  PROVE  Tends(u, NoOne) /\ Spares(t, u)
<1>1. Posted(u) /\ Kept(t, u)
  BY AlikeKept DEF Tends
<1>2. \A b \in Agents : u.owed[b] = t.owed[b]
  BY DEF Alike, AlikeOf, Ending
<1>3. Debts(u)
  BY <1>2 DEF Tends, Debts, Known
<1>4. Todo(u)
  <2> SUFFICES ASSUME NEW b \in Agents, Ending(u, b), NEW i \in 1 .. Len(u.stop[b][1].todo)
               PROVE  u.stop[b][1].todo[i] \in Children(u, b)
    BY DEF Todo
  <2>1. u.stop[b][1].todo[i] \in Children(t, b)
    OBVIOUS
  <2>2. Children(t, b) \subseteq Children(u, b)
    BY DEF Children, Known
  <2> QED
    BY <2>1, <2>2
<1>5. Ends(t, u)
  BY DEF Ends, Known, Ended
<1>6. \A b \in Agents : SparesOf(t, u, b)
  BY <1>1 DEF Kept, KeptOf, TidyOf, SparesOf
<1> QED
  BY <1>1, <1>3, <1>4, <1>5, <1>6 DEF Tends, Spares

\* A new frame alone is no change of mail.
LEMMA FrameAlike ==
  ASSUME NEW t \in Teams, NEW s, NEW u, u = [t EXCEPT !.stop = s],
         \A b \in Agents : s[b] # <<>> => Ending(t, b)
  PROVE  Alike(t, u) /\ u.state = t.state /\ u.parent = t.parent /\ u.stop = s
  BY DEF Teams, Alike, AlikeOf, Ending

\* A stop that goes on with a subagent.
LEMMA RestsTends ==
  ASSUME NEW t, NEW a \in Agents, Tends(t, a), Ending(t, a), NEW order \in Seq(Agents),
         \A i \in 1 .. Len(order) : order[i] \in Children(t, a), NEW c \in Agents,
         NEW r, r = Reframed(t, a, order, c)
  PROVE  /\ Tends(r, NoOne) /\ Spares(t, r) /\ r.parent = t.parent /\ r.state = t.state
         /\ \A b \in Agents : Ending(r, b) <=> Ending(t, b)
<1>0. t \in Teams /\ Good(t, a)
  BY DEF Tends, Good
<1>1. Good(r, NoOne) /\ \A b \in Agents : (Ending(r, b) <=> Ending(t, b))
  BY <1>0, RestGood
<1>2. PICK c1 \in Agents \cup {NoOne} : c1 = c
  OBVIOUS
<1>3. /\ r \in Teams /\ r = [t EXCEPT !.stop = r.stop] /\ r.stop[a][1].todo = order
      /\ \A b \in Agents : b # a => r.stop[b] = t.stop[b]
  BY <1>0, <1>2, ReframedLeaves
<1>4. PICK s : s = r.stop
  OBVIOUS
<1>5. Alike(t, r) /\ r.state = t.state /\ r.parent = t.parent
  BY <1>0, <1>1, <1>3, <1>4, FrameAlike DEF Ending
<1>6. ASSUME NEW b \in Agents, Ending(r, b), NEW i \in 1 .. Len(r.stop[b][1].todo)
      PROVE  r.stop[b][1].todo[i] \in Children(t, b)
  <2>1. CASE b = a
    BY <1>3, <1>6, <2>1
  <2>2. CASE b # a
    <3>1. r.stop[b] = t.stop[b] /\ Ending(t, b)
      BY <1>1, <1>3, <1>6, <2>2
    <3> QED
      BY <1>6, <3>1 DEF Tends, Todo
  <2> QED
    BY <2>1, <2>2
<1>7. Tends(r, NoOne) /\ Spares(t, r)
  BY SMTT(30), <1>1, <1>5, <1>6, BroughtOn
<1> QED
  BY <1>1, <1>5, <1>7

\* Whoever is being stopped still is.
StillEnding(t, u) == \A b \in Agents : Ending(t, b) => Ending(u, b)

\* A stop that comes to the abort.
LEMMA AbortTends ==
  ASSUME NEW t, NEW a \in Agents, Tends(t, a), Ending(t, a),
         NEW d, d = Awake(Reframed(t, a, <<>>, NoOne), a), NEW u, u = Detach(d, t.stop[a][1].wait)
  PROVE  Tends(u, NoOne) /\ Spares(t, u) /\ StillEnding(t, u)
<1>0. t \in Teams /\ Good(t, a)
  BY DEF Tends, Good
<1>1. Good(u, NoOne) /\ \A b \in Agents : (Ending(u, b) <=> Ending(t, b))
  BY <1>0, AbortGood
<1>2. PICK r : r = Reframed(t, a, <<>>, NoOne)
  OBVIOUS
<1>3. PICK nobody \in Agents \cup {NoOne} : nobody = NoOne
  OBVIOUS
<1>4. PICK none \in Seq(Agents) : none = <<>>
  <2>1. <<>> \in Seq(Agents)
    OBVIOUS
  <2> QED
    BY <2>1
<1>5. /\ r \in Teams /\ r = [t EXCEPT !.stop = r.stop] /\ r.stop[a][1].todo = none
      /\ \A b \in Agents : b # a => r.stop[b] = t.stop[b]
  <2>1. r = Reframed(t, a, none, nobody)
    BY <1>2, <1>3, <1>4
  <2> QED
    BY <1>0, <2>1, ReframedLeaves
<1>6. PICK s : s = r.stop
  OBVIOUS
<1>7. Alike(t, r) /\ r.state = t.state /\ r.parent = t.parent
  <2>1. \A b \in Agents : s[b] # <<>> => Ending(t, b)
    BY <1>5, <1>6 DEF Ending
  <2> QED
    BY <1>0, <1>5, <1>6, <2>1, FrameAlike
<1>8. PICK R : R = r.resting \ {a}
  OBVIOUS
<1>9. d = [r EXCEPT !.resting = R] /\ d \in Teams
  <2>1. d = [r EXCEPT !.resting = R]
    BY <1>2, <1>8 DEF Awake
  <2>2. R \in SUBSET Agents
    BY <1>5, <1>8 DEF Teams
  <2> QED
    BY ZenonT(40), <1>5, <2>1, <2>2 DEF Teams
<1>10. Alike(r, d) /\ d.state = r.state /\ d.parent = r.parent /\ d.stop = r.stop
  <2>1. /\ d.state = r.state /\ d.going = r.going /\ d.inbox = r.inbox /\ d.unread = r.unread
        /\ d.resume = r.resume /\ d.held = r.held /\ d.question = r.question /\ d.wait = r.wait
    BY <1>5, <1>9 DEF Teams
  <2>2. /\ d.owed = r.owed /\ d.prompting = r.prompting /\ d.blocking = r.blocking
        /\ d.opening = r.opening /\ d.overlap = r.overlap /\ d.parent = r.parent
        /\ d.stop = r.stop
    BY <1>5, <1>9 DEF Teams
  <2> QED
    BY <2>1, <2>2 DEF Alike, AlikeOf, Ending
<1>11. PICK B : u = [d EXCEPT !.blocking = B] /\ \A b \in Agents : B[b] => d.blocking[b]
  <2>1. CASE t.stop[a][1].wait = NoOne
    <3>1. u = d
      BY <2>1 DEF Detach
    <3>2. u = [d EXCEPT !.blocking = d.blocking]
      BY <1>9, <3>1 DEF Teams
    <3> QED
      BY <3>2
  <2>2. CASE t.stop[a][1].wait # NoOne
    <3>1. PICK c : c = t.stop[a][1].wait
      OBVIOUS
    <3>2. PICK C : C = [d.blocking EXCEPT ![c] = FALSE]
      OBVIOUS
    <3>3. u = [d EXCEPT !.blocking = C]
      BY <2>2, <3>1, <3>2 DEF Detach
    <3>4. \A b \in Agents : C[b] => d.blocking[b]
      BY Zenon, <1>9, <3>2 DEF Teams
    <3> QED
      BY <3>3, <3>4
  <2> QED
    BY <2>1, <2>2
<1>12. Alike(d, u) /\ u.state = d.state /\ u.parent = d.parent /\ u.stop = d.stop
  <2>1. /\ u.state = d.state /\ u.going = d.going /\ u.inbox = d.inbox /\ u.unread = d.unread
        /\ u.resume = d.resume /\ u.held = d.held /\ u.question = d.question /\ u.wait = d.wait
    BY <1>9, <1>11 DEF Teams
  <2>2. /\ u.owed = d.owed /\ u.prompting = d.prompting /\ u.blocking = B
        /\ u.opening = d.opening /\ u.overlap = d.overlap /\ u.parent = d.parent
        /\ u.stop = d.stop
    BY <1>9, <1>11 DEF Teams
  <2> QED
    BY Zenon, <1>11, <2>1, <2>2 DEF Alike, AlikeOf, Ending
<1>13. Alike(t, u)
  <2>1. ASSUME NEW b \in Agents PROVE AlikeOf(t, u, b)
    <3>1. AlikeOf(t, r, b) /\ AlikeOf(r, d, b) /\ AlikeOf(d, u, b)
      BY <1>7, <1>10, <1>12 DEF Alike
    <3>2. Ending(u, b) => Ending(t, b)
      BY SMTT(30), <3>1 DEF AlikeOf
    <3> QED
      BY <3>1, <3>2 DEF AlikeOf
  <2> QED
    BY <2>1 DEF Alike
<1>14. ASSUME NEW b \in Agents, Ending(u, b), NEW i \in 1 .. Len(u.stop[b][1].todo)
       PROVE  u.stop[b][1].todo[i] \in Children(t, b)
  <2>1. CASE b = a
    <3>1. u.stop[b][1].todo = <<>>
      BY <1>4, <1>5, <1>10, <1>12, <2>1
    <3>2. FALSE
      BY SMTT(30), <1>14, <3>1
    <3> QED
      BY SMTT(30), <3>2
  <2>2. CASE b # a
    <3>1. u.stop[b] = t.stop[b] /\ Ending(t, b)
      BY <1>1, <1>5, <1>10, <1>12, <1>14, <2>2
    <3> QED
      BY <1>14, <3>1 DEF Tends, Todo
  <2> QED
    BY <2>1, <2>2
<1>15. StillEnding(t, u)
  BY <1>1 DEF StillEnding
<1> QED
  BY Zenon, <1>1, <1>7, <1>10, <1>12, <1>13, <1>14, <1>15, BroughtOn

\* On its way down the tree, a stop spares whom it does not strike from above.
WayOn(t0, at) ==
    Tends(at.team, at.agent) /\ Spares(t0, at.team) /\ StillEnding(t0, at.team)

\* One step of it.
LEMMA StopsNextTends ==
  ASSUME NEW t0, NEW k \in Nat, NEW at, OnTheWay(t0, at, k), WayOn(t0, at), NEW n
  PROVE  WayOn(t0, StopsNext(at, n))
<1>1. PICK t : t = at.team
  OBVIOUS
<1>2. PICK a : a = at.agent
  OBVIOUS
<1>3. PICK new : new = StopsNext(at, n)
  OBVIOUS
<1>4. CASE a = NoOne
  <2>1. new = at
    BY <1>2, <1>3, <1>4 DEF StopsNext
  <2> QED
    BY <1>3, <2>1
<1>5. CASE a # NoOne
  <2>1. a \in Agents /\ t \in Teams /\ Tends(t, a) /\ Ending(t, a) /\ Spares(t0, t)
         /\ StillEnding(t0, t)
    BY <1>1, <1>2, <1>5 DEF OnTheWay, WayOn
  <2>2. PICK todo \in Seq(Agents) : todo = t.stop[a][1].todo
    BY <2>1, FramesOf DEF Frames
  <2>3. PICK I : I = {i \in 1 .. Len(todo) : CanStop(t, todo[i])}
    OBVIOUS
  <2>4. PICK next : next = IF I # {} THEN Min(I) ELSE 0
    OBVIOUS
  <2>5. I \in SUBSET (1 .. Len(todo)) /\ Len(todo) \in Nat
    BY <2>3
  <2>6. next \in 0 .. Len(todo) /\ (I # {} => next \in I)
    BY SMTT(30), <2>4, <2>5, Selects
  <2>7. new = IF next = 0
              THEN [team |-> Detach(Awake(Reframed(t, a, <<>>, NoOne), a), t.stop[a][1].wait),
              agent |-> NoOne]
              ELSE [team |-> Mark(Reframed(t, a, SubSeq(todo, next + 1, Len(todo)), todo[next]),
              todo[next], a),
                    agent |-> todo[next]]
    <3>1. [t EXCEPT !.stop[a][1].todo = <<>>, !.stop[a][1].on = NoOne, !.resting = @ \ {a}]
            = Awake(Reframed(t, a, <<>>, NoOne), a)
      BY <2>1 DEF Awake, Reframed, Teams
    <3> QED
      BY ZenonT(40), <1>1, <1>2, <1>3, <1>5, <2>2, <2>3, <2>4, <3>1 DEF StopsNext, SelectInSeq, Reframed
  <2>8. CASE next = 0
    <3>1. PICK d : d = Awake(Reframed(t, a, <<>>, NoOne), a)
      OBVIOUS
    <3>2. PICK u : u = Detach(d, t.stop[a][1].wait)
      OBVIOUS
    <3>3. Tends(u, NoOne) /\ Spares(t, u) /\ StillEnding(t, u)
      BY <2>1, <3>1, <3>2, AbortTends
    <3>4. new.team = u /\ new.agent = NoOne
      BY <2>7, <2>8, <3>1, <3>2
    <3>5. Spares(t0, u) /\ StillEnding(t0, u)
      BY <2>1, <3>3, SparesMore DEF StillEnding
    <3> QED
      BY <1>3, <3>3, <3>4, <3>5 DEF WayOn
  <2>9. CASE next # 0
    <3>1. next \in I
      BY <2>4, <2>6, <2>9
    <3>2. next \in 1 .. Len(todo) /\ CanStop(t, todo[next])
      BY <2>3, <3>1
    <3>3. PICK child \in Agents : child = todo[next]
      BY <3>2
    <3>4. PICK order : order = SubSeq(todo, next + 1, Len(todo))
      OBVIOUS
    <3>5. order \in Seq(Agents) /\ \A i \in 1 .. Len(order) : \E j \in 1 .. Len(todo) : order[i] = todo[j]
      <4>1. order \in Seq(Agents)
        BY <2>5, <3>2, <3>4
      <4>2. ASSUME NEW i \in 1 .. Len(order) PROVE \E j \in 1 .. Len(todo) : order[i] = todo[j]
        <5>1. Len(order) = Len(todo) - next
          BY <2>5, <3>2, <3>4
        <5>2. next + i \in 1 .. Len(todo) /\ order[i] = todo[next + i]
          BY <2>5, <3>2, <3>4, <5>1
        <5> QED
          BY <5>2
      <4> QED
        BY <4>1, <4>2
    <3>6. \A j \in 1 .. Len(todo) : todo[j] \in Children(t, a)
      BY <2>1, <2>2 DEF Tends, Todo
    <3>7. \A i \in 1 .. Len(order) : order[i] \in Children(t, a)
      BY <3>5, <3>6
    <3>8. PICK r : r = Reframed(t, a, order, child)
      OBVIOUS
    <3>9. /\ Tends(r, NoOne) /\ Spares(t, r) /\ r.parent = t.parent /\ r.state = t.state
          /\ \A b \in Agents : Ending(r, b) <=> Ending(t, b)
      BY <2>1, <3>5, <3>7, <3>8, RestsTends
    <3>10. CanStop(r, child)
      BY <3>2, <3>3, <3>9 DEF CanStop, Live
    <3>11. PICK u : u = Mark(r, child, a)
      OBVIOUS
    <3>12. /\ Tends(u, child) /\ Strikes(r, u, child) /\ u.state[child] = "stopped"
           /\ Ending(u, child) /\ \A b \in Agents : b # child => (Ending(u, b) <=> Ending(r, b))
      BY <3>9, <3>10, <3>11, MarkStrikes
    <3>13. r.parent[child] = a
      BY <3>2, <3>3, <3>6, <3>9 DEF Children
    <3>14. Spares(r, u)
      BY <2>1, <3>9, <3>12, <3>13, StruckBelow
    <3>15. Spares(t0, u)
      BY <2>1, <3>9, <3>14, SparesMore
    <3>16. StillEnding(t0, u)
      BY <2>1, <3>9, <3>12 DEF StillEnding
    <3>17. new.team = u /\ new.agent = child
      BY <2>7, <2>9, <3>3, <3>4, <3>8, <3>11
    <3> QED
      BY <1>3, <3>12, <3>15, <3>16, <3>17 DEF WayOn
  <2> QED
    BY <2>8, <2>9
<1> QED
  BY <1>4, <1>5

\* The whole way down.
LEMMA UnwindTends ==
  ASSUME NEW t, NEW a \in Agents, Tends(t, a), Ending(t, a)
  PROVE  /\ Tends(Unwind(t, a), NoOne) /\ Spares(t, Unwind(t, a))
         /\ StillEnding(t, Unwind(t, a))
<1> DEFINE n == MaxAgents
           W == [team : Teams, agent : Agents \cup {NoOne}]
           X == [s \in SUBSET (1 .. n) |->
                    {at \in W : OnTheWay(t, at, Cardinality(s) + 1) /\ WayOn(t, at)}]
           first == [team |-> t, agent |-> a]
<1>1. n \in Nat /\ Agents \in SUBSET Agents /\ Cardinality(Agents) = n
  BY NumbersOf
<1>2. PICK line : line = InOrder(Agents)
  OBVIOUS
<1>3. DOMAIN line = 1 .. n /\ line \in [1 .. n -> Agents]
  BY <1>1, <1>2, InOrderLists
<1>4. first \in X[{}]
  <2>1. t \in Teams /\ Good(t, a)
    BY DEF Tends, Good
  <2>2. Cardinality(Enders(t)) >= 1
    <3>1. Enders(t) \in SUBSET Agents /\ a \in Enders(t) /\ {} \in SUBSET Agents /\ a \notin {}
      BY DEF Enders
    <3>2. Cardinality({} \cup {a}) = Cardinality({}) + 1
      BY <3>1, Counts
    <3>3. {} \cup {a} \in SUBSET Enders(t)
      BY <3>1
    <3>4. Cardinality({} \cup {a}) <= Cardinality(Enders(t)) /\ Cardinality(Enders(t)) \in Nat
      BY <3>1, <3>3, Counts
    <3>5. Cardinality({}) = 0
      BY FS_EmptySet
    <3> QED
      BY <3>2, <3>4, <3>5
  <2>3. first \in W /\ first.team = t /\ first.agent = a
    BY <2>1
  <2>4. Cardinality({}) + 1 = 1
    BY FS_EmptySet
  <2>5. OnTheWay(t, first, 1)
    BY <2>1, <2>2, <2>3 DEF OnTheWay
  <2>6. {} \in SUBSET (1 .. n)
    OBVIOUS
  <2>7. WayOn(t, first)
    BY <2>3, SparesMore DEF WayOn, StillEnding
  <2> HIDE DEF n, W, first
  <2> QED
    BY <2>3, <2>4, <2>5, <2>6, <2>7
<1>5. ASSUME NEW s \in SUBSET (1 .. n), NEW i \in (1 .. n) \ s, NEW at \in X[s]
      PROVE  StopsNext(at, line[i]) \in X[s \cup {i}]
  <2>1. at \in W /\ OnTheWay(t, at, Cardinality(s) + 1) /\ WayOn(t, at)
    OBVIOUS
  <2>2. IsFiniteSet(s) /\ Cardinality(s) \in Nat /\ s \cup {i} \in SUBSET (1 .. n)
    BY <1>1, Positions
  <2>3. Cardinality(s \cup {i}) = Cardinality(s) + 1
    BY <2>2, FS_AddElement
  <2>4. PICK new : new = StopsNext(at, line[i])
    OBVIOUS
  <2>5. OnTheWay(t, new, Cardinality(s) + 1 + 1) /\ WayOn(t, new)
    BY <2>1, <2>2, <2>4, StopsNextGood, StopsNextTends
  <2>6. new \in W
    BY <2>5 DEF OnTheWay
  <2>7. OnTheWay(t, new, Cardinality(s \cup {i}) + 1)
    BY <2>2, <2>3, <2>5
  <2> HIDE DEF n, W
  <2> QED
    BY <2>2, <2>4, <2>5, <2>6, <2>7
<1>6. PICK last : last = FoldLeft(StopsNext, first, line)
  OBVIOUS
<1>7. last \in X[1 .. n]
  <2> HIDE DEF X, n, first
  <2> QED BY <1>1, <1>3, <1>4, <1>5, <1>6, FoldStops
<1>8. OnTheWay(t, last, n + 1) /\ WayOn(t, last)
  <2>1. OnTheWay(t, last, Cardinality(1 .. n) + 1) /\ WayOn(t, last)
    BY <1>7
  <2>2. Cardinality(1 .. n) = n
    BY <1>1, FS_Interval
  <2> QED
    BY <2>1, <2>2
<1>9. last.agent = NoOne
  <2>1. Enders(last.team) \in SUBSET Agents
    BY DEF Enders
  <2>2. Cardinality(Enders(last.team)) <= n /\ Cardinality(Enders(last.team)) \in Nat
    BY <2>1, Counts
  <2>3. ~(Cardinality(Enders(last.team)) >= n + 1)
    BY <1>1, <2>2
  <2> QED
    BY <1>8, <2>3 DEF OnTheWay
<1>10. Unwind(t, a) = last.team
  BY <1>2, <1>6 DEF Unwind
<1> QED
  BY <1>8, <1>9, <1>10 DEF WayOn

\* stop strikes the agent and spares the rest.
LEMMA StopStrikes ==
  ASSUME NEW t, Tends(t, NoOne), NEW a \in Agents, CanStop(t, a), NEW by, NEW u, u = Stop(t, a, by)
  PROVE  Tends(u, NoOne) /\ Strikes(t, u, a) /\ u.state[a] = "stopped" /\ Tight(u)
<1>1. PICK m : m = Mark(t, a, by)
  OBVIOUS
<1>2. Tends(m, a) /\ Strikes(t, m, a) /\ m.state[a] = "stopped" /\ Ending(m, a)
  BY <1>1, MarkStrikes
<1>3. u = Unwind(m, a)
  BY <1>1 DEF Stop
<1>4. Tends(u, NoOne) /\ Spares(m, u) /\ StillEnding(m, u)
  BY <1>2, <1>3, UnwindTends
<1>5. Strikes(t, u, a)
  BY <1>2, <1>4, SparesMore
<1>6. u.state[a] = "stopped"
  BY <1>2, <1>4 DEF Spares, Ends, Ended, EndedStates
<1>7. Tight(u)
  BY <1>2, <1>4 DEF StillEnding, Tight, Calm
<1> QED
  BY <1>4, <1>5, <1>6, <1>7

\* CallEnds changes calls only.
LEMMA CallEndsSpares ==
  ASSUME NEW t, NEW x, Tends(t, x), NEW a, NEW u, u = CallEnds(t, a)
  PROVE  Tends(u, x) /\ Steady(t, u) /\ (Tight(t) => Tight(u))
<1>0. t \in Teams
  BY DEF Tends, Good
<1>1. PICK c : c = [y \in Agents |-> IF t.call[y] = a THEN NoOne ELSE t.call[y]]
  OBVIOUS
<1>2. c \in [Agents -> Agents \cup {NoOne}]
  BY <1>0, <1>1 DEF Teams
<1>3. u = [t EXCEPT !.call = c]
  BY <1>0, <1>1, <1>2 DEF CallEnds, Teams
<1>4. u \in Teams /\ Same(t, u)
  BY ZenonT(40), <1>0, <1>2, <1>3 DEF Teams, Same, Stays, Keeps, SameFrames, Ending
<1>5. Alike(t, u)
  BY <1>0, <1>3 DEF Teams, Alike, AlikeOf, Ending
<1>6. u.ran = t.ran
  BY <1>0, <1>3 DEF Teams
<1>7. Tight(t) => Tight(u)
  BY <1>0, <1>4, <1>6, SameTight
<1> QED
  BY <1>4, <1>5, <1>7, AlikeSteady

\* The stop of the parent goes on.
LEMMA GoesOnSpares ==
  ASSUME NEW t, Tends(t, NoOne), NEW parent, NEW a, NEW u, u = GoesOn(t, parent, a)
  PROVE  Tends(u, NoOne) /\ Spares(t, u) /\ (Tight(t) => Tight(u))
<1>1. CASE parent \in Agents /\ Ending(t, parent) /\ t.stop[parent][1].on = a
  <2>1. Tends(t, parent)
    BY GoodAlso DEF Tends
  <2>2. u = Unwind(t, parent)
    BY <1>1 DEF GoesOn
  <2>3. Tends(u, NoOne) /\ Spares(t, u) /\ StillEnding(t, u)
    BY <1>1, <2>1, <2>2, UnwindTends
  <2>4. Tight(u)
    BY <1>1, <2>3 DEF StillEnding, Tight, Calm
  <2> QED
    BY <2>3, <2>4
<1>2. CASE ~(parent \in Agents /\ Ending(t, parent) /\ t.stop[parent][1].on = a)
  BY <1>2, SparesMore DEF GoesOn
<1> QED
  BY <1>1, <1>2

\* The end of a stop spares everyone.
LEMMA EndStopSpares ==
  ASSUME NEW t, Tends(t, NoOne), NEW a \in Agents, Aborting(t, a), NEW u, u = EndStop(t, a)
  PROVE  Tends(u, NoOne) /\ Spares(t, u) /\ Tight(u)
<1>0. t \in Teams /\ Good(t, NoOne) /\ Posted(t)
  BY DEF Tends, Good
<1>1. PICK o : o = StopOver(t, a)
  OBVIOUS
<1>2. o \in Teams /\ Sheds(t, o, a)
  <2>1. o \in Teams
    BY <1>0, <1>1 DEF Teams, StopOver, Stops
  <2>2. Sheds(t, o, a)
    BY <1>0, <1>1 DEF Teams, StopOver, Sheds
  <2> QED
    BY <2>1, <2>2
<1>3. Good(o, NoOne)
  BY <1>0, <1>2, ShedsGood
<1>4. Alike(t, o)
  BY <1>0, <1>1 DEF Teams, StopOver, Alike, AlikeOf, Ending
<1>5. Firm(t, o) /\ Lasts(t, o)
  BY <1>2 DEF Sheds, Firm, Lasts, Known, Ending
<1>6. Tends(o, NoOne) /\ Steady(t, o)
  <2>1. Posted(o) /\ Kept(t, o)
    BY <1>0, <1>4, AlikeKept
  <2> QED
    BY <1>3, <1>5, <2>1, FirmTends DEF Steady
<1>7. PICK e : e = IF t.stop[a][1].own /\ t.state[a] = "stopped"
                   THEN Finish(t, a, a \in t.silent) ELSE Pump(o)
  OBVIOUS
<1>8. Tends(e, NoOne) /\ Steady(t, e) /\ Tight(e)
  <2>1. CASE t.stop[a][1].own /\ t.state[a] = "stopped"
    <3>1. t.state[a] \notin ActiveStates \cup {"asking"} /\ Known(t, a)
      BY <2>1 DEF ActiveStates, Known
    <3> QED
      BY <1>7, <2>1, <3>1, FinishSteady
  <2>2. CASE ~(t.stop[a][1].own /\ t.state[a] = "stopped")
    <3>1. Tends(e, NoOne) /\ Steady(o, e) /\ Tight(e)
      BY <1>6, <1>7, <2>2, PumpSteady
    <3> QED
      BY <1>6, <3>1, SteadyMore
  <2> QED
    BY <2>1, <2>2
<1>9. PICK c : c = CallEnds(e, a)
  OBVIOUS
<1>10. Tends(c, NoOne) /\ Steady(e, c) /\ Tight(c)
  BY <1>8, <1>9, CallEndsSpares
<1>11. u = GoesOn(c, t.parent[a], a)
  BY <1>1, <1>7, <1>9 DEF EndStop, StopOver
<1>12. Tends(u, NoOne) /\ Spares(c, u) /\ Tight(u)
  BY <1>10, <1>11, GoesOnSpares
<1>13. Steady(t, c)
  BY <1>8, <1>10, SteadyMore
<1> QED
  BY <1>12, <1>13, SparesMore

\* So do the ends of those that had nothing to abort: one,
LEMMA SettleNextSpares ==
  ASSUME NEW t, Tends(t, NoOne), NEW n
  PROVE  /\ Tends(SettleNext(t, n), NoOne) /\ Spares(t, SettleNext(t, n))
         /\ (Tight(t) => Tight(SettleNext(t, n)))
<1>1. PICK ready : ready = {a \in Agents : Aborting(t, a) /\ ~t.stop[a][1].held}
  OBVIOUS
<1>2. CASE ready = {}
  BY <1>1, <1>2, SparesMore DEF SettleNext
<1>3. CASE ready # {}
  <2>1. ready \in SUBSET Nat
    BY <1>1, NumbersOf
  <2>2. \E a \in ready : \A b \in ready : a <= b
    BY <1>3, <2>1, LeastOf
  <2>3. PICK a : a = CHOOSE c \in ready : \A b \in ready : c <= b
    OBVIOUS
  <2>4. a \in ready
    BY <2>2, <2>3
  <2>5. SettleNext(t, n) = EndStop(t, a)
    BY <1>1, <1>3, <2>3 DEF SettleNext
  <2> QED
    BY <1>1, <2>4, <2>5, EndStopSpares
<1> QED
  BY <1>2, <1>3

\* and all.
LEMMA SettledSpares ==
  ASSUME NEW t, Tends(t, NoOne)
  PROVE  /\ Tends(Settled(t), NoOne) /\ Spares(t, Settled(t))
         /\ (Tight(t) => Tight(Settled(t)))
<1> DEFINE n == MaxAgents
           G == {u \in Teams : Tends(u, NoOne) /\ Spares(t, u) /\ (Tight(t) => Tight(u))}
           X == [s \in SUBSET (1 .. n) |-> G]
<1>1. n \in Nat /\ Agents \in SUBSET Agents /\ Cardinality(Agents) = n
  BY NumbersOf
<1>2. PICK line : line = InOrder(Agents)
  OBVIOUS
<1>3. DOMAIN line = 1 .. n
  BY <1>1, <1>2, InOrderLists
<1>4. t \in X[{}]
  BY SparesMore DEF Tends, Good
<1>5. ASSUME NEW s \in SUBSET (1 .. n), NEW i \in (1 .. n) \ s, NEW v \in X[s]
      PROVE  SettleNext(v, line[i]) \in X[s \cup {i}]
  <2>1. PICK u : u = SettleNext(v, line[i])
    OBVIOUS
  <2>2. Tends(v, NoOne) /\ Spares(t, v) /\ (Tight(t) => Tight(v))
    OBVIOUS
  <2>3. Tends(u, NoOne) /\ Spares(v, u) /\ (Tight(v) => Tight(u))
    BY <2>1, <2>2, SettleNextSpares
  <2>4. Spares(t, u)
    BY <2>2, <2>3, SparesMore
  <2> QED
    BY <2>1, <2>2, <2>3, <2>4 DEF Tends, Good
<1>6. FoldLeft(SettleNext, t, line) \in X[1 .. n]
  <2> HIDE DEF X, n
  <2> QED BY <1>1, <1>3, <1>4, <1>5, FoldSettle
<1> QED
  BY <1>2, <1>6 DEF Settled

\* The subagents of an agent that failed are stopped below it.
LEMMA ChildrenStoppedSpares ==
  ASSUME NEW t, Tends(t, NoOne), NEW a \in Agents, Failed(t, a), NEW line \in Seq(Agents),
         \A i \in 1 .. Len(line) : t.parent[line[i]] = a
  PROVE  /\ Tends(ChildrenStopped(t, line), NoOne) /\ Spares(t, ChildrenStopped(t, line))
<1> DEFINE n == Len(line)
           G == {u \in Teams : Tends(u, NoOne) /\ Spares(t, u)}
           X == [s \in SUBSET (1 .. n) |-> G]
<1>1. n \in Nat /\ DOMAIN line = 1 .. n /\ \A i \in 1 .. n : line[i] \in Agents
  OBVIOUS
<1>2. t \in X[{}]
  BY SparesMore DEF Tends, Good
<1>3. ASSUME NEW s \in SUBSET (1 .. n), NEW i \in (1 .. n) \ s, NEW v \in X[s]
      PROVE  Stop(v, line[i], NoOne) \in X[s \cup {i}]
  <2>1. Tends(v, NoOne) /\ Spares(t, v)
    OBVIOUS
  <2>2. PICK c \in Agents : c = line[i]
    BY <1>1
  <2>3. PICK u : u = Stop(v, c, NoOne)
    OBVIOUS
  <2>4. v.parent[c] = a /\ Ended(v, a)
    BY <2>1, <2>2 DEF Spares, Ends, Failed, Ended, EndedStates
  <2>5. Tends(u, NoOne) /\ Spares(v, u)
    <3>1. CASE CanStop(v, c)
      <4>1. PICK by : by = NoOne
        OBVIOUS
      <4>2. Tends(u, NoOne) /\ Strikes(v, u, c) /\ u.state[c] = "stopped"
        BY <2>1, <2>3, <3>1, <4>1, StopStrikes
      <4>3. Ended(u, a)
        BY <2>4, <4>2 DEF Strikes, Ends, Ended
      <4> QED
        BY <2>4, <4>2, <4>3, StruckBelow
    <3>2. CASE ~CanStop(v, c)
      BY <2>1, <2>3, <3>2, SparesMore DEF Stop
    <3> QED
      BY <3>1, <3>2
  <2>6. Spares(t, u)
    BY <2>1, <2>5, SparesMore
  <2>7. u \in G
    BY <2>5, <2>6 DEF Tends, Good
  <2> HIDE DEF G
  <2> QED
    BY <2>2, <2>3, <2>7
<1>4. ChildrenStopped(t, line) \in X[1 .. n]
  <2> HIDE DEF X, n
  <2> QED BY <1>1, <1>2, <1>3, FoldChildren
<1> QED
  BY <1>4

\* It spares whom it leaves alike.
LEMMA AlikeSpares ==
  ASSUME NEW t, NEW u, NEW b \in Agents, AlikeOf(t, u, b)
  PROVE  SparesOf(t, u, b)
<1>1. Mail(t, b) \subseteq Mail(u, b) /\ (MayGetPrompt(u, b) => MayGetPrompt(t, b))
  BY DEF AlikeOf, Mail, MayGetPrompt
<1>2. Works(t, b) => Works(u, b)
  BY DEF AlikeOf, Works, Prompted
<1> QED
  BY <1>1, <1>2, AlikeTidy DEF SparesOf

\* fail strikes the agent that failed and spares the rest.
LEMMA FailStrikes ==
  ASSUME NEW t, Tends(t, NoOne), NEW a \in Agents, Idles(t, a), ~Ended(t, a), t.going[a] = "no",
         t.resume[a] = {}, NEW u, u = Fail(t, a)
  PROVE  Tends(u, NoOne) /\ Strikes(t, u, a) /\ Tight(u)
<1>0. t \in Teams
  BY DEF Tends, Good
<1>1. PICK r : r = UnreadLeft(t, a)
  OBVIOUS
<1>2. r \in Teams /\ Same(t, r) /\ SetAside(t, r, a)
  BY <1>0, <1>1, ParkedSame, AsideIs
<1>3. Tends(r, NoOne) /\ MailStays(t, r) /\ Idles(r, a) /\ r.going[a] = "no"
  BY <1>2, SetAsideTends
<1>4. PICK e : e = Unprompted(r, a)
  OBVIOUS
<1>5. e \in Teams /\ Same(r, e) /\ SetAside(r, e, a)
  BY <1>2, <1>4, UnpromptedSame, AsideIs
<1>6. /\ Tends(e, NoOne) /\ MailStays(r, e) /\ Idles(e, a) /\ e.going[a] = "no"
      /\ a \notin e.prompting
  <2>1. a \notin e.prompting
    BY <1>2, <1>4 DEF Teams, Unprompted
  <2> QED
    BY <1>3, <1>5, <2>1, SetAsideTends
<1>7. e.resume[a] = {}
  BY <1>2, <1>5 DEF SetAside
<1>8. PICK f : f = Put(e, a, "failed")
  OBVIOUS
<1>9. PICK s \in {"waiting", "idle", "failed", "interrupted", "queued"} : s = "failed"
  OBVIOUS
<1>10. Good(f, NoOne) /\ Idles(f, a) /\ f.state[a] = "failed"
  BY <1>6, <1>8, <1>9, PutGood DEF Tends
<1>11. /\ Tends(f, NoOne) /\ MailStays(e, f) /\ Apart(e, f, a)
       /\ f.going[a] = "no" /\ f.parent = e.parent /\ f.stop = e.stop /\ Tidy(f, a)
  BY <1>6, <1>7, <1>8, <1>9, <1>10, PutTends
<1>12. /\ e.parent = t.parent /\ e.state = t.state
       /\ \A b \in Agents : Ending(e, b) <=> Ending(t, b)
  BY <1>2, <1>5 DEF Same, Stays, Keeps, SameFrames
<1>13. f.parent = t.parent /\ \A b \in Agents : b # a => f.state[b] = t.state[b]
  BY <1>8, <1>11, <1>12 DEF Put
<1>14. Strikes(t, f, a)
  <2>1. MailStays(t, f)
    BY <1>3, <1>6, <1>11, BeginsMore
  <2>2. ~MayGetPrompt(f, a)
    BY <1>10, <1>11 DEF MayGetPrompt
  <2>3. Apart(t, f, a)
    BY <1>2, <1>5, <1>11 DEF SetAside, Apart, AlikeOf, Ending
  <2>4. ASSUME NEW b \in Agents, b # a PROVE SparesOf(t, f, b)
    BY <2>1, <2>3, <2>4, AlikeSpares DEF Apart, MailStays
  <2>5. ASSUME NEW b \in Agents
        PROVE  /\ Known(t, b) => Known(f, b)
               /\ Ended(t, b) => f.state[b] = t.state[b]
               /\ Ending(f, b) => Ending(t, b)
    <3>1. Ending(f, b) => Ending(t, b)
      BY <1>11, <1>12 DEF Ending
    <3>2. CASE b = a
      BY <1>10, <3>1, <3>2 DEF Known
    <3>3. CASE b # a
      BY <1>13, <3>1, <3>3 DEF Known
    <3> QED
      BY <3>2, <3>3
  <2>6. Ends(t, f)
    BY <1>13, <2>5 DEF Ends
  <2> QED
    BY <1>11, <2>1, <2>2, <2>4, <2>6 DEF Strikes, MailStays
<1>15. Failed(f, a)
  BY <1>10 DEF Failed, Idles
<1>16. PICK line : line = StopOrder(t, Children(t, a))
  OBVIOUS
<1>17. line \in Seq(Agents) /\ \A i \in 1 .. Len(line) : f.parent[line[i]] = a
  <2>1. Children(t, a) \in SUBSET Agents
    BY DEF Children
  <2>2. line \in Seq(Agents)
    BY <1>16, <2>1, StopOrderTyped
  <2>3. \A i \in 1 .. Len(line) : line[i] \in Children(t, a)
    BY <1>16, <2>1, StopOrderLists
  <2> QED
    BY <1>13, <2>2, <2>3 DEF Children
<1>18. PICK c : c = ChildrenStopped(f, line)
  OBVIOUS
<1>19. Tends(c, NoOne) /\ Spares(f, c)
  BY <1>11, <1>15, <1>17, <1>18, ChildrenStoppedSpares
<1>20. Failed(c, a)
  BY <1>11, <1>15, <1>17, <1>18, ChildrenStoppedGood DEF Tends
<1>21. PICK quiet : quiet = (a \in t.silent)
  OBVIOUS
<1>22. PICK x : x = Finish(c, a, quiet)
  OBVIOUS
<1>23. Tends(x, NoOne) /\ Steady(c, x) /\ Tight(x)
  <2>1. c.state[a] \notin ActiveStates \cup {"asking"} /\ Known(c, a) /\ ~Ending(c, a)
    BY <1>20 DEF Failed, ActiveStates, Known
  <2> QED
    BY <1>19, <1>22, <2>1, FinishSteady
<1>24. [r EXCEPT !.state[a] = "failed", !.prompting = @ \ {a}] = f
  BY <1>2, <1>4, <1>8 DEF Unprompted, Put, Teams
<1>25. u = x
  BY Zenon, <1>1, <1>16, <1>18, <1>21, <1>22, <1>24 DEF Fail, ChildrenStopped
<1> QED
  BY <1>14, <1>19, <1>23, <1>25, SparesMore

\* So does a run without a fallback.
LEMMA FailRunStrikes ==
  ASSUME NEW t, Tends(t, NoOne), NEW a \in Agents, Idles(t, a), ~Ended(t, a), t.going[a] = "no",
         NEW u, u = FailRun(t, a)
  PROVE  Tends(u, NoOne) /\ Strikes(t, u, a) /\ Tight(u)
<1>0. t \in Teams
  BY DEF Tends, Good
<1>1. PICK q : q = Quits(t, a)
  OBVIOUS
<1>2. q \in Teams /\ Same(t, q) /\ SetAside(t, q, a)
  BY <1>0, <1>1, LeftSame, AsideIs
<1>3. Tends(q, NoOne) /\ MailStays(t, q) /\ Idles(q, a) /\ q.going[a] = "no"
  BY <1>2, SetAsideTends
<1>4. PICK p : p = ParkResume(q, a)
  OBVIOUS
<1>5. p \in Teams /\ Same(q, p) /\ SetAside(q, p, a) /\ p.resume[a] = {}
  BY <1>2, <1>4, ParkedSame, AsideIs
<1>6. Tends(p, NoOne) /\ MailStays(q, p) /\ Idles(p, a) /\ p.going[a] = "no"
  BY <1>3, <1>5, SetAsideTends
<1>7. /\ p.state = t.state /\ p.parent = t.parent
      /\ \A b \in Agents : Ending(p, b) <=> Ending(t, b)
  BY <1>2, <1>5 DEF Same, Stays, Keeps, SameFrames
<1>8. u = Fail(p, a)
  BY <1>1, <1>4 DEF FailRun, Quits
<1>9. ~Ended(p, a)
  BY <1>7 DEF Ended
<1>10. Tends(u, NoOne) /\ Strikes(p, u, a) /\ Tight(u)
  BY <1>5, <1>6, <1>8, <1>9, FailStrikes
<1>11. Ends(t, p)
  BY <1>7 DEF Ends, Known, Ended
<1>12. MailStays(t, p)
  BY <1>3, <1>6, BeginsMore
<1>13. Apart(t, p, a)
  BY <1>2, <1>5 DEF SetAside, Apart, AlikeOf, Ending
<1>14. ASSUME NEW b \in Agents, b # a PROVE SparesOf(t, u, b)
  <2>1. SparesOf(t, p, b)
    BY <1>13, <1>14, AlikeSpares DEF Apart
  <2>2. SparesOf(p, u, b) /\ Ends(p, u)
    BY <1>10, <1>14 DEF Strikes
  <2> QED
    BY <1>11, <2>1, <2>2, SparesOfMore
<1>15. Ends(t, u)
  BY <1>10, <1>11 DEF Strikes, Ends, Ended
<1>16. Mail(t, a) \subseteq Mail(u, a) /\ ~MayGetPrompt(u, a) /\ Tidy(u, a)
  BY <1>10, <1>12 DEF Strikes, MailStays
<1> QED
  BY <1>10, <1>14, <1>15, <1>16 DEF Strikes

\* The stops that follow, and the calls that return, spare.
LEMMA StruckTends ==
  ASSUME NEW t, NEW a \in Agents, NEW u, Tends(u, NoOne), Strikes(t, u, a),
         NEW v, v = Returned(u) \/ v = Returned(Settled(u))
  PROVE  Tends(v, NoOne) /\ Strikes(t, v, a) /\ (Tight(u) => Tight(v))
<1>1. PICK s : s = Settled(u)
  OBVIOUS
<1>2. Tends(s, NoOne) /\ Spares(u, s) /\ (Tight(u) => Tight(s))
  BY <1>1, SettledSpares
<1>3. Strikes(t, s, a)
  BY <1>2, SparesMore
<1>4. /\ Tends(Returned(u), NoOne) /\ Steady(u, Returned(u))
      /\ (Tight(u) => Tight(Returned(u)))
  BY ReturnedSteady
<1>5. /\ Tends(Returned(s), NoOne) /\ Steady(s, Returned(s))
      /\ (Tight(s) => Tight(Returned(s)))
  BY <1>2, ReturnedSteady
<1>6. Spares(u, Returned(u)) /\ Spares(s, Returned(s))
  BY <1>4, <1>5, SparesMore
<1>7. Strikes(t, Returned(u), a) /\ Strikes(t, Returned(s), a)
  BY <1>3, <1>6, SparesMore
<1> QED
  BY <1>1, <1>2, <1>4, <1>5, <1>7

\* Mail stays but for the prompt of who begins to work, or of who one handler stops.
MailGoesOn(t, u, a) == Begins(t, u) \/ Strikes(t, u, a) \/ Spares(t, u)

\* A launch or a prompt that fails strikes only its agent: what came before it keeps mail.
LEMMA ClosedStrikes ==
  ASSUME NEW t, Tends(t, NoOne), NEW a \in t.opening, ~Ending(t, a), NEW v, v = Closed(t, a)
  PROVE  /\ Tends(v, NoOne) /\ MailStays(t, v) /\ Idles(v, a) /\ v.going[a] = "no"
         /\ v.resume[a] = t.resume[a] /\ ~Ended(v, a)
         /\ (Tidy(t, a) => a \notin v.prompting) /\ (Neat(t, a) => Neat(v, a))
         /\ \A u : Strikes(v, u, a) => Strikes(t, u, a)
<1>0. t \in Teams /\ Sound(t, NoOne) /\ Posted(t) /\ a \in Agents
  BY DEF Tends, Good, Teams
<1>1. t.state[a] = "starting" /\ t.going[a] = "no"
  <2>1. t.state[a] = "starting"
    BY <1>0 DEF Sound, Opens
  <2> QED
    BY <1>0, <2>1 DEF Posted, PostedOf
<1>2. v \in Teams /\ Same(t, v) /\ SetAside(t, v, a)
  BY <1>0, LeftSame, AsideIs
<1>3. v.resume[a] = t.resume[a] /\ a \notin v.opening
  BY <1>0 DEF Closed, Teams
<1>4. Tends(v, NoOne) /\ MailStays(t, v) /\ v.going[a] = "no"
  BY <1>0, <1>1, <1>2, SetAsideTends
<1>5. Idles(v, a)
  <2>1. t.wait[a] = NoOne /\ t.question[a] = NoOne /\ a \notin t.resting
    BY <1>0, <1>1 DEF Sound, Waits, Asks, Rests
  <2> QED
    BY <1>0, <1>1, <1>2, <1>3, <2>1 DEF Idles, Same, Stays, Keeps, SameFrames, Known
<1>6. /\ v.state = t.state /\ v.parent = t.parent
      /\ \A b \in Agents : Ending(v, b) <=> Ending(t, b)
  BY <1>2 DEF Same, Stays, Keeps, SameFrames
<1>7. ~Ended(v, a)
  BY <1>1, <1>6 DEF Ended, EndedStates
<1>8. Ends(t, v)
  BY <1>6 DEF Ends, Known, Ended
<1>9. ASSUME NEW u, Strikes(v, u, a) PROVE Strikes(t, u, a)
  <2>1. ASSUME NEW b \in Agents, b # a PROVE SparesOf(t, u, b)
    <3>1. SparesOf(t, v, b)
      BY <1>2, <2>1, AlikeSpares DEF SetAside, Apart
    <3>2. SparesOf(v, u, b) /\ Ends(v, u)
      BY <1>9, <2>1 DEF Strikes
    <3> QED
      BY <1>8, <3>1, <3>2, SparesOfMore
  <2>2. Ends(t, u)
    BY <1>8, <1>9 DEF Strikes, Ends, Ended
  <2>3. Mail(t, a) \subseteq Mail(u, a) /\ ~MayGetPrompt(u, a) /\ Tidy(u, a)
    BY <1>0, <1>4, <1>9 DEF Strikes, MailStays
  <2> QED
    BY <2>1, <2>2, <2>3 DEF Strikes
<1>10. Tidy(t, a) => a \notin v.prompting
  BY <1>0, <1>1, <1>2 DEF Tidy, SetAside
<1>11. Neat(t, a) => Neat(v, a)
  BY <1>0, <1>2, NeatMore DEF SetAside
<1> QED
  BY <1>3, <1>4, <1>5, <1>7, <1>9, <1>10, <1>11

\* Launches, done or failed, keep mail.
LEMMA LaunchesTend ==
  ASSUME Tends(team, NoOne), Locals(team), NEW a \in Agents, LaunchDone(a) \/ LaunchFails(a)
  PROVE  /\ Tends(team', NoOne) /\ MailGoesOn(team, team', a) /\ Locals(team')
         /\ (Tight(team) => Tight(team'))
<1>0. Neat(team, a) /\ Tidy(team, a)
  BY DEF Neat, Locals
<1>1. CASE LaunchDone(a)
  <2>1. PICK u : u = Run(Launched(team, a), a)
    OBVIOUS
  <2>2. a \in team.opening /\ team' = Returned(u)
    BY <1>1, <2>1 DEF LaunchDone, Becomes, Launched
  <2>3. Tends(u, NoOne) /\ Begins(team, u) /\ Locals(u) /\ (Tight(team) => Tight(u))
    BY <1>0, <2>1, <2>2, LaunchTends
  <2> QED
    BY <2>2, <2>3, BecomesTends DEF MailGoesOn
<1>2. CASE LaunchFails(a)
  <2>1. PICK v : v = Closed(team, a)
    OBVIOUS
  <2>2. a \in team.opening /\ ~Ending(team, a)
    BY <1>2 DEF LaunchFails
  <2>3. /\ Tends(v, NoOne) /\ MailStays(team, v) /\ Idles(v, a) /\ v.going[a] = "no"
        /\ v.resume[a] = team.resume[a] /\ ~Ended(v, a)
        /\ a \notin v.prompting /\ Neat(v, a)
        /\ \A u : Strikes(v, u, a) => Strikes(team, u, a)
    BY <1>0, <2>1, <2>2, ClosedStrikes
  <2>4. \/ team' = Returned(FallBack(v, a)) \/ team' = Returned(Settled(FailRun(v, a)))
        \/ team' = Returned(ResumeFailed(v, a))
        \/ team.resume[a] = {} /\ team' = Returned(Settled(Fail(v, a)))
    BY <1>2, <2>1 DEF LaunchFails, Closed, Becomes
  <2>5. CASE team' = Returned(FallBack(v, a))
    <3>1. PICK u : u = FallBack(v, a)
      OBVIOUS
    <3>2. Tends(u, NoOne) /\ Begins(v, u) /\ Locals(u) /\ Tight(u)
      BY <2>3, <3>1, FallBackTends
    <3>3. Begins(team, u)
      BY <2>3, <3>2, BeginsMore
    <3> QED
      BY <2>5, <3>1, <3>2, <3>3, BecomesTends DEF MailGoesOn
  <2>6. CASE team' = Returned(ResumeFailed(v, a))
    <3>1. PICK u : u = ResumeFailed(v, a)
      OBVIOUS
    <3>2. Tends(u, NoOne) /\ Begins(v, u) /\ Locals(u) /\ Tight(u)
      BY <2>3, <3>1, ResumeFailedTends
    <3>3. Begins(team, u)
      BY <2>3, <3>2, BeginsMore
    <3> QED
      BY <2>6, <3>1, <3>2, <3>3, BecomesTends DEF MailGoesOn
  <2>7. CASE team' = Returned(Settled(FailRun(v, a)))
    <3>1. PICK u : u = FailRun(v, a)
      OBVIOUS
    <3>2. Tends(u, NoOne) /\ Strikes(v, u, a) /\ Tight(u)
      BY <2>3, <3>1, FailRunStrikes
    <3>3. Strikes(team, u, a)
      BY <2>3, <3>2
    <3>4. PICK w : w = team'
      OBVIOUS
    <3>5. Tends(w, NoOne) /\ Strikes(team, w, a) /\ Tight(w)
      BY <2>7, <3>1, <3>2, <3>3, <3>4, StruckTends
    <3>6. Locals(w)
      BY <1>0, <3>5, SparesMore
    <3> QED
      BY <3>4, <3>5, <3>6 DEF MailGoesOn
  <2>8. CASE team.resume[a] = {} /\ team' = Returned(Settled(Fail(v, a)))
    <3>1. PICK u : u = Fail(v, a)
      OBVIOUS
    <3>2. Tends(u, NoOne) /\ Strikes(v, u, a) /\ Tight(u)
      BY <2>3, <2>8, <3>1, FailStrikes
    <3>3. Strikes(team, u, a)
      BY <2>3, <3>2
    <3>4. PICK w : w = team'
      OBVIOUS
    <3>5. Tends(w, NoOne) /\ Strikes(team, w, a) /\ Tight(w)
      BY <2>8, <3>1, <3>2, <3>3, <3>4, StruckTends
    <3>6. Locals(w)
      BY <1>0, <3>5, SparesMore
    <3> QED
      BY <3>4, <3>5, <3>6 DEF MailGoesOn
  <2> QED
    BY <2>4, <2>5, <2>6, <2>7, <2>8
<1> QED
  BY <1>1, <1>2

\* So do prompts that fail.
LEMMA FailuresTend ==
  ASSUME Tends(team, NoOne), Locals(team), NEW a \in Agents, PromptFails(a)
  PROVE  /\ Tends(team', NoOne) /\ MailGoesOn(team, team', a) /\ Locals(team')
         /\ (Tight(team) => Tight(team'))
<1>0. Neat(team, a)
  BY DEF Neat, Locals
<1>1. Acting(team, a) /\ ~Ending(team, a) /\ Good(team, NoOne)
  BY DEF PromptFails, Tends
<1>2. Idles(team, a) /\ team.going[a] = "no"
  BY <1>1, ActingIdles, ActingPosted
<1>3. ~Ended(team, a)
  BY <1>1 DEF Acting, Prompted, Ended, EndedStates
<1>4. CASE team' = Returned(FallBack(team, a))
  <2>1. PICK u : u = FallBack(team, a)
    OBVIOUS
  <2>2. Tends(u, NoOne) /\ Begins(team, u) /\ Locals(u) /\ Tight(u)
    BY <1>0, <1>2, <2>1, FallBackTends
  <2> QED
    BY <1>4, <2>1, <2>2, BecomesTends DEF MailGoesOn
<1>5. CASE team' = Returned(Settled(FailRun(team, a)))
  <2>1. PICK u : u = FailRun(team, a)
    OBVIOUS
  <2>2. Tends(u, NoOne) /\ Strikes(team, u, a) /\ Tight(u)
    BY <1>2, <1>3, <2>1, FailRunStrikes
  <2>3. PICK v : v = team'
    OBVIOUS
  <2>4. Tends(v, NoOne) /\ Strikes(team, v, a) /\ Tight(v)
    BY <1>5, <2>1, <2>2, <2>3, StruckTends
  <2>5. Locals(v)
    BY <1>0, <2>4, SparesMore
  <2> QED
    BY <2>3, <2>4, <2>5 DEF MailGoesOn
<1> QED
  BY <1>4, <1>5 DEF PromptFails, Becomes

\* So do stops, by a tool or the user,
LEMMA StopsTend ==
  ASSUME Tends(team, NoOne), Locals(team), NEW a \in Agents, NEW by \in Actors \cup {NoOne},
         StopAgent(by, a)
  PROVE  /\ Tends(team', NoOne) /\ MailGoesOn(team, team', a) /\ Locals(team')
         /\ (Tight(team) => Tight(team'))
<1>1. PICK p : p = Stop(team, a, by)
  OBVIOUS
<1>2. Tends(p, NoOne) /\ Strikes(team, p, a) /\ Tight(p)
  BY <1>1, StopStrikes DEF StopAgent
<1>3. PICK s : s = Settled(p)
  OBVIOUS
<1>4. Tends(s, NoOne) /\ Spares(p, s) /\ Tight(s)
  BY <1>2, <1>3, SettledSpares
<1>5. PICK c : c = CallWaits(s, by, a)
  OBVIOUS
<1>6. Tends(c, NoOne) /\ Steady(s, c) /\ Tight(c)
  <2>1. CASE by \in Agents /\ Ending(s, a)
    <3>1. c = CallsStop(s, by, a)
      BY <1>5, <2>1 DEF CallWaits, CallsStop
    <3>2. c \in Teams /\ Same(s, c)
      BY <1>4, <2>1, <3>1, ReadSame DEF Tends, Good
    <3>3. Alike(s, c)
      BY <1>4, <3>1 DEF CallsStop, Tends, Good, Teams, Alike, AlikeOf, Ending
    <3>4. Tight(c)
      <4>1. s \in Teams
        BY <1>4 DEF Tends, Good
      <4>2. c.ran = s.ran
        BY <3>1, <4>1 DEF CallsStop, Teams
      <4> QED
        BY <1>4, <3>2, <4>1, <4>2, SameTight
    <3> QED
      BY <1>4, <3>2, <3>3, <3>4, AlikeSteady
  <2>2. CASE ~(by \in Agents /\ Ending(s, a))
    BY <1>4, <1>5, <2>2, SteadyMore DEF CallWaits, Steady
  <2> QED
    BY <2>1, <2>2
<1>7. PICK v : v = Returned(c)
  OBVIOUS
<1>8. Tends(v, NoOne) /\ Steady(c, v) /\ Tight(v)
  BY <1>6, <1>7, ReturnedSteady
<1>9. Strikes(team, v, a)
  BY <1>2, <1>4, <1>6, <1>8, SparesMore
<1>10. team' = v
  BY <1>1, <1>3, <1>5, <1>7 DEF StopAgent, Becomes
<1>11. Locals(v)
  BY <1>9, NeatMore, SparesMore
<1> QED
  BY <1>8, <1>9, <1>10, <1>11 DEF MailGoesOn

\* and aborts that settle.
LEMMA AbortsTend ==
  ASSUME Tends(team, NoOne), Locals(team), NEW a \in Agents, Aborted(a)
  PROVE  /\ Tends(team', NoOne) /\ MailGoesOn(team, team', a) /\ Locals(team')
         /\ (Tight(team) => Tight(team'))
<1>1. PICK e : e = EndStop(team, a)
  OBVIOUS
<1>2. Tends(e, NoOne) /\ Spares(team, e) /\ Tight(e)
  BY <1>1, EndStopSpares DEF Aborted
<1>3. PICK s : s = Settled(e)
  OBVIOUS
<1>4. Tends(s, NoOne) /\ Spares(e, s) /\ Tight(s)
  BY <1>2, <1>3, SettledSpares
<1>5. PICK v : v = Returned(s)
  OBVIOUS
<1>6. Tends(v, NoOne) /\ Steady(s, v) /\ Tight(v)
  BY <1>4, <1>5, ReturnedSteady
<1>7. Spares(team, v)
  BY <1>2, <1>4, <1>6, SparesMore
<1>8. team' = v
  BY <1>1, <1>3, <1>5 DEF Aborted, Becomes
<1>9. Locals(v)
  BY <1>7, SparesMore
<1> QED
  BY <1>6, <1>7, <1>8, <1>9 DEF MailGoesOn

\* Nobody has mail or owes anything at first.
LEMMA StartsTends == Init => Tends(team, NoOne) /\ Snug(team)
<1> SUFFICES ASSUME Init PROVE Tends(team, NoOne) /\ Snug(team)
  OBVIOUS
<1>1. Good(team, NoOne)
  BY StartsGood
<1>2. /\ team.state = [a \in Agents |-> "none"] /\ team.going = [a \in Agents |-> "no"]
      /\ team.question = [a \in Agents |-> NoOne] /\ team.resume = [a \in Agents |-> {}]
      /\ team.owed = [a \in Agents |-> {}] /\ team.stop = [a \in Agents |-> <<>>]
      /\ team.prompting = {} /\ team.held = [a \in Agents |-> FALSE]
      /\ team.blocking = [a \in Agents |-> FALSE] /\ team.line = <<>>
  BY DEF Init, NoAgents
<1>3. Posted(team)
  BY <1>2 DEF Posted, PostedOf
<1>4. Debts(team) /\ Todo(team)
  BY <1>2 DEF Debts, Todo, Ending
<1>5. Locals(team)
  BY <1>2 DEF Locals, Tidy, Ending
<1>6. Tight(team)
  BY <1>2 DEF Tight
<1> QED
  BY <1>1, <1>3, <1>4, <1>5, <1>6 DEF Tends, Snug

\* What a step of the team keeps.
MailStep ==
    \A a \in Agents : \/ Mail(team, a) \subseteq Mail(team', a)
                      \/ Prompted(team', a)
                      \/ GoesAndStops(a)

\* Each way to go on keeps it.
LEMMA MailKeptBy ==
  ASSUME NEW a \in Agents, MailGoesOn(team, team', a)
  PROVE  MailStep
<1>1. Begins(team, team') => MailStep
  BY DEF Begins, Works, MailStep
<1>2. Strikes(team, team', a) \/ Spares(team, team') => MailStep
  BY StrikesKeep DEF MailStep
<1> QED
  BY <1>1, <1>2 DEF MailGoesOn

\* Every step of the team tends it and keeps mail, action by action.
LEMMA StepsTend ==
  Tends(team, NoOne) /\ Snug(team) /\ [Next]_vars
      => Tends(team, NoOne)' /\ Snug(team)' /\ (MailStep \/ UNCHANGED vars)
<1> SUFFICES ASSUME Tends(team, NoOne), Snug(team), [Next]_vars
             PROVE  Tends(team', NoOne) /\ Snug(team') /\ (MailStep \/ UNCHANGED vars)
  BY DEF NoOne
<1>1. Begins(team, team') => MailStep
  BY DEF Begins, Works, MailStep
<1>2. ASSUME NEW by \in Actors, Spawn(by) PROVE Tends(team', NoOne) /\ Snug(team') /\ MailStep
  BY <1>1, <1>2, CallsTend DEF Snug
<1>3. ASSUME NEW from \in Actors, NEW to \in Actors, Message(from, to)
      PROVE  Tends(team', NoOne) /\ Snug(team') /\ MailStep
  BY <1>1, <1>3, CallsTend DEF Snug
<1>4. ASSUME NEW a \in Agents,
             \/ SessionReads(a) \/ PromptEnds(a) \/ IdleRelease(a) \/ QuestionEnds(a)
             \/ RestBegins(a) \/ RestEnds(a)
      PROVE  Tends(team', NoOne) /\ Snug(team') /\ MailStep
  BY <1>1, <1>4, PromptsTend DEF Snug
<1>5. ASSUME NEW a \in Agents, PromptFails(a)
      PROVE  Tends(team', NoOne) /\ Snug(team') /\ MailStep
  BY <1>5, FailuresTend, MailKeptBy DEF Snug
<1>6. ASSUME NEW a \in Agents, LaunchDone(a) \/ LaunchFails(a)
      PROVE  Tends(team', NoOne) /\ Snug(team') /\ MailStep
  BY <1>6, LaunchesTend, MailKeptBy DEF Snug
<1>7. ASSUME NEW a \in Agents, NEW by \in Actors \cup {NoOne}, StopAgent(by, a)
      PROVE  Tends(team', NoOne) /\ Snug(team') /\ MailStep
  BY <1>7, StopsTend, MailKeptBy DEF Snug
<1>8. ASSUME NEW a \in Agents, Aborted(a) PROVE Tends(team', NoOne) /\ Snug(team') /\ MailStep
  BY <1>8, AbortsTend, MailKeptBy DEF Snug
<1>9. CASE UNCHANGED vars
  BY <1>9 DEF vars
<1> QED
  BY <1>2, <1>3, <1>4, <1>5, <1>6, <1>7, <1>8, <1>9 DEF Next

\* Mail leaves the queues of an agent only into a prompt or the session of a run that goes on:
\* no stop, failure or launch that will not go drops it (resume-prompts.ts), for any numbers of
\* agents, slots and messages.
THEOREM MailIsKeptHolds == MCSpec => MailIsKept
<1>1. MCInit => Tends(team, NoOne) /\ Snug(team)
  BY StartsTends DEF MCInit
<1>2. Tends(team, NoOne) /\ Snug(team) /\ [MCNext]_<<part, vars, leaseVars>>
        => /\ Tends(team, NoOne)' /\ Snug(team)'
           /\ [\A a \in Agents : \/ Mail(team, a) \subseteq Mail(team', a)
                                \/ Prompted(team', a)
                                \/ GoesAndStops(a)]_vars
  <2> SUFFICES ASSUME Tends(team, NoOne), Snug(team), [MCNext]_<<part, vars, leaseVars>>
               PROVE  Tends(team, NoOne)' /\ Snug(team)' /\ [MailStep]_vars
    BY DEF MailStep
  <2>1. [Next]_vars
    BY DEF MCNext
  <2> QED
    BY <2>1, StepsTend
<1> QED
  BY <1>1, <1>2, PTL DEF MCSpec, MailIsKept

\* While no stop is on its way, no slot is free for an agent in the line that may take it: every
\* handler that frees one serves the line (run-scheduler.ts), for any numbers of agents and slots.
THEOREM NoIdleSlotHolds == MCSpec => []NoIdleSlot
<1>1. MCInit => Tends(team, NoOne) /\ Snug(team)
  BY StartsTends DEF MCInit
<1>2. Tends(team, NoOne) /\ Snug(team) /\ [MCNext]_<<part, vars, leaseVars>>
        => Tends(team, NoOne)' /\ Snug(team)'
  <2> SUFFICES ASSUME Tends(team, NoOne), Snug(team), [MCNext]_<<part, vars, leaseVars>>
               PROVE  Tends(team, NoOne)' /\ Snug(team)'
    OBVIOUS
  <2>1. [Next]_vars
    BY DEF MCNext
  <2> QED
    BY <2>1, StepsTend
<1>3. Snug(team) => NoIdleSlot
  BY DEF Snug, Tight, Calm, NoIdleSlot
<1> QED
  BY <1>1, <1>2, <1>3, PTL DEF MCSpec

------------------------------------------------------------------------------
(* Everyone is driven *)

\* a stands in the line l, and nobody stands in it twice.
Has(l, a) == \E i \in 1 .. Len(l) : l[i] = a
Once(l) == \A i, j \in 1 .. Len(l) : l[i] = l[j] => i = j

\* In the line stand those that are queued, each once.
Placed(t) == Once(t.line) /\ \A a \in Agents : Has(t.line, a) <=> t.state[a] = "queued"

\* The states of those that are set to work.
Moving == {"queued", "starting", "running"}

\* Who moves is set to work, no stop begins or ends or becomes that of another run unless the agent
\* was set to work, and no answer is forgotten but those of `gone`.
Backs(t, u, gone) ==
    /\ u.parent = t.parent /\ u.silent = t.silent
    /\ \A b \in Agents :
          /\ u.state[b] = t.state[b] \/ u.state[b] \in Moving
          /\ Ending(u, b) <=> Ending(t, b)
          /\ Ending(t, b) => u.stop[b][1].own = t.stop[b][1].own \/ u.state[b] \in Moving
          /\ t.owed[b] \ gone \subseteq u.owed[b]

\* And the line stays in order.
Carries(t, u) == Backs(t, u, {}) /\ (Placed(t) => Placed(u))

\* One after another.
LEMMA BacksMore ==
  ASSUME NEW t, NEW u, NEW v, NEW S, NEW T
  PROVE  /\ Backs(t, t, S) /\ (Backs(t, u, {}) => Backs(t, u, S))
         /\ Backs(t, u, S) /\ Backs(u, v, S) => Backs(t, v, S)
<1>1. Backs(t, t, S) /\ (Backs(t, u, {}) => Backs(t, u, S))
  BY DEF Backs
<1>2. ASSUME Backs(t, u, S), Backs(u, v, S), NEW b \in Agents
      PROVE  /\ v.state[b] = t.state[b] \/ v.state[b] \in Moving
             /\ Ending(v, b) <=> Ending(t, b)
             /\ Ending(t, b) => v.stop[b][1].own = t.stop[b][1].own \/ v.state[b] \in Moving
             /\ t.owed[b] \ S \subseteq v.owed[b]
  <2>1. /\ u.state[b] = t.state[b] \/ u.state[b] \in Moving
        /\ Ending(u, b) <=> Ending(t, b)
        /\ Ending(t, b) => u.stop[b][1].own = t.stop[b][1].own \/ u.state[b] \in Moving
        /\ t.owed[b] \ S \subseteq u.owed[b]
    BY <1>2 DEF Backs
  <2>2. /\ v.state[b] = u.state[b] \/ v.state[b] \in Moving
        /\ Ending(v, b) <=> Ending(u, b)
        /\ Ending(u, b) => v.stop[b][1].own = u.stop[b][1].own \/ v.state[b] \in Moving
        /\ u.owed[b] \ S \subseteq v.owed[b]
    BY <1>2 DEF Backs
  <2> QED
    BY <2>1, <2>2
<1>3. Backs(t, u, S) /\ Backs(u, v, S) => v.parent = t.parent /\ v.silent = t.silent
  BY DEF Backs
<1> QED
  BY <1>1, <1>2, <1>3 DEF Backs

\* And with the line.
LEMMA CarriesMore ==
  ASSUME NEW t, NEW u, NEW v
  PROVE  Carries(t, t) /\ (Carries(t, u) /\ Carries(u, v) => Carries(t, v))
BY BacksMore DEF Carries

\* What is not about them.
LEMMA AsideCarries ==
  ASSUME NEW t, NEW u, u.parent = t.parent, u.silent = t.silent, u.owed = t.owed, u.stop = t.stop,
         u.state = t.state
  PROVE  Backs(t, u, {}) /\ (u.line = t.line => Carries(t, u))
BY DEF Backs, Carries, Placed, Ending

\* Going on leaves what is owed, and the stops, alone.
LEMMA GoBacks ==
  ASSUME NEW t \in Teams, NEW x, Sound(t, x), Posted(t), NEW a \in Agents, t.state[a] = "queued",
         NEW how, how = t.going[a], how # "no", NEW u, u = Go(Dropped(t, a), a, how)
  PROVE  Backs(t, u, {}) /\ u.state = [t.state EXCEPT ![a] = "running"]
<1>1. u.state = [t.state EXCEPT ![a] = "running"] /\ Keeps(t, u)
  BY GoRuns
<1>2. PICK v : v = Dropped(t, a)
  OBVIOUS
<1>3. v \in Teams /\ v.silent = t.silent /\ v.owed = t.owed /\ v.stop = t.stop
  BY <1>2 DEF Teams, Dropped
<1>4. u.silent = t.silent /\ u.owed = t.owed /\ u.stop = t.stop
  <2>1. CASE how = "on"
    <3>1. u = [v EXCEPT !.state[a] = "running"]
      BY <1>2, <2>1 DEF Go
    <3> QED
      BY <1>3, <3>1 DEF Teams
  <2>2. CASE how = "rest"
    <3>1. PICK w : w = Onwards(v, a)
      OBVIOUS
    <3>2. w \in Teams /\ w.silent = v.silent /\ w.owed = v.owed /\ w.stop = v.stop
      <4>1. w \in Teams
        BY <1>3, <3>1, RunningIs
      <4> QED
        BY ZenonT(40), <1>3, <3>1, <4>1 DEF Onwards, Teams
    <3>3. u = SteerInbox(w, a)
      BY <1>2, <2>2, <3>1 DEF Go, Onwards
    <3> QED
      BY <1>3, <3>2, <3>3 DEF SteerInbox, Teams
  <2>3. CASE how = "run"
    <3>1. PICK w : w = [v EXCEPT !.inbox[a] = {}]
      OBVIOUS
    <3>2. w \in Teams /\ w.silent = v.silent /\ w.owed = v.owed /\ w.stop = v.stop
      BY <1>3, <3>1 DEF Teams
    <3>3. u = Run(w, a)
      BY <1>2, <2>3, <3>1 DEF Go
    <3> QED
      BY <1>3, <3>2, <3>3 DEF Run, Teams
  <2>4. how \in {"on", "run", "rest"}
    BY DEF Teams
  <2> QED
    BY <2>1, <2>2, <2>3, <2>4
<1>5. \A b \in Agents : u.state[b] = t.state[b] \/ u.state[b] \in Moving
  BY <1>1 DEF Teams, Moving
<1> QED
  BY <1>1, <1>4, <1>5 DEF Backs, Keeps, Ending

\* Starting makes the stop of the last run that of another.
LEMMA StartBacks ==
  ASSUME NEW t \in Teams, NEW a \in Agents, NEW u, u = Start(t, a)
  PROVE  Backs(t, u, {}) /\ u.state = [t.state EXCEPT ![a] = "starting"]
<1>1. u.state = [t.state EXCEPT ![a] = "starting"] /\ Keeps(t, u)
  BY StartLeaves
<1>2. u.silent = t.silent /\ u.owed = t.owed
  BY DEF Start, Teams
<1>3. u.stop = [t.stop EXCEPT ![a] = IF @ = <<>> THEN @ ELSE <<[@[1] EXCEPT !.own = FALSE]>>]
  BY DEF Start, Teams
<1>4. \A b \in Agents : b # a => u.stop[b] = t.stop[b] /\ u.state[b] = t.state[b]
  BY <1>1, <1>3 DEF Teams
<1>5. u.state[a] = "starting" /\ u.state[a] \in Moving
  BY <1>1 DEF Teams, Moving
<1>6. \A b \in Agents : u.state[b] = t.state[b] \/ u.state[b] \in Moving
  BY <1>4, <1>5 DEF Moving
<1> QED
  BY <1>1, <1>2, <1>4, <1>5, <1>6 DEF Backs, Keeps, SameFrames

\* What the walk along the line knows of it: of the positions s it has taken, the queued stay in
\* the line, and those at the other ones are queued still.
Sorted(t0, acc, s) ==
    /\ Backs(t0, acc.team, {})
    /\ Placed(t0) =>
          /\ Once(acc.kept)
          /\ \A j \in 1 .. Len(acc.kept) : \E i \in s : acc.kept[j] = t0.line[i]
          /\ \A i \in s : acc.team.state[t0.line[i]] = "queued" <=> Has(acc.kept, t0.line[i])
          /\ \A i \in (1 .. Len(t0.line)) \ s : acc.team.state[t0.line[i]] = "queued"

\* Who is last in the line is in it.
LEMMA AppendHas ==
  ASSUME NEW l \in Seq(Agents), NEW a \in Agents, NEW m, m = Append(l, a)
  PROVE  /\ \A b \in Agents : Has(m, b) <=> Has(l, b) \/ b = a
         /\ ~Has(l, a) => (Once(l) => Once(m))
         /\ \A j \in 1 .. Len(m) : m[j] = a \/ (j \in 1 .. Len(l) /\ m[j] = l[j])
<1>1. Len(m) = Len(l) + 1 /\ m[Len(l) + 1] = a /\ Len(l) \in Nat /\ \A i \in 1 .. Len(l) : m[i] = l[i]
  OBVIOUS
<1>2. \A j \in 1 .. Len(m) : j \in 1 .. Len(l) \/ j = Len(l) + 1
  BY <1>1
<1>3. \A j \in 1 .. Len(l) : j \in 1 .. Len(m)
  BY <1>1
<1>4. Len(l) + 1 \in 1 .. Len(m)
  BY <1>1
<1>5. \A b \in Agents : Has(m, b) <=> Has(l, b) \/ b = a
  BY <1>1, <1>2, <1>3, <1>4 DEF Has
<1>6. ASSUME ~Has(l, a), Once(l) PROVE Once(m)
  <2> SUFFICES ASSUME NEW i \in 1 .. Len(m), NEW j \in 1 .. Len(m), m[i] = m[j] PROVE i = j
    BY DEF Once
  <2>1. i \in 1 .. Len(l) => m[i] = l[i] /\ l[i] # a
    BY <1>1, <1>6 DEF Has
  <2>2. j \in 1 .. Len(l) => m[j] = l[j] /\ l[j] # a
    BY <1>1, <1>6 DEF Has
  <2> QED
    BY <1>1, <1>2, <1>6, <2>1, <2>2 DEF Once
<1> QED
  BY <1>1, <1>2, <1>5, <1>6

\* A step of it.
LEMMA LetGoSorted ==
  ASSUME NEW t0 \in Teams, NEW x, NEW s \in SUBSET (1 .. Len(t0.line)),
         NEW i \in (1 .. Len(t0.line)) \ s, NEW acc \in Taken(t0, x, s), Posted(acc.team),
         Sorted(t0, acc, s), NEW a, a = t0.line[i], NEW new, new = LetGo(acc, a)
  PROVE  Sorted(t0, new, s \cup {i})
<1> DEFINE t == acc.team
           how == t.going[a]
           r == s \cup {i}
<1>1. acc \in Walk /\ t \in Teams /\ Sound(t, x) /\ acc.kept \in Seq(Agents) /\ a \in Agents
  BY DEF Taken, Walk, Teams
<1>2. ASSUME Placed(t0)
      PROVE  /\ t.state[a] = "queued" /\ ~Has(acc.kept, a)
             /\ \A k \in (1 .. Len(t0.line)) : k # i => t0.line[k] # a
  <2>1. \A k \in (1 .. Len(t0.line)) : k # i => t0.line[k] # a
    BY <1>2 DEF Placed, Once
  <2> QED
    BY <1>2, <2>1 DEF Sorted, Has
<1>3. CASE new = [acc EXCEPT !.kept = Append(@, a)]
  <2>1. new.team = t /\ new.kept = Append(acc.kept, a)
    BY <1>1, <1>3 DEF Walk
  <2> SUFFICES ASSUME Placed(t0)
               PROVE  /\ Once(new.kept)
                      /\ \A j \in 1 .. Len(new.kept) : \E k \in r : new.kept[j] = t0.line[k]
                      /\ \A k \in r : t.state[t0.line[k]] = "queued" <=> Has(new.kept, t0.line[k])
                      /\ \A k \in (1 .. Len(t0.line)) \ r : t.state[t0.line[k]] = "queued"
    BY <2>1 DEF Sorted
  <2>2. Once(new.kept)
    BY <1>1, <1>2, <2>1, AppendHas DEF Sorted
  <2>3. ASSUME NEW j \in 1 .. Len(new.kept) PROVE \E k \in r : new.kept[j] = t0.line[k]
    <3>1. new.kept[j] = a \/ (j \in 1 .. Len(acc.kept) /\ new.kept[j] = acc.kept[j])
      BY <1>1, <2>1, AppendHas
    <3> QED
      BY <3>1 DEF Sorted
  <2>4. ASSUME NEW k \in r PROVE t.state[t0.line[k]] = "queued" <=> Has(new.kept, t0.line[k])
    <3>1. PICK l \in Seq(Agents) : l = acc.kept
      BY <1>1
    <3>2. PICK m : m = Append(l, a)
      OBVIOUS
    <3>3. Has(m, t0.line[k]) <=> Has(l, t0.line[k]) \/ t0.line[k] = a
      <4>1. t0.line[k] \in Agents
        BY DEF Teams
      <4>2. a \in Agents
        BY <1>1
      <4>3. PICK b \in Agents : b = t0.line[k]
        BY <4>1
      <4>4. Has(m, b) <=> Has(l, b) \/ b = a
        BY ONLY <3>2, <4>2, AppendHas
      <4> QED
        BY <4>3, <4>4
    <3>4. m = new.kept
      BY <2>1, <3>1, <3>2
    <3>5. Has(new.kept, t0.line[k]) <=> Has(acc.kept, t0.line[k]) \/ t0.line[k] = a
      BY <3>1, <3>3, <3>4
    <3> QED
      BY <1>2, <3>5 DEF Sorted
  <2> QED
    BY <2>2, <2>3, <2>4 DEF Sorted
<1>4. CASE t.state[a] # "queued" /\ new = [acc EXCEPT !.team.going[a] = "no"]
  <2>1. new.team = [t EXCEPT !.going[a] = "no"] /\ new.kept = acc.kept
    BY <1>1, <1>4 DEF Walk
  <2>2. Backs(t, new.team, {})
    BY <1>1, <2>1, AsideCarries DEF Teams
  <2>3. Backs(t0, new.team, {})
    BY <2>2, BacksMore DEF Sorted
  <2> QED
    BY <1>2, <1>4, <2>3 DEF Sorted
<1>5. ASSUME NEW u, Backs(t, u, {}), NEW v \in ActiveStates, u.state = [t.state EXCEPT ![a] = v],
             new.team = u, new.kept = acc.kept
      PROVE  Sorted(t0, new, r)
  <2>1. Backs(t0, u, {})
    BY <1>5, BacksMore DEF Sorted
  <2>2. u.state[a] # "queued" /\ \A b \in Agents : b # a => u.state[b] = t.state[b]
    BY <1>1, <1>5 DEF Teams, ActiveStates
  <2>3. \A k \in 1 .. Len(t0.line) : t0.line[k] \in Agents
    BY DEF Teams
  <2> SUFFICES ASSUME Placed(t0)
               PROVE  /\ Once(new.kept)
                      /\ \A j \in 1 .. Len(new.kept) : \E k \in r : new.kept[j] = t0.line[k]
                      /\ \A k \in r :
                            new.team.state[t0.line[k]] = "queued" <=> Has(new.kept, t0.line[k])
                      /\ \A k \in (1 .. Len(t0.line)) \ r : new.team.state[t0.line[k]] = "queued"
    <3> HIDE DEF r
    <3> QED BY <1>5, <2>1 DEF Sorted
  <2>4. /\ Once(acc.kept)
        /\ \A j \in 1 .. Len(acc.kept) : \E k \in s : acc.kept[j] = t0.line[k]
        /\ \A k \in s : t.state[t0.line[k]] = "queued" <=> Has(acc.kept, t0.line[k])
        /\ \A k \in (1 .. Len(t0.line)) \ s : t.state[t0.line[k]] = "queued"
    BY DEF Sorted
  <2>5. \A k \in 1 .. Len(t0.line) : k # i => new.team.state[t0.line[k]] = t.state[t0.line[k]]
    BY <1>2, <1>5, <2>2, <2>3
  <2>6. new.team.state[a] # "queued" /\ ~Has(new.kept, a)
    BY <1>2, <1>5, <2>2
  <2>7. ASSUME NEW k \in r PROVE new.team.state[t0.line[k]] = "queued" <=> Has(new.kept, t0.line[k])
    BY <1>5, <2>4, <2>5, <2>6
  <2> QED
    BY <1>5, <2>4, <2>5, <2>7
<1>6. CASE /\ t.state[a] = "queued" /\ how # "no"
           /\ new = [acc EXCEPT !.active = @ + 1, !.team = Go([t EXCEPT !.going[a] = "no"], a, how)]
  <2>1. PICK u : u = Go(Dropped(t, a), a, how)
    OBVIOUS
  <2>2. new.team = u /\ new.kept = acc.kept
    BY <1>1, <1>6, <2>1 DEF Walk, Dropped
  <2>3. Backs(t, u, {}) /\ u.state = [t.state EXCEPT ![a] = "running"]
    <3>1. PICK way : way = how
      OBVIOUS
    <3> QED
      BY SMTT(30), <1>1, <1>6, <2>1, <3>1, GoBacks
  <2> QED
    BY <1>5, <2>2, <2>3 DEF ActiveStates
<1>7. CASE /\ t.state[a] = "queued" /\ how = "no"
           /\ new = [acc EXCEPT !.active = @ + 1, !.team = Start(t, a)]
  <2>1. PICK u : u = Start(t, a)
    OBVIOUS
  <2>2. new.team = u /\ new.kept = acc.kept
    BY <1>1, <1>7, <2>1 DEF Walk
  <2>3. Backs(t, u, {}) /\ u.state = [t.state EXCEPT ![a] = "starting"]
    BY <1>1, <2>1, StartBacks
  <2> QED
    BY <1>5, <2>2, <2>3 DEF ActiveStates
<1> QED
  BY <1>3, <1>4, <1>6, <1>7 DEF LetGo

\* pump keeps the line in order.
LEMMA PumpCarries ==
  ASSUME NEW t0 \in Teams, NEW x, Sound(t0, x), Posted(t0), NEW u, u = Pump(t0)
  PROVE  Carries(t0, u)
<1> DEFINE n == Len(t0.line)
           X == [s \in SUBSET (1 .. n) |->
                   {acc \in Taken(t0, x, s) : Posted(acc.team) /\ Sorted(t0, acc, s)}]
           x0 == [team |-> t0, active |-> Used(t0), kept |-> <<>>]
           end == FoldLeft(LetGo, x0, t0.line)
<1>1. t0.line \in Seq(Agents) /\ n \in Nat /\ DOMAIN t0.line = 1 .. n
  BY DEF Teams
<1>2. x0 \in Taken(t0, x, {}) /\ Sorted(t0, x0, {})
  <2>1. x0 \in Taken(t0, x, {})
    BY StartsTaken
  <2>2. x0.team = t0 /\ x0.kept = <<>> /\ Len(<<>>) = 0
    OBVIOUS
  <2>3. Once(x0.kept)
    BY <2>2 DEF Once
  <2>4. \A i \in 1 .. Len(t0.line) : t0.line[i] \in Agents /\ Has(t0.line, t0.line[i])
    BY <1>1 DEF Has
  <2>5. Backs(t0, x0.team, {})
    BY <2>2, BacksMore
  <2>6. \A j \in 1 .. Len(x0.kept) : FALSE
    BY <2>2
  <2>7. Placed(t0) => \A i \in 1 .. Len(t0.line) : x0.team.state[t0.line[i]] = "queued"
    BY <2>2, <2>4 DEF Placed
  <2>8. Sorted(t0, x0, {})
    <3> HIDE DEF x0
    <3> QED BY <2>3, <2>5, <2>6, <2>7 DEF Sorted
  <2> QED
    BY <2>1, <2>8
<1>3. ASSUME NEW s \in SUBSET (1 .. n), NEW i \in (1 .. n) \ s, NEW acc \in X[s]
      PROVE  LetGo(acc, t0.line[i]) \in X[s \cup {i}]
  <2>1. /\ acc \in Taken(t0, x, s) /\ Posted(acc.team) /\ Sorted(t0, acc, s) /\ t0.line[i] \in Agents
    BY <1>1
  <2>2. PICK new, a : a = t0.line[i] /\ new = LetGo(acc, a)
    OBVIOUS
  <2>3. new \in Taken(t0, x, s \cup {i})
    BY <2>1, <2>2, LetGoKeeps
  <2>4. Posted(new.team)
    BY <2>1, <2>2, LetGoKept
  <2>5. Sorted(t0, new, s \cup {i})
    BY <2>1, <2>2, LetGoSorted
  <2>6. s \cup {i} \in SUBSET (1 .. n)
    OBVIOUS
  <2> QED
    BY <2>2, <2>3, <2>4, <2>5, <2>6
<1>4. x0 \in X[{}]
  BY <1>2
<1> HIDE DEF x0
<1>5. end \in X[1 .. n]
  <2> HIDE DEF X, n
  <2> QED BY <1>1, <1>3, <1>4, FoldLetGo
<1>6. end \in Taken(t0, x, 1 .. n) /\ Sorted(t0, end, 1 .. n)
  BY <1>5
<1>7. u = [end.team EXCEPT !.line = end.kept]
  BY DEF Pump, Pumped, x0
<1> HIDE DEF end
<1>8. PICK t : t = end.team
  OBVIOUS
<1>9. t \in Teams /\ Lets(t0, t)
  BY <1>6, <1>8 DEF Taken, Walk
<1>10. /\ u.line = end.kept /\ u.state = t.state /\ u.parent = t.parent /\ u.silent = t.silent
       /\ u.owed = t.owed /\ u.stop = t.stop
  BY <1>7, <1>8, <1>9 DEF Teams
<1>11. Backs(t0, u, {})
  <2>1. Backs(t, u, {})
    BY <1>10, AsideCarries
  <2> QED
    BY <1>6, <1>8, <2>1, BacksMore DEF Sorted
<1>12. ASSUME Placed(t0) PROVE Placed(u)
  <2>1. /\ Once(end.kept)
        /\ \A j \in 1 .. Len(end.kept) : \E i \in 1 .. n : end.kept[j] = t0.line[i]
        /\ \A i \in 1 .. n : t.state[t0.line[i]] = "queued" <=> Has(end.kept, t0.line[i])
    BY <1>6, <1>8, <1>12 DEF Sorted
  <2>2. ASSUME NEW b \in Agents, Has(end.kept, b) PROVE t.state[b] = "queued"
    <3>1. PICK j \in 1 .. Len(end.kept) : end.kept[j] = b
      BY <2>2 DEF Has
    <3> QED
      BY <2>1, <2>2, <3>1
  <2>3. ASSUME NEW b \in Agents, t.state[b] = "queued" PROVE Has(end.kept, b)
    <3>1. t0.state[b] = "queued"
      BY <1>9, <2>3 DEF Lets
    <3>2. Has(t0.line, b)
      BY <1>12, <3>1 DEF Placed
    <3>3. PICK i \in 1 .. n : t0.line[i] = b
      BY <3>2 DEF Has
    <3> QED
      BY <2>1, <2>3, <3>3
  <2> QED
    BY <1>10, <2>1, <2>2, <2>3 DEF Placed
<1> QED
  BY <1>11, <1>12 DEF Carries
\* m is l with a put in somewhere.
Spliced(l, m, a) ==
    \E at \in 1 .. Len(l) + 1 :
        /\ Len(m) = Len(l) + 1
        /\ \A i \in 1 .. Len(m) : m[i] = IF i < at THEN l[i] ELSE IF i = at THEN a ELSE l[i - 1]

\* It has a besides, and nobody twice if a was not in it.
LEMMA SplicedHas ==
  ASSUME NEW l \in Seq(Agents), NEW m \in Seq(Agents), NEW a \in Agents, Spliced(l, m, a)
  PROVE  /\ \A b \in Agents : Has(m, b) <=> Has(l, b) \/ b = a
         /\ ~Has(l, a) /\ Once(l) => Once(m)
         /\ Once(m) => Once(l) /\ ~Has(l, a)
<1> DEFINE n == Len(l)
<1>1. PICK at \in 1 .. n + 1 :
        /\ Len(m) = n + 1
        /\ \A i \in 1 .. Len(m) : m[i] = IF i < at THEN l[i] ELSE IF i = at THEN a ELSE l[i - 1]
  BY DEF Spliced
<1>2. n \in Nat /\ at \in Nat /\ 1 <= at /\ at <= n + 1 /\ Len(m) = n + 1
  BY <1>1
<1> HIDE DEF n
<1> DEFINE up(i) == IF i < at THEN i ELSE i + 1
<1>3. ASSUME NEW i \in 1 .. n PROVE up(i) \in 1 .. n + 1 /\ up(i) # at /\ m[up(i)] = l[i]
  <2>1. CASE i < at
    BY <1>1, <1>2, <2>1 DEF n
  <2>2. CASE ~(i < at)
    <3>1. i + 1 \in 1 .. n + 1 /\ ~(i + 1 < at) /\ i + 1 # at /\ i + 1 - 1 = i
      BY <1>2, <2>2
    <3>2. m[i + 1] = l[i + 1 - 1]
      BY <1>1, <1>2, <3>1
    <3> QED
      BY <2>2, <3>1, <3>2
  <2> QED
    BY <2>1, <2>2
<1>4. ASSUME NEW i \in 1 .. n, NEW j \in 1 .. n, up(i) = up(j) PROVE i = j
  BY <1>2, <1>4
<1>5. ASSUME NEW j \in 1 .. n + 1, j # at PROVE \E i \in 1 .. n : up(i) = j
  <2>1. CASE j < at
    <3>1. j \in 1 .. n /\ up(j) = j
      BY <1>2, <2>1
    <3> QED
      BY <3>1
  <2>2. CASE ~(j < at)
    <3>1. j - 1 \in 1 .. n /\ ~(j - 1 < at) /\ j - 1 + 1 = j
      BY <1>2, <1>5, <2>2
    <3> QED
      BY <3>1
  <2> QED
    BY <2>1, <2>2
<1>6. at \in 1 .. n + 1 /\ m[at] = a
  BY <1>1, <1>2
<1> HIDE DEF up
<1>7. ASSUME NEW b \in Agents PROVE Has(m, b) <=> Has(l, b) \/ b = a
  <2>1. ASSUME NEW j \in 1 .. n + 1, m[j] = b PROVE (\E i \in 1 .. n : l[i] = b) \/ b = a
    BY <1>3, <1>5, <1>6, <2>1
  <2>2. ASSUME NEW i \in 1 .. n, l[i] = b PROVE \E j \in 1 .. n + 1 : m[j] = b
    BY <1>3, <2>2
  <2> QED
    BY <1>2, <1>6, <2>1, <2>2 DEF Has, n
<1>8. ASSUME ~Has(l, a), Once(l), NEW i \in 1 .. n + 1, NEW j \in 1 .. n + 1, m[i] = m[j] PROVE i = j
  <2>1. \A k \in 1 .. n : l[k] # a
    BY <1>8 DEF Has, n
  <2>2. \A k, h \in 1 .. n : l[k] = l[h] => k = h
    BY <1>8 DEF Once, n
  <2>3. i # at => m[i] # a
    BY <1>3, <1>5, <2>1
  <2>4. j # at => m[j] # a
    BY <1>3, <1>5, <2>1
  <2>5. CASE i = at \/ j = at
    BY <1>6, <1>8, <2>3, <2>4, <2>5
  <2>6. CASE i # at /\ j # at
    BY <1>3, <1>5, <1>8, <2>2, <2>6
  <2> QED
    BY <2>5, <2>6
<1>9. ASSUME Once(m) PROVE Once(l) /\ ~Has(l, a)
  <2>1. \A k, h \in 1 .. n + 1 : m[k] = m[h] => k = h
    BY <1>2, <1>9 DEF Once
  <2>2. ASSUME NEW i \in 1 .. n, NEW j \in 1 .. n, l[i] = l[j] PROVE i = j
    BY <1>3, <1>4, <2>1, <2>2
  <2>3. ASSUME NEW i \in 1 .. n PROVE l[i] # a
    BY <1>3, <1>6, <2>1
  <2> QED
    BY <2>2, <2>3 DEF Once, Has, n
<1> QED
  BY <1>2, <1>7, <1>8, <1>9 DEF Once

\* Joining and leaving the line.
LEMMA Splices ==
  ASSUME NEW l \in Seq(Agents), NEW a \in Agents
  PROVE  /\ Append(l, a) \in Seq(Agents) /\ Spliced(l, Append(l, a), a)
         /\ <<a>> \o l \in Seq(Agents) /\ Spliced(l, <<a>> \o l, a)
<1> DEFINE n == Len(l)
<1>0. n \in Nat
  OBVIOUS
<1>1. PICK m : m = Append(l, a)
  OBVIOUS
<1>2. m \in Seq(Agents) /\ Len(m) = n + 1 /\ m[n + 1] = a /\ \A i \in 1 .. n : m[i] = l[i]
  BY <1>1
<1>3. Spliced(l, m, a)
  <2>1. n + 1 \in 1 .. n + 1 /\ \A i \in 1 .. n + 1 : i < n + 1 => i \in 1 .. n
    BY <1>0
  <2>2. \A i \in 1 .. n + 1 : ~(i < n + 1) => i = n + 1
    BY <1>0
  <2>3. \A i \in 1 .. Len(m) : m[i] = IF i < n + 1 THEN l[i] ELSE IF i = n + 1 THEN a ELSE l[i - 1]
    BY <1>2, <2>1, <2>2
  <2> HIDE DEF n
  <2>4. Len(l) = n
    BY DEF n
  <2> QED
    BY <1>2, <2>1, <2>3, <2>4 DEF Spliced
<1>4. PICK k : k = <<a>> \o l
  OBVIOUS
<1>5. k \in Seq(Agents) /\ Len(k) = n + 1 /\ k[1] = a /\ \A i \in 1 .. n : k[i + 1] = l[i]
  BY <1>4
<1>6. Spliced(l, k, a)
  <2>1. 1 \in 1 .. n + 1 /\ \A i \in 1 .. n + 1 : ~(i < 1) /\ (i # 1 => i - 1 \in 1 .. n /\ i - 1 + 1 = i)
    BY <1>0
  <2>2. ASSUME NEW i \in 1 .. n + 1, i # 1 PROVE k[i] = l[i - 1]
    <3>1. i - 1 \in 1 .. n /\ i - 1 + 1 = i
      BY <2>1, <2>2
    <3>2. k[i - 1 + 1] = l[i - 1]
      BY <1>5, <3>1
    <3> QED
      BY <3>1, <3>2
  <2>3. \A i \in 1 .. Len(k) : k[i] = IF i < 1 THEN l[i] ELSE IF i = 1 THEN a ELSE l[i - 1]
    BY <1>5, <2>1, <2>2
  <2> HIDE DEF n
  <2>4. Len(l) = n
    BY DEF n
  <2> QED
    BY <1>5, <2>1, <2>3, <2>4 DEF Spliced
<1> QED
  BY <1>1, <1>2, <1>3, <1>4, <1>5, <1>6

\* An agent put into a line at a place before its end.
LEMMA InsertSplices ==
  ASSUME NEW l \in Seq(Agents), NEW a \in Agents, NEW at \in 1 .. Len(l)
  PROVE  InsertAt(l, at, a) \in Seq(Agents) /\ Spliced(l, InsertAt(l, at, a), a)
<1> DEFINE b == SubSeq(l, 1, at - 1)
           c == SubSeq(l, at, Len(l))
           n == Len(l)
<1>0. n \in Nat /\ at \in Nat /\ 1 <= at /\ at <= n
  OBVIOUS
<1>1. b \in Seq(Agents) /\ Len(b) = at - 1 /\ \A i \in 1 .. at - 1 : b[i] = l[i]
  BY <1>0
<1>2. c \in Seq(Agents) /\ Len(c) = n - at + 1 /\ \A i \in 1 .. n - at + 1 : c[i] = l[at + i - 1]
  BY <1>0
<1> HIDE DEF b, c
<1> DEFINE d == b \o <<a>>
<1>3. d \in Seq(Agents) /\ Len(d) = at /\ d[at] = a /\ \A i \in 1 .. at - 1 : d[i] = l[i]
  BY <1>0, <1>1
<1> HIDE DEF d
<1> DEFINE e == d \o c
<1>4. e \in Seq(Agents) /\ Len(e) = Len(d) + Len(c)
      /\ \A i \in 1 .. Len(d) + Len(c) : e[i] = IF i <= Len(d) THEN d[i] ELSE c[i - Len(d)]
  BY <1>2, <1>3, ConcatProperties
<1> HIDE DEF e
<1>5. Len(e) = n + 1 /\ at \in 1 .. n + 1
  BY <1>0, <1>2, <1>3, <1>4
<1>6. ASSUME NEW i \in 1 .. Len(e)
      PROVE  e[i] = IF i < at THEN l[i] ELSE IF i = at THEN a ELSE l[i - 1]
  <2>1. CASE i < at
    <3>1. i \in 1 .. at - 1 /\ i \in 1 .. Len(d) + Len(c) /\ i <= Len(d)
      BY <1>0, <1>2, <1>3, <1>5, <2>1
    <3> QED
      BY <1>3, <1>4, <2>1, <3>1
  <2>2. CASE i = at
    <3>1. i \in 1 .. Len(d) + Len(c) /\ i <= Len(d) /\ ~(i < at)
      BY <1>0, <1>2, <1>3, <1>5, <2>2
    <3> QED
      BY <1>3, <1>4, <2>2, <3>1
  <2>3. CASE ~(i < at) /\ i # at
    <3>1. /\ i \in 1 .. Len(d) + Len(c) /\ ~(i <= Len(d)) /\ i - at \in 1 .. n - at + 1
          /\ at + (i - at) - 1 = i - 1
      BY <1>0, <1>2, <1>3, <1>5, <2>3
    <3>2. e[i] = c[i - at]
      BY <1>3, <1>4, <3>1
    <3>3. c[i - at] = l[i - 1]
      BY <1>2, <3>1
    <3> QED
      BY <2>3, <3>2, <3>3
  <2> QED
    BY <2>1, <2>2, <2>3
<1>7. InsertAt(l, at, a) = e
  BY DEF InsertAt, e, d, b, c
<1>8. Spliced(l, e, a)
  <2> HIDE DEF n
  <2>1. Len(l) = n
    BY DEF n
  <2> QED
    BY <1>5, <1>6, <2>1 DEF Spliced
<1> QED
  BY <1>4, <1>7, <1>8

\* Who is not in the line does not leave it, and who is leaves it once.
LEMMA RemoveSplices ==
  ASSUME NEW l \in Seq(Agents), NEW a \in Agents, NEW e, e = RemoveFirst(l, a)
  PROVE  /\ e \in Seq(Agents)
         /\ ~Has(l, a) => e = l
         /\ Has(l, a) => Spliced(e, l, a)
<1>1. CASE ~Has(l, a)
  BY <1>1 DEF RemoveFirst, Has
<1>2. CASE Has(l, a)
  <2> DEFINE n == Len(l)
             I == {i \in 1 .. Len(l) : l[i] = a}
             at == IF I # {} THEN Min(I) ELSE 0
  <2>0. n \in Nat
    OBVIOUS
  <2>1. at \in 1 .. n /\ l[at] = a
    <3>1. I \in SUBSET (1 .. Len(l)) /\ I # {}
      BY <1>2 DEF Has
    <3>2. Min(I) \in I
      <4> HIDE DEF I
      <4> QED BY <3>1, Selects
    <3> QED
      BY <3>1, <3>2
  <2>2. e = SubSeq(l, 1, at - 1) \o SubSeq(l, at + 1, Len(l))
    BY <1>2 DEF RemoveFirst, RemoveAt, SelectInSeq, Has
  <2> HIDE DEF at
  <2> DEFINE b == SubSeq(l, 1, at - 1)
             c == SubSeq(l, at + 1, Len(l))
  <2>3. b \in Seq(Agents) /\ Len(b) = at - 1 /\ \A i \in 1 .. at - 1 : b[i] = l[i]
    BY <2>0, <2>1
  <2>4. c \in Seq(Agents) /\ Len(c) = n - at /\ \A i \in 1 .. n - at : c[i] = l[at + i]
    BY <2>0, <2>1
  <2>5. e = b \o c
    BY <2>2
  <2> HIDE DEF b, c
  <2> DEFINE d == b \o c
  <2>c. d \in Seq(Agents) /\ Len(d) = Len(b) + Len(c)
        /\ \A i \in 1 .. Len(b) + Len(c) : d[i] = IF i <= Len(b) THEN b[i] ELSE c[i - Len(b)]
    BY <2>3, <2>4, ConcatProperties
  <2> HIDE DEF d
  <2>6. e \in Seq(Agents) /\ Len(e) = Len(b) + Len(c)
        /\ \A i \in 1 .. Len(b) + Len(c) : e[i] = IF i <= Len(b) THEN b[i] ELSE c[i - Len(b)]
    BY <2>5, <2>c DEF d
  <2>7. Len(e) = n - 1 /\ at \in 1 .. Len(e) + 1 /\ Len(l) = Len(e) + 1
    BY <2>0, <2>1, <2>3, <2>4, <2>6
  <2>8. ASSUME NEW i \in 1 .. Len(l)
        PROVE  l[i] = IF i < at THEN e[i] ELSE IF i = at THEN a ELSE e[i - 1]
    <3>1. CASE i < at
      <4>1. i \in 1 .. at - 1 /\ i \in 1 .. Len(b) + Len(c) /\ i <= Len(b)
        BY <2>0, <2>1, <2>3, <2>4, <3>1
      <4> QED
        BY <2>3, <2>6, <3>1, <4>1
    <3>2. CASE i = at
      BY <2>0, <2>1, <3>2
    <3>3. CASE ~(i < at) /\ i # at
      <4>1. /\ i - 1 \in 1 .. Len(b) + Len(c) /\ ~(i - 1 <= Len(b)) /\ i - 1 - Len(b) = i - at
            /\ i - at \in 1 .. n - at /\ at + (i - at) = i
        BY <2>0, <2>1, <2>3, <2>4, <3>3
      <4>2. e[i - 1] = c[i - at]
        BY <2>6, <4>1
      <4>3. c[i - at] = l[i]
        BY <2>4, <4>1
      <4> QED
        BY <3>3, <4>2, <4>3
    <3> QED
      BY <3>1, <3>2, <3>3
  <2>9. Spliced(e, l, a)
    <3> HIDE DEF n
    <3> QED BY <2>7, <2>8 DEF Spliced
  <2> QED
    BY <1>2, <2>6, <2>9
<1> QED
  BY <1>1, <1>2

\* What joins the line is queued.
LEMMA JoinPlaced ==
  ASSUME NEW t \in Teams, Placed(t), NEW u \in Teams, NEW a \in Agents, t.state[a] # "queued",
         Spliced(t.line, u.line, a), u.state[a] = "queued",
         \A b \in Agents : b # a => (u.state[b] = "queued" <=> t.state[b] = "queued")
  PROVE  Placed(u)
<1>1. t.line \in Seq(Agents) /\ u.line \in Seq(Agents)
  BY DEF Teams
<1>2. PICK l \in Seq(Agents), m \in Seq(Agents) : l = t.line /\ m = u.line
  BY <1>1
<1>3. /\ \A b \in Agents : Has(m, b) <=> Has(l, b) \/ b = a
      /\ ~Has(l, a) /\ Once(l) => Once(m)
  BY <1>2, SplicedHas
<1>4. ~Has(l, a) /\ Once(l) /\ \A b \in Agents : Has(l, b) <=> t.state[b] = "queued"
  BY <1>2 DEF Placed
<1> QED
  BY <1>2, <1>3, <1>4 DEF Placed

\* goOn joins the line.
LEMMA GoOnJoins ==
  ASSUME NEW t \in Teams, NEW a \in Agents, NEW how \in {"on", "run", "rest"},
         NEW u, u = GoOn(t, a, how)
  PROVE  u \in Teams /\ Spliced(t.line, u.line, a)
<1> DEFINE I == {i \in 1 .. Len(t.line) : t.going[t.line[i]] = "no" /\ ~t.blocking[t.line[i]]}
           at == IF I # {} THEN Min(I) ELSE 0
           l == IF at = 0 THEN Append(t.line, a) ELSE InsertAt(t.line, at, a)
<1>1. t.line \in Seq(Agents)
  BY DEF Teams
<1>2. at \in 0 .. Len(t.line)
  <2>1. PICK J : J = I
    OBVIOUS
  <2>2. J \in SUBSET (1 .. Len(t.line))
    BY <2>1
  <2>3. (IF J # {} THEN Min(J) ELSE 0) \in 0 .. Len(t.line)
    BY <1>1, <2>2, Selects
  <2> QED
    BY <2>1, <2>3
<1>3. u = [t EXCEPT !.going[a] = how, !.line = l]
  BY DEF GoOn, SelectInSeq
<1> HIDE DEF at
<1>4. Spliced(t.line, l, a)
  <2>1. CASE at = 0
    BY <1>1, <2>1, Splices
  <2>2. CASE at # 0
    <3>1. at \in 1 .. Len(t.line)
      BY <1>1, <1>2, <2>2
    <3>2. PICK k, m : k = t.line /\ m = at
      OBVIOUS
    <3>3. k \in Seq(Agents) /\ m \in 1 .. Len(k)
      BY <1>1, <3>1, <3>2
    <3>4. Spliced(k, InsertAt(k, m, a), a)
      BY <3>3, InsertSplices
    <3> QED
      BY <2>2, <3>2, <3>4
  <2> QED
    BY <2>1, <2>2
<1> HIDE DEF l
<1>5. u \in Teams
  BY GoOnTyped
<1>6. u.line = l
  BY <1>3 DEF Teams
<1> QED
  BY <1>4, <1>5, <1>6
\* Who gets into the line, or to work, carries on.
LEMMA QueuesCarries ==
  ASSUME NEW t \in Teams, NEW u \in Teams, NEW a \in Agents, t.state[a] # "queued",
         u.state = [t.state EXCEPT ![a] = "queued"], u.parent = t.parent, u.silent = t.silent,
         u.owed = t.owed, u.stop = t.stop, Spliced(t.line, u.line, a)
  PROVE  Carries(t, u)
<1>1. u.state[a] = "queued" /\ \A b \in Agents : b # a => u.state[b] = t.state[b]
  BY DEF Teams
<1>2. Backs(t, u, {})
  BY <1>1 DEF Backs, Ending, Moving
<1>3. Placed(t) => Placed(u)
  BY <1>1, JoinPlaced
<1> QED
  BY <1>2, <1>3 DEF Carries

\* An agent begins to work that does not stand in the line.
LEMMA WorksCarries ==
  ASSUME NEW t \in Teams, NEW u \in Teams, NEW a \in Agents, t.state[a] # "queued",
         NEW s \in {"starting", "running"},
         u.state = [t.state EXCEPT ![a] = s], u.parent = t.parent, u.silent = t.silent,
         u.owed = t.owed, u.stop = t.stop, u.line = t.line
  PROVE  Carries(t, u)
<1>1. u.state[a] = s /\ \A b \in Agents : b # a => u.state[b] = t.state[b]
  BY DEF Teams
<1>2. Backs(t, u, {})
  BY <1>1 DEF Backs, Ending, Moving
<1>3. \A b \in Agents : u.state[b] = "queued" <=> t.state[b] = "queued"
  BY <1>1
<1>4. Placed(t) => Placed(u)
  BY <1>3 DEF Placed
<1> QED
  BY <1>2, <1>4 DEF Carries

\* goOn, at once or from the line.
LEMMA GoOnCarries ==
  ASSUME NEW t \in Teams, NEW a \in Agents, t.state[a] # "queued", NEW how \in {"on", "run", "rest"},
         NEW v, v = [t EXCEPT !.state[a] = "queued"], NEW u, u = GoOn(v, a, how)
  PROVE  u \in Teams /\ Carries(t, u)
<1>1. /\ v \in Teams /\ v.line = t.line /\ v.parent = t.parent /\ v.silent = t.silent
      /\ v.owed = t.owed /\ v.stop = t.stop /\ v.state = [t.state EXCEPT ![a] = "queued"]
  <2>1. PICK s \in States : s = "queued"
    BY DEF States, LiveStates
  <2>2. v = [t EXCEPT !.state[a] = s]
    BY <2>1
  <2>3. v.state = [t.state EXCEPT ![a] = s] /\ v.state \in [Agents -> States]
    BY <2>2 DEF Teams
  <2>4. v = [t EXCEPT !.state = v.state]
    BY <2>2 DEF Teams
  <2>5. PICK m \in [Agents -> States] : m = v.state
    BY <2>3
  <2>6. v = [t EXCEPT !.state = m]
    BY <2>4, <2>5
  <2>7. v \in Teams
    BY ZenonT(40), <2>6 DEF Teams
  <2> QED
    BY <2>1, <2>2, <2>3, <2>6, <2>7 DEF Teams
<1>2. u \in Teams /\ Spliced(v.line, u.line, a)
  BY <1>1, GoOnJoins
<1>3. PICK l : u = [v EXCEPT !.going[a] = how, !.line = l]
  BY Zenon DEF GoOn
<1>4. u.parent = v.parent /\ u.silent = v.silent /\ u.owed = v.owed /\ u.stop = v.stop
      /\ u.state = v.state
  BY ZenonT(40), <1>1, <1>3 DEF Teams
<1> QED
  BY <1>1, <1>2, <1>4, QueuesCarries

\* An agent goes on at once, or from the line.
LEMMA GoOnWhenFreeCarries ==
  ASSUME NEW t \in Teams, NEW a \in Agents, t.state[a] \in {"running", "asking"},
         NEW how \in {"on", "rest"}, NEW u, u = GoOnWhenFree(t, a, how)
  PROVE  Carries(t, u)
<1>1. CASE u = Go(t, a, how) /\ how = "on"
  <2>1. PICK w : w = Onwards(t, a)
    OBVIOUS
  <2>2. u = w
    BY <1>1, <2>1 DEF Go, Onwards
  <2>3. w \in Teams /\ w.state = [t.state EXCEPT ![a] = "running"] /\ w.owed = t.owed /\ w.stop = t.stop
    BY <2>1, RunningIs
  <2>4. w.parent = t.parent /\ w.silent = t.silent /\ w.line = t.line
    BY <2>1 DEF Onwards, Teams
  <2> QED
    BY <2>2, <2>3, <2>4, WorksCarries
<1>2. CASE u = Go(t, a, how) /\ how = "rest"
  <2>1. PICK w : w = Onwards(t, a)
    OBVIOUS
  <2>2. u = SteerInbox(w, a)
    BY <1>2, <2>1 DEF Go, Onwards
  <2>3. w \in Teams /\ w.state = [t.state EXCEPT ![a] = "running"] /\ w.owed = t.owed /\ w.stop = t.stop
    BY <2>1, RunningIs
  <2>4. w.parent = t.parent /\ w.silent = t.silent /\ w.line = t.line
    BY <2>1 DEF Onwards, Teams
  <2>5. Carries(t, w)
    BY <2>3, <2>4, WorksCarries
  <2>6. /\ u.parent = w.parent /\ u.silent = w.silent /\ u.line = w.line /\ u.owed = w.owed
        /\ u.stop = w.stop /\ u.state = w.state
    BY <2>2, <2>3 DEF SteerInbox, Teams
  <2> QED
    BY <2>5, <2>6, AsideCarries, CarriesMore
<1>3. CASE u = GoOn([t EXCEPT !.state[a] = "queued"], a, how)
  BY <1>3, GoOnCarries
<1> QED
  BY <1>1, <1>2, <1>3 DEF GoOnWhenFree

\* A wait: true call that returns.
LEMMA ReturnCarries ==
  ASSUME NEW t, NEW x, Good(t, x), Posted(t), NEW a \in Agents, NEW u, u = Return(t, a)
  PROVE  Carries(t, u)
<1>0. t \in Teams /\ Sound(t, x)
  BY DEF Good
<1>1. CASE ~Waited(t, a)
  BY <1>1, CarriesMore DEF Return
<1>2. CASE Waited(t, a)
  <2>1. PICK v : v = WaitEnds(t, a)
    OBVIOUS
  <2>2. /\ v \in Teams /\ v.state = t.state /\ v.parent = t.parent /\ v.silent = t.silent
        /\ v.owed = t.owed /\ v.stop = t.stop /\ v.line = t.line
    BY <1>0, <2>1 DEF Teams, WaitEnds
  <2>3. t.state[a] \in {"running", "asking"}
    BY <1>0, <1>2 DEF Waited, Sound, Waits
  <2>4. Carries(t, v)
    BY <2>2, AsideCarries
  <2>5. u = v \/ u = GoOnWhenFree(v, a, "on")
    BY <1>2, <2>1 DEF Return, AfterWait, WaitEnds
  <2>6. CASE u = GoOnWhenFree(v, a, "on")
    <3>1. PICK how \in {"on", "rest"} : how = "on"
      OBVIOUS
    <3>2. Carries(v, u)
      BY <2>2, <2>3, <2>6, <3>1, GoOnWhenFreeCarries
    <3> QED
      BY <2>4, <3>2, CarriesMore
  <2> QED
    BY <2>4, <2>5, <2>6
<1> QED
  BY <1>1, <1>2

\* All that may return.
LEMMA ReturnedCarries ==
  ASSUME NEW t, NEW x, Tends(t, x)
  PROVE  Carries(t, Returned(t))
<1> DEFINE n == Cardinality(Agents)
           G == {u \in Teams : Tends(u, x) /\ Carries(t, u)}
           X == [s \in SUBSET (1 .. n) |-> G]
<1>1. PICK line : line = InOrder(Agents)
  OBVIOUS
<1>2. n \in Nat /\ DOMAIN line = 1 .. n /\ line \in [1 .. n -> Agents]
  BY <1>1, InOrderLists
<1>3. t \in X[{}]
  BY CarriesMore DEF Good, Tends
<1>4. ASSUME NEW s \in SUBSET (1 .. n), NEW i \in (1 .. n) \ s, NEW v \in X[s]
      PROVE  Return(v, line[i]) \in X[s \cup {i}]
  <2>1. Tends(v, x) /\ Carries(t, v) /\ line[i] \in Agents
    BY <1>2
  <2>2. PICK u : u = Return(v, line[i])
    OBVIOUS
  <2>3. Tends(u, x)
    BY <2>1, <2>2, ReturnSteady
  <2>4. Carries(v, u)
    BY <2>1, <2>2, ReturnCarries DEF Tends
  <2>5. Carries(t, u)
    BY <2>1, <2>4, CarriesMore
  <2> QED
    BY <2>2, <2>3, <2>5 DEF Good, Tends
<1>5. FoldLeft(Return, t, line) \in X[1 .. n]
  <2> HIDE DEF X, n
  <2> QED BY <1>2, <1>3, <1>4, FoldReturn
<1> QED
  BY <1>1, <1>5 DEF Returned

\* The end of a question.
LEMMA EndQuestionCarries ==
  ASSUME NEW t, NEW x, Good(t, x), Posted(t), NEW a \in Agents, t.question[a] # NoOne,
         NEW u, u = EndQuestion(t, a)
  PROVE  Carries(t, u)
<1>0. t \in Teams /\ Sound(t, x) /\ Few(t)
  BY DEF Good
<1>1. PICK d : d = Question(t, a, NoOne)
  OBVIOUS
<1>2. Good(d, x)
  BY <1>1, QuestionSound
<1>3. d \in Teams /\ Sound(d, x) /\ Few(d)
  BY <1>2 DEF Good
<1>4. /\ d.state = t.state /\ d.going = t.going /\ d.held = t.held /\ d.resume = t.resume
      /\ d.question = [t.question EXCEPT ![a] = NoOne] /\ d.wait = t.wait
      /\ d.parent = t.parent /\ d.silent = t.silent /\ d.owed = t.owed /\ d.stop = t.stop
      /\ d.line = t.line
  BY <1>0, <1>1 DEF Teams, Question
<1>5. t.state[a] = "asking"
  BY <1>0 DEF Sound, Asks
<1>6. Carries(t, d) /\ Posted(d)
  BY <1>4, AsideCarries DEF Posted, PostedOf
<1>9. CASE Ending(t, a) /\ u = Pump(d)
  BY <1>3, <1>6, <1>9, PumpCarries, CarriesMore
<1>10. CASE ~Ending(t, a) /\ u = Pump(GoOnWhenFree(d, a, "on"))
  <2>1. PICK how \in {"on", "rest"} : how = "on"
    OBVIOUS
  <2>2. PICK v : v = GoOnWhenFree(d, a, how)
    OBVIOUS
  <2>3. Posted(v)
    BY <1>3, <1>4, <1>5, <1>6, <2>2, GoOnWhenFreeKept
  <2>4. Carries(d, v)
    BY <1>3, <1>4, <1>5, <2>2, GoOnWhenFreeCarries
  <2>7. MayGo(d, a)
    <3>1. d.question[a] = NoOne /\ d.wait[a] = NoOne
      BY <1>0, <1>4 DEF Teams, Sound, Waits
    <3> QED
      BY <1>3, <1>4, <1>5, <1>10, <3>1 DEF MayGo, Known, Ending, Sound, Opens
  <2>8. v \in Teams /\ Sound(v, x)
    BY <1>3, <2>2, <2>7, GoOnWhenFreeSound
  <2>9. u = Pump(v)
    BY <1>10, <2>1, <2>2
  <2>10. Carries(v, u)
    BY <2>3, <2>8, <2>9, PumpCarries
  <2> QED
    BY <1>6, <2>4, <2>10, CarriesMore
<1> QED
  BY <1>1, <1>5, <1>9, <1>10 DEF EndQuestion, Question
\* Who is queued joins the line.
LEMMA EnqueueCarries ==
  ASSUME NEW t \in Teams, NEW v \in Teams, NEW a \in Agents, t.state[a] # "queued",
         v.state = [t.state EXCEPT ![a] = "queued"], v.parent = t.parent, v.silent = t.silent,
         v.owed = t.owed, v.stop = t.stop, v.line = t.line, NEW first \in BOOLEAN,
         NEW w, w = Enqueue(v, a, first)
  PROVE  w \in Teams /\ Carries(t, w) /\ w.state[a] = "queued"
<1>1. w \in Teams
  BY EnqueueTyped
<1>2. PICK l : l = IF first THEN <<a>> \o v.line ELSE Append(v.line, a)
  OBVIOUS
<1>3. w = [v EXCEPT !.line = l]
  BY <1>2 DEF Enqueue
<1>4. /\ w.parent = v.parent /\ w.silent = v.silent /\ w.owed = v.owed /\ w.stop = v.stop
      /\ w.state = v.state /\ w.line = l
  BY <1>3 DEF Teams
<1>5. t.line \in Seq(Agents)
  BY DEF Teams
<1>6. PICK k : k = t.line
  OBVIOUS
<1>7. Spliced(k, Append(k, a), a) /\ Spliced(k, <<a>> \o k, a)
  BY <1>5, <1>6, Splices
<1>8. Spliced(t.line, w.line, a)
  BY <1>2, <1>4, <1>6, <1>7
<1>9. w.state[a] = "queued"
  BY <1>4 DEF Teams
<1> QED
  BY <1>1, <1>4, <1>8, <1>9, QueuesCarries

\* Who started a run, and its mail.
LEMMA StartedByCarries ==
  ASSUME NEW t \in Teams, NEW a \in Agents, NEW peer, NEW u, u = StartedBy(t, a, peer)
  PROVE  /\ u.state = t.state /\ u.parent = t.parent /\ u.silent = t.silent /\ u.owed = t.owed
         /\ u.stop = t.stop /\ u.line = t.line
<1>1. CASE peer
  BY <1>1 DEF StartedBy, Teams
<1>2. CASE ~peer
  BY <1>2 DEF StartedBy, Teams
<1> QED
  BY <1>1, <1>2

\* relaunch.
LEMMA RelaunchCarries ==
  ASSUME NEW t \in Teams, NEW x, Sound(t, x), Few(t), Posted(t), NEW a \in Agents, Pauses(t, a),
         NEW from \in Actors, NEW peer, NEW u, u = Relaunch(t, a, from, peer)
  PROVE  Carries(t, u) /\ u.state[a] # "waiting"
<1>1. PICK s : s = IF t.state[a] = "waiting" THEN t ELSE StartedBy(t, a, peer)
  OBVIOUS
<1>2. s \in Teams
  BY <1>1, StartedBySame
<1>3. /\ s.state = t.state /\ s.parent = t.parent /\ s.silent = t.silent /\ s.owed = t.owed
      /\ s.stop = t.stop /\ s.line = t.line /\ s.going = t.going /\ s.held = t.held
      /\ s.resume = t.resume
  <2>1. CASE t.state[a] = "waiting"
    BY <1>1, <2>1
  <2>2. CASE t.state[a] # "waiting"
    <3>1. s = StartedBy(t, a, peer)
      BY <1>1, <2>2
    <3>2. Alike(t, s)
      BY <3>1, StartedByAlike
    <3>3. s.going = t.going /\ s.held = t.held /\ s.resume = t.resume
      BY <3>1 DEF StartedBy, Teams
    <3> QED
      BY <3>1, <3>3, StartedByCarries
  <2> QED
    BY <2>1, <2>2
<1>4. PICK v : v = Resumed(t, a, from, s)
  OBVIOUS
<1>5. PICK b, mail : b = Reenters(t, a) /\ mail = t.inbox[a] \cup {from}
  OBVIOUS
<1>6. v = [s EXCEPT !.resume[a] = mail, !.inbox[a] = {},
                    !.state[a] = "queued", !.reentered = @ \/ b]
  BY <1>4, <1>5 DEF Resumed
<1>7. b \in BOOLEAN /\ mail \in SUBSET Actors
  BY <1>5 DEF Reenters, Teams
<1>8. v \in Teams
  BY Zenon, <1>2, <1>6, <1>7, ResumedTyped
<1>9. /\ v.state = [s.state EXCEPT ![a] = "queued"] /\ v.going = s.going /\ v.held = s.held
      /\ v.parent = s.parent /\ v.silent = s.silent /\ v.owed = s.owed /\ v.stop = s.stop
      /\ v.line = s.line /\ v.resume = [s.resume EXCEPT ![a] = mail]
  BY <1>2, <1>6 DEF Teams
<1>10. t.state[a] # "queued" /\ t.going[a] = "no"
  BY DEF Posted, PostedOf, Pauses
<1>11. PICK first \in BOOLEAN : first = FALSE
  OBVIOUS
<1>w. PICK w : w = Enqueue(v, a, first)
  OBVIOUS
<1>12. w \in Teams /\ Carries(t, w) /\ w.state[a] = "queued"
  BY <1>3, <1>8, <1>9, <1>10, <1>w, EnqueueCarries
<1>13. Sound(w, x)
  BY <1>1, <1>4, <1>11, <1>w, ResumedSound
<1>14. Posted(w)
  <2>1. /\ w.state = v.state /\ w.going = v.going /\ w.held = v.held /\ w.resume = v.resume
    BY <1>8, <1>w DEF Enqueue, Teams
  <2>2. \A c \in Agents : c # a => PostedOf(w, c)
    BY <1>2, <1>3, <1>9, <2>1 DEF Posted, PostedOf, Teams
  <2>3. PostedOf(w, a)
    BY <1>3, <1>9, <1>10, <1>12, <2>1 DEF PostedOf
  <2> QED
    BY <2>2, <2>3 DEF Posted
<1>15. u = Pump(w)
  BY <1>1, <1>4, <1>11, <1>w DEF Relaunch, Resumed
<1>16. Carries(w, u)
  BY <1>12, <1>13, <1>14, <1>15, PumpCarries
<1>17. u.state[a] # "waiting"
  BY <1>12, <1>16 DEF Carries, Backs, Moving
<1> QED
  BY <1>12, <1>16, <1>17, CarriesMore

\* runWhenFree.
LEMMA RunWhenFreeCarries ==
  ASSUME NEW t \in Teams, NEW a \in Agents, t.held[a], t.state[a] \in {"idle", "waiting"},
         NEW mail \in SUBSET Actors, NEW u, u = RunWhenFree(t, a, mail)
  PROVE  Carries(t, u) /\ u.state[a] # "waiting"
<1>1. CASE u = Run(t, a)
  <2>1. u.state = [t.state EXCEPT ![a] = "running"] /\ u.owed = t.owed /\ u.stop = t.stop
    BY <1>1, RunIs
  <2>2. u \in Teams /\ u.parent = t.parent /\ u.silent = t.silent /\ u.line = t.line
    <3>1. u \in Teams
      BY <1>1, RunTyped
    <3> QED
      BY <1>1, <3>1 DEF Run, Teams
  <2>3. u.state[a] = "running"
    BY <2>1 DEF Teams
  <2> QED
    BY <2>1, <2>2, <2>3, WorksCarries
<1>2. CASE u = GoOn([t EXCEPT !.inbox[a] = @ \cup mail, !.state[a] = "queued"], a, "run")
  <2>1. PICK how \in {"on", "run", "rest"} : how = "run"
    OBVIOUS
  <2>v. PICK v : v = [t EXCEPT !.inbox[a] = @ \cup mail, !.state[a] = "queued"]
    OBVIOUS
  <2>2. PICK w : w = Inbox(t, a, t.inbox[a] \cup mail)
    OBVIOUS
  <2>3. w \in Teams
    BY <2>2 DEF Teams, Inbox
  <2>4. /\ w.state = t.state /\ w.parent = t.parent /\ w.silent = t.silent /\ w.owed = t.owed
        /\ w.stop = t.stop /\ w.line = t.line
    BY <2>2 DEF Teams, Inbox
  <2>5. v = [w EXCEPT !.state[a] = "queued"]
    BY <2>v, <2>2 DEF Teams, Inbox
  <2>6. u = GoOn(v, a, how)
    BY <1>2, <2>1, <2>v
  <2>7. Carries(w, u)
    BY <2>3, <2>4, <2>5, <2>6, GoOnCarries
  <2>8. Carries(t, w)
    BY <2>4, AsideCarries
  <2>9. u.state[a] = "queued"
    <3>1. Lined(w, u, a, how)
      BY <2>3, <2>5, <2>6, GoOnLined
    <3> QED
      BY <2>3, <3>1 DEF Lined, Teams
  <2> QED
    BY <2>7, <2>8, <2>9, CarriesMore
<1> QED
  BY <1>1, <1>2 DEF RunWhenFree

\* wake; an agent that waits for a report goes on when it resumes.
LEMMA WakeCarries ==
  ASSUME NEW t \in Teams, NEW x, Sound(t, x), Few(t), Posted(t), NEW from \in Actors,
         NEW a \in Agents, NEW resumes, NEW peer, NEW u, u = Wake(t, from, a, resumes, peer)
  PROVE  Carries(t, u) /\ (resumes /\ t.state[a] = "waiting" => u.state[a] # "waiting")
<1>1. PICK mail : mail = t.inbox[a] \cup {from}
  OBVIOUS
<1>2. mail \in SUBSET Actors
  BY <1>1 DEF Teams
<1>3. PICK r : r = GivenBack(t, a)
  OBVIOUS
<1>4. r \in Teams /\ Same(t, r) /\ r.state = t.state /\ (r.held[a] => t.held[a] /\ ~Ended(t, a))
  BY <1>3, ReleasedSame
<1>5. ASSUME u = Inbox(t, a, mail) PROVE Carries(t, u)
  <2>1. /\ u.state = t.state /\ u.parent = t.parent /\ u.silent = t.silent /\ u.owed = t.owed
        /\ u.stop = t.stop /\ u.line = t.line
    BY <1>5 DEF Teams, Inbox
  <2> QED
    BY <2>1, AsideCarries
<1>6. CASE (t.state[a] \in Paused \/ Ended(t, a)) /\ u = Relaunch(r, a, from, peer)
  <2>1. Sound(r, x) /\ Few(r)
    BY <1>4, SameServes
  <2>2. Pauses(r, a)
    BY <1>4, <1>6 DEF Pauses, Paused, Ended, EndedStates
  <2>3. Posted(r)
    BY <1>3, GivenBackKept
  <2>4. Carries(r, u) /\ u.state[a] # "waiting"
    BY <1>4, <1>6, <2>1, <2>2, <2>3, RelaunchCarries
  <2>5. /\ r.parent = t.parent /\ r.silent = t.silent /\ r.owed = t.owed
        /\ r.stop = t.stop /\ r.line = t.line
    BY <1>3 DEF Teams, GivenBack
  <2>6. Carries(t, r)
    BY <1>4, <2>5, AsideCarries
  <2> QED
    BY <2>4, <2>6, CarriesMore
<1>7. CASE /\ t.state[a] \in Paused \/ Ended(t, a)
           /\ r.held[a] /\ t.state[a] # "interrupted"
           /\ u = RunWhenFree(Fresh(t, a, IF t.state[a] = "idle"
                                          THEN StartedBy(t, a, peer) ELSE t, {}), a, mail)
  <2>1. PICK s : s = IF t.state[a] = "idle" THEN StartedBy(t, a, peer) ELSE t
    OBVIOUS
  <2>2. s \in Teams /\ s.held = t.held
    BY <2>1, StartedBySame
  <2>3. /\ s.state = t.state /\ s.parent = t.parent /\ s.silent = t.silent /\ s.owed = t.owed
        /\ s.stop = t.stop /\ s.line = t.line
    BY <2>1, StartedByCarries
  <2>4. t.held[a] /\ t.state[a] \in {"idle", "waiting"}
    BY <1>4, <1>7 DEF Paused
  <2>5. PICK none \in SUBSET Actors : none = {}
    OBVIOUS
  <2>6. PICK v : v = Fresh(t, a, s, none)
    OBVIOUS
  <2>7. v \in Teams
    BY <2>2, <2>6, FreshSame
  <2>8. /\ v.state = s.state /\ v.parent = s.parent /\ v.silent = s.silent /\ v.owed = s.owed
        /\ v.stop = s.stop /\ v.line = s.line /\ v.held = s.held
    BY <2>2, <2>6 DEF Teams, Fresh
  <2>9. u = RunWhenFree(v, a, mail)
    BY <1>7, <2>1, <2>5, <2>6
  <2>10. v.held[a] /\ v.state[a] \in {"idle", "waiting"}
    BY <2>2, <2>3, <2>4, <2>8
  <2>11. Carries(v, u) /\ u.state[a] # "waiting"
    BY <1>2, <2>7, <2>9, <2>10, RunWhenFreeCarries
  <2>12. Carries(t, v)
    BY <2>3, <2>8, AsideCarries
  <2> QED
    BY <2>11, <2>12, CarriesMore
<1>8. u = IF ~resumes \/ ~(t.state[a] \in Paused \/ Ended(t, a))
          THEN Inbox(t, a, mail)
        ELSE IF ~r.held[a]
          THEN Relaunch(r, a, from, peer)
        ELSE IF t.state[a] # "interrupted"
          THEN RunWhenFree(Fresh(t, a, IF t.state[a] = "idle"
                                       THEN StartedBy(t, a, peer) ELSE t, {}), a, mail)
        ELSE Inbox(t, a, mail)
  BY <1>1, <1>3 DEF Wake, GivenBack, Fresh, Inbox
<1>9. Carries(t, u)
  BY <1>5, <1>6, <1>7, <1>8
<1>10. ASSUME resumes, t.state[a] = "waiting" PROVE u.state[a] # "waiting"
  <2>1. t.state[a] \in Paused /\ t.state[a] # "interrupted"
    BY <1>10 DEF Paused
  <2>2. \/ u = Relaunch(r, a, from, peer)
        \/ /\ r.held[a]
           /\ u = RunWhenFree(Fresh(t, a, IF t.state[a] = "idle"
                                          THEN StartedBy(t, a, peer) ELSE t, {}), a, mail)
    BY <1>8, <1>10, <2>1
  <2> QED
    BY <1>6, <1>7, <1>10, <2>1, <2>2
<1> QED
  BY <1>9, <1>10

\* deliver.
LEMMA DeliverCarries ==
  ASSUME NEW t, NEW x, Good(t, x), Posted(t), NEW from \in Actors, NEW a \in Agents,
         NEW wakes, NEW u, u = Deliver(t, from, a, wakes)
  PROVE  /\ Carries(t, u)
         /\ (wakes \/ from \in {Main, t.parent[a]}) /\ t.state[a] = "waiting" => u.state[a] # "waiting"
<1>0. t \in Teams /\ Sound(t, x) /\ Few(t)
  BY DEF Good
<1>1. PICK s : s = IF from \in {Main, t.parent[a]} THEN [t EXCEPT !.peerRuns = @ \ {a}] ELSE t
  OBVIOUS
<1>2. s \in Teams /\ Same(t, s) /\ Alike(t, s)
  <2>1. CASE from \in {Main, t.parent[a]}
    BY <1>0, <1>1, <2>1 DEF Teams, Same, Stays, Keeps, SameFrames, Ending, Alike, AlikeOf, Ending
  <2>2. CASE from \notin {Main, t.parent[a]}
    BY <1>0, <1>1, <2>2 DEF Same, Stays, Keeps, SameFrames, Alike, AlikeOf, Ending
  <2> QED
    BY <2>1, <2>2
<1>3. Sound(s, x) /\ Few(s) /\ Posted(s)
  BY <1>0, <1>2, SameServes, AlikeKept
<1>a. /\ s.state = t.state /\ s.parent = t.parent /\ s.silent = t.silent /\ s.owed = t.owed
      /\ s.stop = t.stop /\ s.line = t.line
  BY <1>0, <1>1 DEF Teams
<1>b. Carries(t, s)
  BY <1>a, AsideCarries
<1>4. ASSUME u = t PROVE Carries(t, u)
  BY <1>4, CarriesMore
<1>5. ASSUME u = Unread(s, a, s.unread[a] \cup {from}) PROVE Carries(t, u)
  <2>1. /\ u.state = s.state /\ u.parent = s.parent /\ u.silent = s.silent /\ u.owed = s.owed
        /\ u.stop = s.stop /\ u.line = s.line
    BY <1>2, <1>5 DEF Teams, Unread
  <2> QED
    BY <1>b, <2>1, AsideCarries, CarriesMore
<1>6. ASSUME u = Wake(s, from, a, wakes \/ from \in {Main, t.parent[a]}, IsPeer(t, from, a))
      PROVE  /\ Carries(t, u)
             /\ (wakes \/ from \in {Main, t.parent[a]}) /\ t.state[a] = "waiting"
                    => u.state[a] # "waiting"
  <2>1. PICK resumes, peer :
            resumes = (wakes \/ from \in {Main, t.parent[a]}) /\ peer = IsPeer(t, from, a)
    OBVIOUS
  <2>2. u = Wake(s, from, a, resumes, peer)
    BY <1>6, <2>1
  <2>3. Carries(s, u) /\ (resumes /\ s.state[a] = "waiting" => u.state[a] # "waiting")
    BY <1>2, <1>3, <2>2, WakeCarries
  <2> QED
    BY <1>a, <1>b, <2>1, <2>3, CarriesMore
<1>7. \/ u = t
      \/ u = Unread(s, a, s.unread[a] \cup {from})
      \/ u = Wake(s, from, a, wakes \/ from \in {Main, t.parent[a]}, IsPeer(t, from, a))
  BY <1>1 DEF Deliver, Unread
<1>8. Carries(t, u)
  BY <1>4, <1>5, <1>6, <1>7
<1>9. ASSUME wakes \/ from \in {Main, t.parent[a]}, t.state[a] = "waiting" PROVE u.state[a] # "waiting"
  <2>1. Delivers(t, from, a)
    BY <1>9 DEF Delivers, Known, Ended, EndedStates
  <2>2. u = Wake(s, from, a, wakes \/ from \in {Main, t.parent[a]}, IsPeer(t, from, a))
    BY <1>1, <1>9, <2>1 DEF Deliver
  <2> QED
    BY <1>6, <1>9, <2>2
<1> QED
  BY <1>8, <1>9
\* Each agent of the set is in the list.
LEMMA InOrderCovers ==
  ASSUME NEW S \in SUBSET Agents, NEW x \in S
  PROVE  \E i \in 1 .. Cardinality(S) : InOrder(S)[i] = x
<1> DEFINE k == Cardinality(S)
           Below(y) == {z \in S : z < y}
           At(n) == CHOOSE y \in S : Cardinality(Below(y)) = n - 1
           r == Cardinality(Below(x)) + 1
<1>1. S \in SUBSET Nat /\ IsFiniteSet(S) /\ k \in Nat
  BY NumbersOf, FS_Subset, FS_CardinalityType
<1>2. \A y \in S : Below(y) \subseteq S \ {y} /\ IsFiniteSet(Below(y)) /\ Cardinality(Below(y)) \in Nat
  <2> TAKE y \in S
  <2>1. Below(y) \subseteq S \ {y}
    BY <1>1
  <2>2. IsFiniteSet(S \ {y})
    BY <1>1, FS_Subset
  <2> QED
    BY <2>1, <2>2, FS_Subset, FS_CardinalityType
<1> HIDE DEF Below
<1>3. Cardinality(S \ {x}) = k - 1 /\ IsFiniteSet(S \ {x})
  BY <1>1, FS_RemoveElement
<1>4. Cardinality(Below(x)) <= k - 1
  <2>1. PICK B, T : B = Below(x) /\ T = S \ {x}
    OBVIOUS
  <2>2. B \in SUBSET T /\ IsFiniteSet(T)
    BY <1>2, <1>3, <2>1
  <2>3. Cardinality(B) <= Cardinality(T)
    BY <2>2, FS_Subset
  <2> QED
    BY <1>3, <2>1, <2>3
<1>5. r \in 1 .. k /\ Cardinality(Below(x)) = r - 1
  BY <1>1, <1>2, <1>4
<1>6. ASSUME NEW y \in S, NEW z \in S, y < z PROVE Cardinality(Below(y)) < Cardinality(Below(z))
  <2>1. y \in Below(z) /\ Below(y) \subseteq Below(z) \ {y}
    <3>1. y \in Nat /\ z \in Nat /\ \A w \in S : w \in Nat
      BY <1>1
    <3>2. \A w \in Below(y) : w \in S /\ w < z /\ w # y
      BY <1>6, <3>1 DEF Below
    <3> QED
      BY <1>6, <3>2 DEF Below
  <2>2. Cardinality(Below(z) \ {y}) = Cardinality(Below(z)) - 1 /\ IsFiniteSet(Below(z) \ {y})
    BY <1>2, <2>1, FS_RemoveElement
  <2>a. PICK B, T : B = Below(y) /\ T = Below(z) \ {y}
    OBVIOUS
  <2>b. B \in SUBSET T /\ IsFiniteSet(T)
    BY <2>1, <2>2, <2>a
  <2>c. Cardinality(B) <= Cardinality(T)
    BY <2>b, FS_Subset
  <2>3. Cardinality(Below(y)) <= Cardinality(Below(z) \ {y})
    BY <2>a, <2>c
  <2> QED
    BY <1>2, <2>2, <2>3
<1> HIDE DEF r
<1>7. At(r) \in S /\ Cardinality(Below(At(r))) = r - 1
  BY <1>5
<1>8. InOrder(S)[r] = At(r)
  BY <1>5 DEF InOrder, Below
<1> HIDE DEF At
<1>9. At(r) = x
  <2>1. At(r) \in Nat /\ x \in Nat
    BY <1>1, <1>7
  <2>2. ~(At(r) < x) /\ ~(x < At(r))
    BY <1>2, <1>5, <1>6, <1>7
  <2> QED
    BY <2>1, <2>2
<1> QED
  BY <1>5, <1>8, <1>9

\* Nobody begins to wait.
LEMMA BacksGo ==
  ASSUME NEW t, NEW u, NEW S, Backs(t, u, S)
  PROVE  \A b \in Agents : u.state[b] = "waiting" => t.state[b] = "waiting"
BY DEF Backs, Moving

\* Whoever is told of an answer that will not come goes on.
LEMMA TellUnansweredCarries ==
  ASSUME NEW t, NEW x, Tends(t, x), NEW a \in Agents, NEW S \in SUBSET Agents,
         \A b \in S : t.parent[b] # a
  PROVE  /\ Carries(t, TellUnanswered(t, a, S))
         /\ \A b \in S : TellUnanswered(t, a, S).state[b] # "waiting"
<1> DEFINE n == Cardinality(S)
<1>1. PICK line : line = InOrder(S)
  OBVIOUS
<1>2. n \in Nat /\ DOMAIN line = 1 .. n /\ line \in [1 .. n -> S]
  BY <1>1, InOrderLists
<1> DEFINE X == [s \in SUBSET (1 .. n) |->
                   {u \in Teams : /\ Tends(u, x) /\ Steady(t, u) /\ Carries(t, u)
                                  /\ \A i \in s : u.state[line[i]] # "waiting"}]
<1>3. t \in X[{}]
  BY SteadyMore, CarriesMore DEF Tends, Good
<1>4. ASSUME NEW s \in SUBSET (1 .. n), NEW i \in (1 .. n) \ s, NEW v \in X[s]
      PROVE  Deliver(v, a, line[i], TRUE) \in X[s \cup {i}]
  <2>1. /\ Tends(v, x) /\ Steady(t, v) /\ line[i] \in S /\ line[i] \in Agents /\ a \in Actors
        /\ Carries(t, v) /\ \A j \in s : v.state[line[j]] # "waiting"
    BY <1>2 DEF Actors
  <2>2. PICK u : u = Deliver(v, a, line[i], TRUE)
    OBVIOUS
  <2>3. v.parent[line[i]] # a /\ a # Main
    BY <2>1, NumbersOf DEF Steady, Firm
  <2>4. Ended(v, line[i]) => ~Delivers(v, a, line[i])
    BY <2>3 DEF Delivers
  <2>5. Tends(u, x) /\ Steady(v, u)
    BY <2>1, <2>2, <2>4, DeliverSteady
  <2>6. Steady(t, u)
    BY <2>1, <2>5, SteadyMore
  <2>7. Carries(v, u) /\ (v.state[line[i]] = "waiting" => u.state[line[i]] # "waiting")
    BY <2>1, <2>2, DeliverCarries DEF Tends
  <2>8. Carries(t, u)
    BY <2>1, <2>7, CarriesMore
  <2>9. \A b \in Agents : u.state[b] = "waiting" => v.state[b] = "waiting"
    BY <2>7, BacksGo DEF Carries
  <2>10. \A j \in s \cup {i} : u.state[line[j]] # "waiting"
    <3> TAKE j \in s \cup {i}
    <3>1. line[j] \in Agents
      BY <1>2
    <3> QED
      BY <2>1, <2>7, <2>9, <3>1
  <2> HIDE DEF n
  <2> QED BY <2>2, <2>5, <2>6, <2>8, <2>10 DEF Tends, Good
<1>5. TellUnanswered(t, a, S) \in X[1 .. n]
  <2> HIDE DEF X, n
  <2> QED BY <1>1, <1>2, <1>3, <1>4, FoldTell
<1>6. \A b \in S : \E i \in 1 .. n : line[i] = b
  BY <1>1, InOrderCovers
<1> QED
  BY <1>5, <1>6

\* The ends of the questions to a.
LEMMA EndOtherQuestionsCarries ==
  ASSUME NEW t, NEW x, Tends(t, x), NEW a \in Agents
  PROVE  Carries(t, EndOtherQuestions(t, a))
<1> DEFINE S == {y \in Agents : t.question[y] = a /\ y # t.parent[a]}
           n == Cardinality(S)
<1>1. PICK line : line = InOrder(S)
  OBVIOUS
<1>2. n \in Nat /\ DOMAIN line = 1 .. n /\ line \in [1 .. n -> S]
      /\ \A i, j \in 1 .. n : line[i] = line[j] => i = j
  BY <1>1, InOrderLists
<1> DEFINE X == [s \in SUBSET (1 .. n) |->
                   {u \in Teams : /\ Tends(u, x) /\ Carries(t, u)
                                  /\ \A i \in (1 .. n) \ s : u.question[line[i]] # NoOne}]
<1>3. t \in X[{}]
  <2>1. a # NoOne
    BY NumbersOf
  <2>2. \A i \in 1 .. n : t.question[line[i]] = a
    BY <1>2
  <2> HIDE DEF n, S
  <2> QED BY <2>1, <2>2, CarriesMore DEF Tends, Good
<1>4. ASSUME NEW s \in SUBSET (1 .. n), NEW i \in (1 .. n) \ s, NEW v \in X[s]
      PROVE  EndQuestion(v, line[i]) \in X[s \cup {i}]
  <2>1. Tends(v, x) /\ Carries(t, v) /\ line[i] \in Agents /\ v.question[line[i]] # NoOne
    BY <1>2
  <2>2. PICK u : u = EndQuestion(v, line[i])
    OBVIOUS
  <2>3. /\ Tends(u, x)
        /\ \A b \in Agents : b # line[i] => u.question[b] = v.question[b]
    BY <2>1, <2>2, EndQuestionSteady
  <2>c. Carries(v, u)
    BY <2>1, <2>2, EndQuestionCarries DEF Tends
  <2>4. Carries(t, u)
    BY <2>1, <2>c, CarriesMore
  <2>5. ASSUME NEW j \in (1 .. n) \ (s \cup {i}) PROVE u.question[line[j]] # NoOne
    <3>1. j \in 1 .. n /\ i \in 1 .. n /\ j # i /\ j \in (1 .. n) \ s
      OBVIOUS
    <3>2. line[j] # line[i] /\ line[j] \in Agents
      BY <1>2, <3>1
    <3>3. v.question[line[j]] # NoOne
      BY <3>1
    <3> QED
      BY <2>3, <3>2, <3>3
  <2> HIDE DEF n, S
  <2> QED BY <2>2, <2>3, <2>4, <2>5 DEF Tends, Good
<1>5. EndOtherQuestions(t, a) \in X[1 .. n]
  <2> HIDE DEF X, n
  <2> QED BY <1>1, <1>2, <1>3, <1>4, FoldEnd
<1> QED
  BY <1>5

\* reportUp sets a waiting parent to work, unless the report is quiet or the parent blocks on it.
LEMMA ReportUpCarries ==
  ASSUME NEW t, NEW x, Tends(t, x), NEW a \in Agents, Known(t, a), NEW quiet, NEW blocking,
         NEW u, u = ReportUp(t, a, quiet, blocking)
  PROVE  /\ Carries(t, u)
         /\ \A p \in Agents : u.state[p] = "waiting" /\ p = t.parent[a] => quiet \/ blocking
<1>1. t \in Teams /\ t.parent[a] \in Actors
  BY DEF Tends, Good, Sound, Parents
<1>2. PICK to : to = ReportTarget(t, a)
  OBVIOUS
<1>3. to \in Actors
  BY <1>1, <1>2, ReportTargetLives
<1>4. u = ReportTo(t, a, to, quiet, blocking)
  BY <1>2 DEF ReportUp
<1>5. PICK wakes : wakes = (~quiet \/ to # t.parent[a])
  OBVIOUS
<1>6. ASSUME u = Deliver(t, a, to, wakes), to # Main
      PROVE  Carries(t, u) /\ (wakes /\ t.state[to] = "waiting" => u.state[to] # "waiting")
  <2>1. to \in Agents /\ a \in Actors
    BY <1>3, <1>6 DEF Actors
  <2> QED
    BY <1>6, <2>1, DeliverCarries DEF Tends
<1>7. Carries(t, u)
  BY <1>4, <1>5, <1>6, CarriesMore DEF ReportTo
<1>8. ASSUME NEW p \in Agents, u.state[p] = "waiting", p = t.parent[a], ~quiet, ~blocking PROVE FALSE
  <2>1. t.state[p] = "waiting"
    BY <1>7, <1>8, BacksGo DEF Carries
  <2>2. to = p
    BY <1>2, <1>8, <2>1 DEF ReportTarget, Ended, EndedStates
  <2>3. p # Main
    BY NumbersOf
  <2>4. u = Deliver(t, a, to, wakes) /\ wakes
    BY <1>4, <1>5, <1>8, <2>2, <2>3 DEF ReportTo
  <2> QED
    BY <1>6, <1>8, <2>1, <2>2, <2>3, <2>4
<1> QED
  BY <1>7, <1>8

\* Who still waits after the report of a was neither owed an answer by a, nor its parent, unless
\* the parent has the report from a call that blocks on a or that stopped it.
Told(t, u, a, silent, blocking) ==
    \A p \in Agents : u.state[p] = "waiting" /\ (p = t.parent[a] \/ a \in t.owed[p])
                          => p = t.parent[a] /\ (silent \/ blocking)

\* What a owed is paid.
LEMMA PaidBacks ==
  ASSUME NEW t \in Teams, NEW a \in Agents, NEW u, u = Paid(t, a)
  PROVE  /\ Backs(t, u, {a}) /\ u.state = t.state /\ u.parent = t.parent
         /\ (Placed(t) => Placed(u))
<1>1. /\ u.state = t.state /\ u.parent = t.parent /\ u.silent = t.silent /\ u.stop = t.stop
      /\ u.line = t.line /\ u.owed = [y \in Agents |-> t.owed[y] \ {a}]
  BY DEF Paid, Teams
<1> QED
  BY <1>1 DEF Backs, Placed, Ending

\* hand-up.
LEMMA HandUpBacks ==
  ASSUME NEW t, NEW x, Tends(t, x), NEW a \in Agents, Known(t, a), NEW silent, NEW blocking,
         NEW u, u = HandUp(t, a, silent, blocking)
  PROVE  Backs(t, u, {a}) /\ (Placed(t) => Placed(u)) /\ Told(t, u, a, silent, blocking)
<1>0. t \in Teams
  BY DEF Tends, Good
<1>1. PICK e : e = RunEnded(t, a)
  OBVIOUS
<1>2. Tends(e, x) /\ Steady(t, e)
  BY <1>1, RunEndedSteady
<1>a. /\ e.state = t.state /\ e.parent = t.parent /\ e.silent = t.silent /\ e.stop = t.stop
      /\ e.line = t.line /\ e.owed = t.owed
  BY <1>0, <1>1 DEF RunEnded, Teams
<1>b. Carries(t, e)
  BY <1>a, AsideCarries
<1>3. PICK p : p = Paid(e, a)
  OBVIOUS
<1>4. Tends(p, x) /\ Steady(t, p)
  BY <1>2, <1>3, PaySteady, SteadyMore
<1>c. Backs(e, p, {a}) /\ p.state = t.state /\ p.parent = t.parent /\ (Placed(e) => Placed(p))
  BY <1>2, <1>3, <1>a, PaidBacks DEF Tends, Good
<1>d. Backs(t, p, {a}) /\ (Placed(t) => Placed(p))
  BY <1>b, <1>c, BacksMore DEF Carries
<1>5. Known(p, a)
  BY <1>4 DEF Steady, Firm
<1>6. PICK quiet, r : quiet = Quiet(t, a) /\ r = IF silent THEN p ELSE ReportUp(p, a, quiet, blocking)
  OBVIOUS
<1>7. /\ Tends(r, x) /\ Steady(t, r) /\ Carries(p, r)
      /\ \A b \in Agents : r.state[b] = "waiting" /\ b = t.parent[a] => silent \/ quiet \/ blocking
  <2>1. CASE silent
    BY <1>4, <1>6, <2>1, CarriesMore
  <2>2. CASE ~silent
    <3>0. r = ReportUp(p, a, quiet, blocking)
      BY <1>6, <2>2
    <3>1. Tends(r, x) /\ Steady(p, r)
      BY <1>4, <1>5, <3>0, ReportUpSteady
    <3>2. /\ Carries(p, r)
          /\ \A b \in Agents : r.state[b] = "waiting" /\ b = p.parent[a] => quiet \/ blocking
      BY <1>4, <1>5, <3>0, ReportUpCarries
    <3>3. Steady(t, r)
      BY <1>4, <3>1, SteadyMore
    <3> QED
      BY <1>c, <3>1, <3>2, <3>3
  <2> QED
    BY <2>1, <2>2
<1>8. PICK S : S = Askers(t, a) \ {t.parent[a]}
  OBVIOUS
<1>9. S \in SUBSET Agents /\ \A b \in S : r.parent[b] # a
  <2>1. S \in SUBSET Agents /\ \A b \in S : a \in t.owed[b]
    BY <1>8 DEF Askers
  <2>2. \A b \in S : t.parent[b] # a
    BY <2>1 DEF Tends, Debts
  <2> QED
    BY <1>7, <2>1, <2>2 DEF Steady, Firm
<1>10. PICK q : q = TellUnanswered(r, a, S)
  OBVIOUS
<1>11. Tends(q, x)
  BY <1>7, <1>9, <1>10, TellUnansweredSteady
<1>12. Carries(r, q) /\ \A b \in S : q.state[b] # "waiting"
  BY <1>7, <1>9, <1>10, TellUnansweredCarries
<1>13. u = EndOtherQuestions(q, a)
  BY <1>1, <1>3, <1>6, <1>8, <1>10 DEF HandUp
<1>14. Carries(q, u)
  BY <1>11, <1>13, EndOtherQuestionsCarries
<1>15. Carries(r, u) /\ Carries(p, u)
  BY <1>7, <1>12, <1>14, CarriesMore
<1>16. Backs(t, u, {a}) /\ (Placed(t) => Placed(u))
  BY <1>d, <1>15, BacksMore DEF Carries
<1>17. ASSUME NEW b \in Agents, u.state[b] = "waiting", b = t.parent[a] \/ a \in t.owed[b]
       PROVE  b = t.parent[a] /\ (silent \/ blocking)
  <2>1. t.state[b] = "waiting"
    BY <1>16, <1>17, BacksGo
  <2>2. q.state[b] = "waiting" /\ r.state[b] = "waiting"
    BY <1>14, <1>15, <1>17, BacksGo DEF Carries
  <2>3. b \notin S
    BY <1>12, <2>2
  <2>4. b = t.parent[a]
    BY <1>8, <1>17, <2>3 DEF Askers
  <2>5. ~quiet
    BY <1>6, <2>1, <2>4, NumbersOf DEF Quiet
  <2> QED
    BY <1>7, <2>2, <2>4, <2>5
<1> QED
  BY <1>16, <1>17 DEF Told

\* The report of a resume that could not launch.
LEMMA HandUpFailureBacks ==
  ASSUME NEW t, NEW x, Tends(t, x), NEW a \in Agents, Known(t, a), NEW u, u = HandUpFailure(t, a)
  PROVE  Backs(t, u, {a}) /\ (Placed(t) => Placed(u)) /\ Told(t, u, a, FALSE, FALSE)
<1>0. t \in Teams
  BY DEF Tends, Good
<1>1. PICK p : p = Paid(t, a)
  OBVIOUS
<1>2. Tends(p, x) /\ Steady(t, p)
  BY <1>1, PaySteady
<1>c. Backs(t, p, {a}) /\ p.state = t.state /\ p.parent = t.parent /\ (Placed(t) => Placed(p))
  BY <1>0, <1>1, PaidBacks
<1>3. t.parent[a] \in Actors /\ Main \notin Agents
  BY NumbersOf DEF Tends, Good, Sound, Parents
<1>4. PICK r, wakes : wakes = TRUE /\ r = IF t.parent[a] = Main THEN p ELSE Deliver(p, a, t.parent[a], wakes)
  OBVIOUS
<1>5. /\ Tends(r, x) /\ Carries(p, r) /\ r.parent = t.parent
      /\ t.parent[a] \in Agents => r.state[t.parent[a]] # "waiting"
  <2>1. CASE t.parent[a] = Main
    BY <1>2, <1>3, <1>4, <2>1, CarriesMore DEF Steady, Firm
  <2>2. CASE t.parent[a] # Main
    <3>1. t.parent[a] \in Agents /\ a \in Actors
      BY <1>3, <2>2 DEF Actors
    <3>0. r = Deliver(p, a, t.parent[a], wakes)
      BY <1>4, <2>2
    <3>2. Tends(r, x) /\ Firm(p, r)
      BY <1>2, <3>0, <3>1, DeliverSteady
    <3>3. Carries(p, r) /\ (p.state[t.parent[a]] = "waiting" => r.state[t.parent[a]] # "waiting")
      BY <1>2, <1>4, <3>0, <3>1, DeliverCarries DEF Tends
    <3>4. r.state[t.parent[a]] = "waiting" => p.state[t.parent[a]] = "waiting"
      BY <3>1, <3>3, BacksGo DEF Carries
    <3> QED
      BY <1>2, <3>2, <3>3, <3>4 DEF Steady, Firm
  <2> QED
    BY <2>1, <2>2
<1>6. PICK S : S = Askers(t, a) \ {t.parent[a]}
  OBVIOUS
<1>7. S \in SUBSET Agents /\ \A b \in S : r.parent[b] # a
  <2>1. S \in SUBSET Agents /\ \A b \in S : a \in t.owed[b]
    BY <1>6 DEF Askers
  <2>2. \A b \in S : t.parent[b] # a
    BY <2>1 DEF Tends, Debts
  <2> QED
    BY <1>5, <2>1, <2>2
<1>8. PICK q : q = TellUnanswered(r, a, S)
  OBVIOUS
<1>9. Tends(q, x)
  BY <1>5, <1>7, <1>8, TellUnansweredSteady
<1>10. Carries(r, q) /\ \A b \in S : q.state[b] # "waiting"
  BY <1>5, <1>7, <1>8, TellUnansweredCarries
<1>11. u = EndOtherQuestions(q, a)
  BY <1>1, <1>4, <1>6, <1>8 DEF HandUpFailure
<1>12. Carries(q, u)
  BY <1>9, <1>11, EndOtherQuestionsCarries
<1>13. Carries(r, u) /\ Carries(p, u)
  BY <1>5, <1>10, <1>12, CarriesMore
<1>14. Backs(t, u, {a}) /\ (Placed(t) => Placed(u))
  BY <1>c, <1>13, BacksMore DEF Carries
<1>15. ASSUME NEW b \in Agents, u.state[b] = "waiting", b = t.parent[a] \/ a \in t.owed[b] PROVE FALSE
  <2>1. q.state[b] = "waiting" /\ r.state[b] = "waiting"
    BY <1>12, <1>13, <1>15, BacksGo DEF Carries
  <2>2. b \notin S /\ b # t.parent[a]
    BY <1>5, <1>10, <2>1
  <2> QED
    BY <1>6, <1>15, <2>2 DEF Askers
<1> QED
  BY <1>14, <1>15 DEF Told

------------------------------------------------------------------------------
(* What drives those that wait *)

\* Who was marked to be told without a report is being stopped, and who is being stopped does
\* not wait: its run is the one that was stopped, or another one that is live.
Marks(t) ==
    \A a \in Agents :
       /\ a \in t.silent => Ending(t, a)
       /\ Ending(t, a) =>
             t.state[a] # "waiting" /\ (Live(t, a) \/ (t.stop[a][1].own /\ t.state[a] = "stopped"))

\* The end of c is still to come, and p hears of it: c is its subagent or owes it an answer, and
\* is live, or its stop is under way and is not that of p.
Helps(t, p, c) ==
    /\ c \in Children(t, p) \/ c \in t.owed[p]
    /\ Live(t, c) \/ (Ending(t, c) /\ ~(c \in t.silent /\ t.parent[c] = p))

\* Everyone that waits has one that will move it.
Minds(t) == \A p \in Agents : t.state[p] = "waiting" => \E c \in Agents : Helps(t, p, c)

\* Nobody begins to wait, and who still waits keeps those that help it, but for those in `gone`.
Cares(t, u, gone) ==
    \A p \in Agents : u.state[p] = "waiting" =>
        t.state[p] = "waiting" /\ \A c \in Agents \ gone : Helps(t, p, c) => Helps(u, p, c)

\* A part of a handler drives the team on.
Drives(t, u) == (Placed(t) => Placed(u)) /\ (Marks(t) => Marks(u) /\ Cares(t, u, {}))

\* One after another.
LEMMA DrivesMore ==
  ASSUME NEW t, NEW u, NEW v
  PROVE  Drives(t, t) /\ (Drives(t, u) /\ Drives(u, v) => Drives(t, v))
<1>1. Cares(t, t, {})
  BY DEF Cares
<1>2. Cares(t, u, {}) /\ Cares(u, v, {}) => Cares(t, v, {})
  BY DEF Cares
<1> QED
  BY <1>1, <1>2 DEF Drives

\* Who waits keeps one that helps it.
LEMMA DrivesMinds ==
  ASSUME NEW t, NEW u, Marks(t), Minds(t), Drives(t, u)
  PROVE  Minds(u)
BY DEF Minds, Drives, Cares

\* What goes on leaves marks, and those that help, alone.
LEMMA BacksCares ==
  ASSUME NEW t, NEW u, NEW S, Backs(t, u, S), Marks(t)
  PROVE  Marks(u) /\ Cares(t, u, S)
<1>1. u.parent = t.parent /\ u.silent = t.silent
  BY DEF Backs
<1>2. ASSUME NEW b \in Agents
      PROVE  /\ Live(t, b) => Live(u, b)
             /\ Known(t, b) => Known(u, b)
             /\ u.state[b] = "waiting" => t.state[b] = "waiting"
             /\ Ending(u, b) <=> Ending(t, b)
             /\ Ending(u, b) =>
                   /\ u.state[b] # "waiting"
                   /\ Live(u, b) \/ (u.stop[b][1].own /\ u.state[b] = "stopped")
             /\ t.owed[b] \ S \subseteq u.owed[b]
  <2>1. /\ u.state[b] = t.state[b] \/ u.state[b] \in Moving
        /\ Ending(u, b) <=> Ending(t, b)
        /\ Ending(t, b) => u.stop[b][1].own = t.stop[b][1].own \/ u.state[b] \in Moving
        /\ t.owed[b] \ S \subseteq u.owed[b]
    BY DEF Backs
  <2>2. /\ Live(t, b) => Live(u, b)
        /\ Known(t, b) => Known(u, b)
        /\ u.state[b] = "waiting" => t.state[b] = "waiting"
    BY <2>1 DEF Live, Known, LiveStates, Moving
  <2>3. Ending(t, b) => t.state[b] # "waiting" /\ (Live(t, b) \/ (t.stop[b][1].own /\ t.state[b] = "stopped"))
    BY DEF Marks
  <2> QED
    BY <2>1, <2>2, <2>3 DEF Live, LiveStates, Moving
<1>4. \A a \in Agents : a \in u.silent => Ending(u, a)
  BY <1>1, <1>2 DEF Marks
<1>5. Marks(u)
  BY <1>2, <1>4 DEF Marks
<1>6. ASSUME NEW p \in Agents, u.state[p] = "waiting", NEW c \in Agents, c \notin S, Helps(t, p, c)
      PROVE  Helps(u, p, c)
  BY <1>1, <1>2, <1>6 DEF Helps, Children
<1> QED
  BY <1>2, <1>5, <1>6 DEF Cares

\* So what carries on drives on.
LEMMA CarriesDrives ==
  ASSUME NEW t, NEW u, Carries(t, u)
  PROVE  Drives(t, u)
BY BacksCares DEF Carries, Drives

\* One after another.
LEMMA CaresMore ==
  ASSUME NEW t, NEW u, NEW v, NEW S, Cares(t, u, S), Cares(u, v, S)
  PROVE  Cares(t, v, S)
BY DEF Cares

\* Who still waits when the run of a is over hears of it from the call that stops a.
Hears(t, u, a, silent) ==
    \A p \in Agents : u.state[p] = "waiting" /\ (p = t.parent[a] \/ a \in t.owed[p])
                          => p = t.parent[a] /\ silent

\* finish tells everyone that waits for a.
LEMMA FinishDrives ==
  ASSUME NEW t, Tends(t, NoOne), NEW a \in Agents, Ending(t, a) => Aborting(t, a),
         t.state[a] \in {"idle", "failed", "stopped"}, NEW silent, NEW u, u = Finish(t, a, silent)
  PROVE  /\ Placed(t) => Placed(u)
         /\ Marks(t) => Marks(u) /\ Cares(t, u, {a}) /\ Hears(t, u, a, silent)
<1>0. t \in Teams /\ Good(t, NoOne) /\ Posted(t) /\ Known(t, a)
  BY DEF Tends, Good, Known
<1>1. PICK o : o = Over(t, a)
  OBVIOUS
<1>2. o \in Teams
  BY ONLY <1>0, <1>1, a \in Agents DEF Teams, Over, Stops
<1>b. t.state[a] \notin ActiveStates
  BY DEF ActiveStates
<1>3. Sheds(t, o, a)
  BY ONLY <1>0, <1>1, <1>b, a \in Agents DEF Teams, Over, Sheds
<1>4. Good(o, NoOne)
  BY <1>0, <1>2, <1>3, ShedsGood
<1>5. /\ o.state = t.state /\ o.going = t.going /\ o.inbox = t.inbox /\ o.unread = t.unread
      /\ o.resume = t.resume /\ o.held = t.held /\ o.question = t.question /\ o.wait = t.wait
      /\ o.owed = [t.owed EXCEPT ![a] = {}] /\ o.prompting = t.prompting
      /\ o.blocking = [t.blocking EXCEPT ![a] = FALSE] /\ o.opening = t.opening
      /\ o.overlap = t.overlap \ {a} /\ o.stop = [t.stop EXCEPT ![a] = <<>>]
  BY <1>0, <1>1 DEF Teams, Over
<1>a. o.silent = t.silent \ {a} /\ o.line = t.line /\ o.parent = t.parent
  BY <1>0, <1>1 DEF Teams, Over
<1>6. o.owed \in [Agents -> SUBSET Agents] /\ \A b \in Agents : o.owed[b] \subseteq t.owed[b]
  BY <1>0, <1>5 DEF Teams
<1>7. \A b \in Agents : PostedOf(o, b)
  BY <1>0, <1>5 DEF Posted, PostedOf
<1>8. Tends(o, NoOne)
  <2>1. Posted(o)
    BY <1>7 DEF Posted
  <2>2. Firm(t, o)
    BY <1>3, <1>5 DEF Sheds, Firm, Known, Ending
  <2> QED
    BY <1>4, <1>6, <2>1, <2>2, FirmOwes
<1>9. PICK blocking : blocking = t.blocking[a]
  OBVIOUS
<1>10. PICK h : h = HandUp(o, a, silent, blocking)
  OBVIOUS
<1>11. Known(o, a)
  BY <1>0, <1>5 DEF Known
<1>12. Tends(h, NoOne) /\ Backs(o, h, {a}) /\ (Placed(o) => Placed(h)) /\ Told(o, h, a, silent, blocking)
  BY <1>8, <1>10, <1>11, HandUpSteady, HandUpBacks
<1>13. PICK r : r = GivenBack(h, a)
  OBVIOUS
<1>14. h \in Teams /\ Posted(h) /\ Good(h, NoOne)
  BY <1>12 DEF Tends, Good
<1>15. r \in Teams /\ Same(h, r)
  BY <1>13, <1>14, ReleasedSame
<1>16. Posted(r) /\ Good(r, NoOne)
  BY <1>13, <1>14, <1>15, GivenBackKept, GoodSame
<1>17. Carries(h, r)
  <2>1. /\ r.parent = h.parent /\ r.silent = h.silent /\ r.owed = h.owed /\ r.stop = h.stop
        /\ r.line = h.line /\ r.state = h.state
    BY <1>13, <1>14 DEF GivenBack, Teams
  <2> QED
    BY <2>1, AsideCarries
<1>18. u = Pump(r)
  BY <1>1, <1>9, <1>10, <1>13 DEF Finish, Over, Released, GivenBack
<1>19. Carries(r, u)
  BY <1>16, <1>18, PumpCarries DEF Good
<1>20. Carries(h, u)
  BY <1>17, <1>19, CarriesMore
<1>21. Backs(o, u, {a}) /\ (Placed(o) => Placed(u))
  BY <1>12, <1>20, BacksMore DEF Carries
<1>22. Placed(t) => Placed(o)
  BY <1>5, <1>a DEF Placed
<1>23. ASSUME Marks(t) PROVE Marks(u) /\ Cares(t, u, {a}) /\ Hears(t, u, a, silent)
  <2>1. \A b \in Agents : /\ b # a => o.stop[b] = t.stop[b] /\ o.owed[b] = t.owed[b]
                          /\ o.stop[a] = <<>>
    BY <1>0, <1>5 DEF Teams
  <2>2. Marks(o)
    BY <1>5, <1>23, <1>a, <2>1 DEF Marks, Ending, Live
  <2>3. ASSUME NEW p \in Agents, o.state[p] = "waiting", NEW c \in Agents, c # a, Helps(t, p, c)
        PROVE  Helps(o, p, c)
    <3>1. p # a
      BY <1>5, <2>3
    <3> QED
      BY <1>5, <1>a, <2>1, <2>3, <3>1 DEF Helps, Children, Known, Live, Ending
  <2>4. Cares(t, o, {a})
    BY <1>5, <2>3 DEF Cares
  <2>5. Marks(u) /\ Cares(o, u, {a})
    BY <1>21, <2>2, BacksCares
  <2>6. Cares(t, u, {a})
    BY <2>4, <2>5, CaresMore
  <2>7. ASSUME NEW p \in Agents, u.state[p] = "waiting", p = t.parent[a] \/ a \in t.owed[p]
        PROVE  p = t.parent[a] /\ silent
    <3>1. t.state[p] = "waiting" /\ p # a /\ h.state[p] = "waiting"
      BY <1>5, <1>20, <1>21, <2>7, BacksGo DEF Carries
    <3>2. p = t.parent[a] /\ (silent \/ blocking)
      BY <1>5, <1>12, <1>a, <2>1, <2>7, <3>1 DEF Told
    <3>3. ~blocking
      <4>1. ASSUME blocking PROVE FALSE
        <5>1. t.wait[p] = a \/ Leaves(t, p, a)
          BY <1>0, <1>9, <3>2, <4>1 DEF Good, Sound, Blocks
        <5>2. t.wait[p] # a
          BY <1>0, <3>1, NumbersOf DEF Good, Sound, Waits
        <5>3. ~Ending(t, p)
          BY <1>23, <3>1 DEF Marks
        <5> QED
          BY <5>1, <5>2, <5>3 DEF Leaves
      <4> QED
        BY <4>1
    <3> QED
      BY <3>2, <3>3
  <2> QED
    BY <2>5, <2>6, <2>7 DEF Hears
<1> QED
  BY <1>21, <1>22, <1>23

------------------------------------------------------------------------------
(* Stops drive the team on *)

\* Who leaves the line is queued no more.
LEMMA UnlinedPlaced ==
  ASSUME NEW t \in Teams, Placed(t), NEW a \in Agents, NEW u, u.line = RemoveFirst(t.line, a),
         u.state[a] # "queued",
         \A b \in Agents : b # a => (u.state[b] = "queued" <=> t.state[b] = "queued")
  PROVE  Placed(u)
<1>1. PICK l \in Seq(Agents) : l = t.line
  BY DEF Teams
<1>2. PICK e : e = RemoveFirst(l, a)
  OBVIOUS
<1>3. e \in Seq(Agents) /\ (~Has(l, a) => e = l) /\ (Has(l, a) => Spliced(e, l, a))
  BY <1>1, <1>2, RemoveSplices
<1>4. Once(l) /\ \A b \in Agents : Has(l, b) <=> t.state[b] = "queued"
  BY <1>1 DEF Placed
<1>5. CASE ~Has(l, a)
  BY <1>1, <1>2, <1>3, <1>4, <1>5 DEF Placed
<1>6. CASE Has(l, a)
  <2>1. Spliced(e, l, a)
    BY <1>3, <1>6
  <2>2. \A b \in Agents : Has(l, b) <=> Has(e, b) \/ b = a
    BY <1>3, <2>1, SplicedHas
  <2>3. Once(e) /\ ~Has(e, a)
    BY <1>3, <1>4, <2>1, SplicedHas
  <2>4. u.line = e
    BY <1>1, <1>2
  <2> QED
    BY <1>4, <2>2, <2>3, <2>4 DEF Placed
<1> QED
  BY <1>5, <1>6

\* The last part of Mark leaves marks, and whose stop it is, alone.
LEMMA MarkedLeaves ==
  ASSUME NEW w \in Teams, NEW a \in Agents, Ending(w, a),
         NEW u, u = Marked(Ceased(UnreadLeft(w, a), a), a)
  PROVE  u.silent = w.silent /\ u.owed = w.owed /\ (w.stop[a][1].own => u.stop[a][1].own)
<1>1. PICK q : q = UnreadLeft(w, a)
  OBVIOUS
<1>2. q \in Teams /\ q.stop = w.stop /\ q.silent = w.silent /\ q.owed = w.owed
  <2>1. q \in Teams
    BY <1>1, ParkedSame
  <2> QED
    BY <1>1, <2>1 DEF UnreadLeft, Teams
<1>3. PICK r : r = Ceased(q, a)
  OBVIOUS
<1>4. r \in Teams /\ r.stop = q.stop /\ r.silent = q.silent /\ r.owed = q.owed
  <2>1. r \in Teams /\ r.stop = q.stop
    BY <1>2, <1>3, CeasedLeaves
  <2> QED
    BY <1>2, <1>3, <2>1 DEF Ceased, Teams
<1>5. PICK order : order = StopOrder(r, Children(r, a))
  OBVIOUS
<1>6. u = Ordered(r, a, order)
  BY <1>1, <1>3, <1>5 DEF Marked, Ordered
<1>7. Ending(r, a)
  BY <1>2, <1>4 DEF Ending
<1>8. PICK f \in Frames : r.stop[a] = <<f>>
  BY <1>4, <1>7, FramesOf
<1>9. [<<f>> EXCEPT ![1].todo = order][1].own = f.own
  BY DEF Frames
<1>10. u.silent = r.silent /\ u.owed = r.owed /\ u.stop[a] = [<<f>> EXCEPT ![1].todo = order]
  BY <1>4, <1>6, <1>8 DEF Ordered, Teams
<1> QED
  BY <1>2, <1>4, <1>8, <1>9, <1>10

\* Who is struck by a caller that does not wait still helps those that wait for it.
LEMMA StruckDrives ==
  ASSUME NEW t, NEW u, NEW a \in Agents, NEW by, Known(t, a), ~Ending(t, a), Marks(t),
         by \in Agents => t.state[by] # "waiting",
         u.parent = t.parent, u.state[a] = "stopped", Ending(u, a), u.stop[a][1].own,
         a \in u.silent => a \in t.silent \/ by = t.parent[a],
         \A b \in Agents : b # a =>
            /\ u.state[b] = t.state[b] \/ u.state[b] \in Moving
            /\ Ending(u, b) <=> Ending(t, b)
            /\ Ending(t, b) => u.stop[b][1].own = t.stop[b][1].own \/ u.state[b] \in Moving
            /\ b \in u.silent => b \in t.silent,
         \A b \in Agents : t.owed[b] \subseteq u.owed[b]
  PROVE  Marks(u) /\ Cares(t, u, {})
<1>1. ASSUME NEW b \in Agents, b # a
      PROVE  /\ Live(t, b) => Live(u, b)
             /\ Known(t, b) => Known(u, b)
             /\ u.state[b] = "waiting" => t.state[b] = "waiting"
             /\ b \in u.silent => Ending(u, b)
             /\ Ending(u, b) =>
                   /\ u.state[b] # "waiting"
                   /\ Live(u, b) \/ (u.stop[b][1].own /\ u.state[b] = "stopped")
  <2>1. /\ u.state[b] = t.state[b] \/ u.state[b] \in Moving
        /\ Ending(u, b) <=> Ending(t, b)
        /\ Ending(t, b) => u.stop[b][1].own = t.stop[b][1].own \/ u.state[b] \in Moving
        /\ b \in u.silent => b \in t.silent
    BY <1>1
  <2>2. /\ Live(t, b) => Live(u, b)
        /\ Known(t, b) => Known(u, b)
        /\ u.state[b] = "waiting" => t.state[b] = "waiting"
    BY <2>1 DEF Live, Known, LiveStates, Moving
  <2>3. /\ b \in t.silent => Ending(t, b)
        /\ Ending(t, b) =>
              /\ t.state[b] # "waiting"
              /\ Live(t, b) \/ (t.stop[b][1].own /\ t.state[b] = "stopped")
    BY DEF Marks
  <2> QED
    BY <2>1, <2>2, <2>3 DEF Live, LiveStates, Moving
<1>2. Marks(u)
  <2>1. u.state[a] # "waiting"
    OBVIOUS
  <2> QED
    BY <1>1, <2>1 DEF Marks
<1>3. ASSUME NEW p \in Agents, u.state[p] = "waiting" PROVE p # a /\ t.state[p] = "waiting" /\ p # by
  <2>1. p # a
    BY <1>3
  <2> QED
    BY <1>1, <1>3, <2>1
<1>4. a \notin t.silent
  BY DEF Marks
<1>5. ASSUME NEW p \in Agents, u.state[p] = "waiting", NEW c \in Agents, Helps(t, p, c)
      PROVE  Helps(u, p, c)
  <2>1. t.owed[p] \subseteq u.owed[p]
    OBVIOUS
  <2>2. CASE c # a
    BY <1>1, <1>5, <2>1, <2>2 DEF Helps, Children
  <2>3. CASE c = a
    <3>1. Known(u, a)
      BY DEF Known
    <3>2. ~(a \in u.silent /\ u.parent[a] = p)
      BY <1>3, <1>4, <1>5
    <3> QED
      BY <1>5, <2>1, <2>3, <3>1, <3>2 DEF Helps, Children
  <2> QED
    BY <2>2, <2>3
<1> QED
  BY <1>2, <1>3, <1>5 DEF Cares

\* A part of a stop: the team is driven on, and nothing owed is forgotten.
Halts(t, u) ==
    Drives(t, u) /\ u.parent = t.parent /\ \A b \in Agents : t.owed[b] \subseteq u.owed[b]

\* One after another.
LEMMA HaltsMore ==
  ASSUME NEW t, NEW u, NEW v
  PROVE  Halts(t, t) /\ (Halts(t, u) /\ Halts(u, v) => Halts(t, v)) /\ (Carries(t, u) => Halts(t, u))
<1>1. Carries(t, u) => Halts(t, u)
  BY CarriesDrives DEF Carries, Backs, Halts
<1>2. Halts(t, t)
  BY DrivesMore DEF Halts
<1>3. Halts(t, u) /\ Halts(u, v) => Halts(t, v)
  BY DrivesMore DEF Halts
<1> QED
  BY <1>1, <1>2, <1>3

\* Mark halts the agent that it stops.
LEMMA MarkHalts ==
  ASSUME NEW t, Tends(t, NoOne), NEW a \in Agents, CanStop(t, a), NEW by,
         Marks(t) /\ by \in Agents => t.state[by] # "waiting", NEW u, u = Mark(t, a, by)
  PROVE  Halts(t, u)
<1>0. t \in Teams /\ Good(t, NoOne)
  BY DEF Tends, Good
<1>1. PICK l : l = LeaveLine(t, a)
  OBVIOUS
<1>2. /\ Tends(l, NoOne) /\ l.state = t.state
      /\ l.going[a] = "no" /\ l.held = t.held /\ l.parent = t.parent /\ l.stop = t.stop
      /\ l.question = t.question
  BY <1>1, LeaveLineTends
<1>x. PICK line : line = RemoveFirst(t.line, a)
  OBVIOUS
<1>a. l.line = line /\ l.silent = t.silent /\ l.owed = t.owed
  <2>1. PICK g : g = [t.going EXCEPT ![a] = "no"]
    OBVIOUS
  <2>2. l = [t EXCEPT !.line = line, !.going = g]
    BY <1>0, <1>1, <1>x, <2>1 DEF LeaveLine, Teams
  <2> QED
    BY <1>0, <2>2 DEF Teams
<1>3. PICK p : p = ParkResume(l, a)
  OBVIOUS
<1>4. p \in Teams /\ Same(l, p) /\ SetAside(l, p, a) /\ p.resume[a] = {}
  BY <1>2, <1>3, ParkedSame, AsideIs DEF Tends, Good
<1>5. Tends(p, NoOne) /\ p.going[a] = "no"
  BY <1>2, <1>4, SetAsideTends
<1>6. /\ p.state = t.state /\ p.parent = t.parent /\ p.question = t.question /\ p.wait = t.wait
      /\ p.line = line /\ p.silent = t.silent /\ p.owed = t.owed /\ p.stop = t.stop
  <2>1. Keeps(t, l)
    BY <1>0, <1>1, LeaveLineGood
  <2>2. Keeps(l, p) /\ p.state = l.state
    BY <1>4 DEF Same, Stays
  <2>3. p.line = l.line /\ p.silent = l.silent /\ p.owed = l.owed /\ p.stop = l.stop
    BY <1>2, <1>3 DEF ParkResume, Teams, Tends, Good
  <2> QED
    BY <1>2, <1>a, <2>1, <2>2, <2>3 DEF Keeps
<1>8. PICK f : f = [todo |-> <<>>, on |-> NoOne, own |-> TRUE, held |-> t.held[a],
           wait |-> t.wait[a]]
  OBVIOUS
<1>9. f \in Frames /\ f.todo = <<>> /\ f.on = NoOne /\ f.own /\ f.wait = p.wait[a]
  <2>1. <<>> \in Seq(Agents) /\ t.held[a] \in BOOLEAN /\ t.wait[a] \in Agents \cup {NoOne}
    BY <1>0 DEF Teams
  <2> QED
    BY <1>6, <1>8, <2>1 DEF Frames
<1>10. PICK quiet : quiet = IF by = t.parent[a] THEN p.silent \cup {a} ELSE p.silent
  OBVIOUS
<1>11. quiet \in SUBSET Agents
  BY <1>4, <1>10 DEF Teams
<1>12. PICK e : e = Framed(p, a, f, quiet)
  OBVIOUS
<1>13. e \in Teams /\ Posted(e) /\ Debts(e) /\ Todo(e) /\ Ending(e, a)
  BY <1>5, <1>9, <1>11, <1>12, FramedTends
<1>14. /\ e.stop[a] = <<f>> /\ \A b \in Agents : b # a => e.stop[b] = p.stop[b]
       /\ e.parent = p.parent /\ e.question = p.question /\ e.state = p.state /\ e.going = p.going
       /\ e.line = p.line
  BY <1>4, <1>9, <1>11, <1>12, FramedLeaves
<1>15. e.silent = quiet /\ e.owed = p.owed
  BY <1>4, <1>12 DEF Framed, Teams
<1>16. PICK w : w = IF t.question[a] # NoOne THEN EndQuestion(e, a) ELSE e
  OBVIOUS
<1>17. u = Marked(Ceased(UnreadLeft(w, a), a), a)
  <2>1. e = [p EXCEPT !.stop[a] = <<f>>, !.silent = IF by = t.parent[a] THEN @ \cup {a} ELSE @]
    BY <1>4, <1>10, <1>12 DEF Framed, Teams
  <2> QED
    BY <1>1, <1>3, <1>8, <1>16, <2>1 DEF Mark, Ceased
<1>19. Known(t, a) /\ ~Ending(t, a)
  BY DEF CanStop, Live, LiveStates, Known
<1>20. e.stop[a][1].own
  BY <1>9, <1>14
<1>21. /\ w \in Teams /\ Carries(e, w) /\ Ending(w, a) /\ w.stop[a][1].own
       /\ w = e \/ (e.state[a] = "asking" /\ w.state[a] = "asking")
  <2>1. CASE t.question[a] = NoOne
    BY <1>13, <1>16, <1>20, <2>1, CarriesMore
  <2>2. CASE t.question[a] # NoOne
    <3>1. Good(e, a)
      <4>1. ~Ending(p, a) /\ p.question[a] # NoOne
        BY <1>6, <1>19, <2>2 DEF Ending
      <4> QED
        BY <1>5, <1>9, <1>11, <1>12, <4>1, FramedGood DEF Tends
    <3>2. w = EndQuestion(e, a) /\ e.question[a] # NoOne /\ e.going[a] = "no"
      BY <1>5, <1>6, <1>14, <1>16, <2>2
    <3>3. Carries(e, w)
      BY <1>13, <3>1, <3>2, EndQuestionCarries
    <3>4. Good(w, a) /\ \A b \in Agents : /\ Ending(w, b) <=> Ending(e, b)
                                          /\ e.state[b] # "queued" => w.state[b] = e.state[b]
      BY <1>13, <3>1, <3>2, AloneStops
    <3>5. e.state[a] = "asking"
      BY <3>1, <3>2 DEF Good, Sound, Asks
    <3>6. w.state[a] = "asking" /\ Ending(w, a)
      BY <1>13, <3>4, <3>5
    <3>7. w.stop[a][1].own
      BY <1>13, <1>20, <3>3, <3>6 DEF Carries, Backs, Moving
    <3> QED
      BY <3>3, <3>4, <3>5, <3>6, <3>7 DEF Good
  <2> QED
    BY <2>1, <2>2
<1>22. /\ u \in Teams /\ Stopped(w, u, a) /\ u.owed = w.owed /\ u.silent = w.silent
       /\ u.stop[a][1].own
  <2>1. u.silent = w.silent /\ u.owed = w.owed /\ u.stop[a][1].own
    <3>1. w \in Teams /\ Ending(w, a) /\ w.stop[a][1].own
      BY <1>21
    <3> QED
      BY <1>17, <3>1, MarkedLeaves
  <2>2. u \in Teams /\ Stopped(w, u, a)
    <3>1. w \in Teams /\ Ending(w, a)
      BY <1>21
    <3> QED
      BY <1>17, <3>1, MarkLeaves
  <2> QED
    BY <2>1, <2>2
<1>23. /\ Ending(u, a) /\ u.state[a] = "stopped" /\ u.parent = w.parent /\ u.line = w.line
       /\ \A b \in Agents : b # a => u.stop[b] = w.stop[b] /\ u.state[b] = w.state[b]
  BY <1>22 DEF Stopped
<1>24. /\ w.parent = e.parent /\ w.silent = e.silent
       /\ \A b \in Agents :
             /\ w.state[b] = e.state[b] \/ w.state[b] \in Moving
             /\ Ending(w, b) <=> Ending(e, b)
             /\ Ending(e, b) => w.stop[b][1].own = e.stop[b][1].own \/ w.state[b] \in Moving
             /\ e.owed[b] \subseteq w.owed[b]
  BY <1>21 DEF Carries, Backs
<1>25. u.parent = t.parent /\ \A b \in Agents : t.owed[b] \subseteq u.owed[b]
  BY <1>6, <1>14, <1>15, <1>22, <1>23, <1>24
<1>26. ASSUME NEW b \in Agents, b # a
       PROVE  /\ u.state[b] = t.state[b] \/ u.state[b] \in Moving
              /\ Ending(u, b) <=> Ending(t, b)
              /\ Ending(t, b) => u.stop[b][1].own = t.stop[b][1].own \/ u.state[b] \in Moving
              /\ b \in u.silent => b \in t.silent
  <2>1. /\ u.stop[b] = w.stop[b] /\ u.state[b] = w.state[b] /\ e.stop[b] = t.stop[b]
        /\ e.state[b] = t.state[b]
    BY <1>6, <1>14, <1>23, <1>26
  <2>2. b \in u.silent => b \in t.silent
    BY <1>6, <1>10, <1>15, <1>22, <1>24, <1>26
  <2> QED
    BY <1>24, <2>1, <2>2 DEF Ending
<1>27. ASSUME Marks(t) PROVE Marks(u) /\ Cares(t, u, {})
  <2>1. a \in u.silent => a \in t.silent \/ by = t.parent[a]
    BY <1>6, <1>10, <1>15, <1>22, <1>24
  <2>2. by \in Agents => t.state[by] # "waiting"
    BY <1>27
  <2>3. u.stop[a][1].own
    BY <1>21, <1>22
  <2> QED
    BY <1>19, <1>23, <1>25, <1>26, <1>27, <2>1, <2>2, <2>3, StruckDrives
<1>28. ASSUME Placed(t) PROVE Placed(u)
  <2>1. CASE w = e
    <3>1. u.line = RemoveFirst(t.line, a)
      BY <1>6, <1>14, <1>23, <1>x, <2>1
    <3>2. \A b \in Agents : b # a => u.state[b] = t.state[b]
      BY <1>6, <1>14, <1>23, <2>1
    <3> QED
      BY <1>0, <1>23, <1>28, <3>1, <3>2, UnlinedPlaced
  <2>2. CASE e.state[a] = "asking" /\ w.state[a] = "asking"
    <3>1. e.line = RemoveFirst(t.line, a) /\ e.state[a] # "queued" /\ e.state = t.state
      BY <1>6, <1>14, <1>x, <2>2
    <3>2. Placed(e)
      BY <1>0, <1>28, <3>1, UnlinedPlaced
    <3>3. Placed(w)
      BY <1>21, <3>2 DEF Carries
    <3> QED
      BY <1>23, <2>2, <3>3 DEF Placed
  <2> QED
    BY <1>21, <2>1, <2>2
<1> QED
  BY <1>25, <1>27, <1>28 DEF Halts, Drives

\* A stop that goes on with a subagent is the same stop.
LEMMA ReframedCarries ==
  ASSUME NEW t \in Teams, NEW a \in Agents, Ending(t, a), NEW order \in Seq(Agents),
         NEW c \in Agents \cup {NoOne}, NEW r, r = Reframed(t, a, order, c)
  PROVE  r \in Teams /\ Carries(t, r)
<1>1. /\ r \in Teams /\ r = [t EXCEPT !.stop = r.stop]
      /\ \A b \in Agents : b # a => r.stop[b] = t.stop[b]
  BY ReframedLeaves
<1>2. PICK s : s = r.stop
  OBVIOUS
<1>3. /\ r.parent = t.parent /\ r.silent = t.silent /\ r.owed = t.owed /\ r.line = t.line
      /\ r.state = t.state
  BY <1>1, <1>2 DEF Teams
<1>4. PICK f \in Frames : t.stop[a] = <<f>>
  BY FramesOf
<1>g. PICK g : g = [f EXCEPT !.todo = order]
  OBVIOUS
<1>h. PICK h : h = [g EXCEPT !.on = c]
  OBVIOUS
<1>5. h.own = f.own /\ <<h>> # <<>> /\ <<h>>[1] = h
  BY <1>g, <1>h DEF Frames
<1>6. r.stop[a] = <<h>>
  <2>1. [<<f>> EXCEPT ![1].todo = order] = <<g>> /\ [<<g>> EXCEPT ![1].on = c] = <<h>>
    BY <1>g, <1>h
  <2>2. PICK m : m = Ordered(t, a, order)
    OBVIOUS
  <2>3. m \in Teams
    BY <2>2, OrderedLeaves
  <2>4. m.stop[a] = <<g>>
    BY <1>4, <2>1, <2>2 DEF Ordered, Teams
  <2>5. r = Onward(m, a, c)
    BY <2>2 DEF Reframed, Ordered, Onward
  <2> QED
    BY <2>1, <2>3, <2>4, <2>5 DEF Onward, Teams
<1>7. Ending(r, a) /\ r.stop[a][1].own = t.stop[a][1].own
  BY <1>4, <1>5, <1>6 DEF Ending
<1>8. Backs(t, r, {})
  BY <1>1, <1>3, <1>7 DEF Backs, Ending
<1> QED
  BY <1>1, <1>3, <1>8 DEF Carries, Placed

\* So is one that comes to the abort.
LEMMA AbortCarries ==
  ASSUME NEW t \in Teams, NEW a \in Agents, Ending(t, a),
         NEW d, d = Awake(Reframed(t, a, <<>>, NoOne), a), NEW u, u = Detach(d, t.stop[a][1].wait)
  PROVE  Carries(t, u)
<1>1. PICK r : r = Reframed(t, a, <<>>, NoOne)
  OBVIOUS
<1>2. PICK nobody \in Agents \cup {NoOne} : nobody = NoOne
  OBVIOUS
<1>3. PICK none \in Seq(Agents) : none = <<>>
  <2>1. <<>> \in Seq(Agents)
    OBVIOUS
  <2> QED
    BY <2>1
<1>4. r \in Teams /\ Carries(t, r)
  <2>1. r = Reframed(t, a, none, nobody)
    BY <1>1, <1>2, <1>3
  <2> QED
    BY <2>1, ReframedCarries
<1>5. d = [r EXCEPT !.resting = r.resting \ {a}]
  BY <1>1 DEF Awake
<1>6. /\ d.parent = r.parent /\ d.silent = r.silent /\ d.owed = r.owed /\ d.stop = r.stop
      /\ d.state = r.state /\ d.line = r.line
  BY <1>4, <1>5 DEF Teams
<1>7. /\ u.parent = d.parent /\ u.silent = d.silent /\ u.owed = d.owed /\ u.stop = d.stop
      /\ u.state = d.state /\ u.line = d.line
  BY <1>4, <1>5 DEF Detach, Teams
<1>8. Carries(r, u)
  BY <1>6, <1>7, AsideCarries
<1> QED
  BY <1>4, <1>8, CarriesMore

\* One step of a stop on its way down the tree.
LEMMA StopsNextHalts ==
  ASSUME NEW t0, NEW k \in Nat, NEW at, OnTheWay(t0, at, k), WayOn(t0, at), Halts(t0, at.team), NEW n
  PROVE  Halts(t0, StopsNext(at, n).team)
<1>1. PICK t : t = at.team
  OBVIOUS
<1>2. PICK a : a = at.agent
  OBVIOUS
<1>3. PICK new : new = StopsNext(at, n)
  OBVIOUS
<1>4. CASE a = NoOne
  <2>1. new = at
    BY <1>2, <1>3, <1>4 DEF StopsNext
  <2> QED
    BY <1>3, <2>1
<1>5. CASE a # NoOne
  <2>1. a \in Agents /\ t \in Teams /\ Tends(t, a) /\ Ending(t, a) /\ Halts(t0, t)
    BY <1>1, <1>2, <1>5 DEF OnTheWay, WayOn, Tends, Good
  <2>2. PICK todo \in Seq(Agents) : todo = t.stop[a][1].todo
    BY <2>1, FramesOf DEF Frames
  <2>3. PICK I : I = {i \in 1 .. Len(todo) : CanStop(t, todo[i])}
    OBVIOUS
  <2>4. PICK next : next = IF I # {} THEN Min(I) ELSE 0
    OBVIOUS
  <2>5. I \in SUBSET (1 .. Len(todo)) /\ Len(todo) \in Nat
    BY <2>3
  <2>6. next \in 0 .. Len(todo) /\ (I # {} => next \in I)
    BY SMTT(30), <2>4, <2>5, Selects
  <2>7. new = IF next = 0
              THEN [team |-> Detach(Awake(Reframed(t, a, <<>>, NoOne), a), t.stop[a][1].wait),
              agent |-> NoOne]
              ELSE [team |-> Mark(Reframed(t, a, SubSeq(todo, next + 1, Len(todo)), todo[next]),
              todo[next], a),
                    agent |-> todo[next]]
    <3>1. [t EXCEPT !.stop[a][1].todo = <<>>, !.stop[a][1].on = NoOne, !.resting = @ \ {a}]
            = Awake(Reframed(t, a, <<>>, NoOne), a)
      BY <2>1 DEF Awake, Reframed, Teams
    <3> QED
      BY ZenonT(40), <1>1, <1>2, <1>3, <1>5, <2>2, <2>3, <2>4, <3>1 DEF StopsNext, SelectInSeq, Reframed
  <2>8. CASE next = 0
    <3>1. PICK d : d = Awake(Reframed(t, a, <<>>, NoOne), a)
      OBVIOUS
    <3>2. PICK u : u = Detach(d, t.stop[a][1].wait)
      OBVIOUS
    <3>3. Carries(t, u)
      BY <2>1, <3>1, <3>2, AbortCarries
    <3>4. new.team = u
      BY <2>7, <2>8, <3>1, <3>2
    <3>5. Halts(t0, u)
      BY <2>1, <3>3, HaltsMore
    <3> QED
      BY <1>3, <3>4, <3>5
  <2>9. CASE next # 0
    <3>1. next \in I
      BY <2>4, <2>6, <2>9
    <3>2. next \in 1 .. Len(todo) /\ CanStop(t, todo[next])
      BY <2>3, <3>1
    <3>3. PICK child \in Agents : child = todo[next]
      BY <3>2
    <3>4. PICK order : order = SubSeq(todo, next + 1, Len(todo))
      OBVIOUS
    <3>5. order \in Seq(Agents) /\ \A i \in 1 .. Len(order) : \E j \in 1 .. Len(todo) : order[i] = todo[j]
      <4>1. order \in Seq(Agents)
        BY <2>5, <3>2, <3>4
      <4>2. ASSUME NEW i \in 1 .. Len(order) PROVE \E j \in 1 .. Len(todo) : order[i] = todo[j]
        <5>1. Len(order) = Len(todo) - next
          BY <2>5, <3>2, <3>4
        <5>2. next + i \in 1 .. Len(todo) /\ order[i] = todo[next + i]
          BY <2>5, <3>2, <3>4, <5>1
        <5> QED
          BY <5>2
      <4> QED
        BY <4>1, <4>2
    <3>6. \A j \in 1 .. Len(todo) : todo[j] \in Children(t, a)
      BY <2>1, <2>2 DEF Tends, Todo
    <3>7. \A i \in 1 .. Len(order) : order[i] \in Children(t, a)
      BY <3>5, <3>6
    <3>8. PICK r : r = Reframed(t, a, order, child)
      OBVIOUS
    <3>9. /\ Tends(r, NoOne) /\ Spares(t, r) /\ r.parent = t.parent /\ r.state = t.state
          /\ \A b \in Agents : Ending(r, b) <=> Ending(t, b)
      BY <2>1, <3>5, <3>7, <3>8, RestsTends
    <3>10. CanStop(r, child)
      BY <3>2, <3>3, <3>9 DEF CanStop, Live
    <3>11. PICK u : u = Mark(r, child, a)
      OBVIOUS
    <3>12. Halts(t, r)
      <4>1. PICK c \in Agents \cup {NoOne} : c = child
        OBVIOUS
      <4>2. Carries(t, r)
        BY <2>1, <3>5, <3>8, <4>1, ReframedCarries
      <4> QED
        BY <4>2, HaltsMore
    <3>13. Marks(r) /\ a \in Agents => r.state[a] # "waiting"
      BY <2>1, <3>9 DEF Marks
    <3>14. Halts(r, u)
      BY <3>9, <3>10, <3>11, <3>13, MarkHalts
    <3>15. Halts(t0, u)
      BY <2>1, <3>12, <3>14, HaltsMore
    <3>16. new.team = u
      BY <2>7, <2>9, <3>3, <3>4, <3>8, <3>11
    <3> QED
      BY <1>3, <3>15, <3>16
  <2> QED
    BY <2>8, <2>9
<1> QED
  BY <1>4, <1>5

\* The whole way down.
LEMMA UnwindHalts ==
  ASSUME NEW t, NEW a \in Agents, Tends(t, a), Ending(t, a)
  PROVE  Halts(t, Unwind(t, a))
<1> DEFINE n == MaxAgents
           W == [team : Teams, agent : Agents \cup {NoOne}]
           X == [s \in SUBSET (1 .. n) |->
                    {at \in W : /\ OnTheWay(t, at, Cardinality(s) + 1) /\ WayOn(t, at)
                              /\ Halts(t, at.team)}]
           first == [team |-> t, agent |-> a]
<1>1. n \in Nat /\ Agents \in SUBSET Agents /\ Cardinality(Agents) = n
  BY NumbersOf
<1>2. PICK line : line = InOrder(Agents)
  OBVIOUS
<1>3. DOMAIN line = 1 .. n /\ line \in [1 .. n -> Agents]
  BY <1>1, <1>2, InOrderLists
<1>4. first \in X[{}]
  <2>1. t \in Teams /\ Good(t, a)
    BY DEF Tends, Good
  <2>2. Cardinality(Enders(t)) >= 1
    <3>1. Enders(t) \in SUBSET Agents /\ a \in Enders(t) /\ {} \in SUBSET Agents /\ a \notin {}
      BY DEF Enders
    <3>2. Cardinality({} \cup {a}) = Cardinality({}) + 1
      BY <3>1, Counts
    <3>3. {} \cup {a} \in SUBSET Enders(t)
      BY <3>1
    <3>4. Cardinality({} \cup {a}) <= Cardinality(Enders(t)) /\ Cardinality(Enders(t)) \in Nat
      BY <3>1, <3>3, Counts
    <3>5. Cardinality({}) = 0
      BY FS_EmptySet
    <3> QED
      BY <3>2, <3>4, <3>5
  <2>3. first \in W /\ first.team = t /\ first.agent = a
    BY <2>1
  <2>4. Cardinality({}) + 1 = 1
    BY FS_EmptySet
  <2>5. OnTheWay(t, first, 1)
    BY <2>1, <2>2, <2>3 DEF OnTheWay
  <2>6. {} \in SUBSET (1 .. n)
    OBVIOUS
  <2>7. WayOn(t, first) /\ Halts(t, first.team)
    BY <2>3, SparesMore, HaltsMore DEF WayOn, StillEnding
  <2> HIDE DEF n, W, first
  <2> QED
    BY <2>3, <2>4, <2>5, <2>6, <2>7
<1>5. ASSUME NEW s \in SUBSET (1 .. n), NEW i \in (1 .. n) \ s, NEW at \in X[s]
      PROVE  StopsNext(at, line[i]) \in X[s \cup {i}]
  <2>1. at \in W /\ OnTheWay(t, at, Cardinality(s) + 1) /\ WayOn(t, at) /\ Halts(t, at.team)
    OBVIOUS
  <2>2. IsFiniteSet(s) /\ Cardinality(s) \in Nat /\ s \cup {i} \in SUBSET (1 .. n)
    BY <1>1, Positions
  <2>3. Cardinality(s \cup {i}) = Cardinality(s) + 1
    BY <2>2, FS_AddElement
  <2>4. PICK new : new = StopsNext(at, line[i])
    OBVIOUS
  <2>h. Halts(t, new.team)
    BY <2>1, <2>2, <2>4, StopsNextHalts
  <2>5. OnTheWay(t, new, Cardinality(s) + 1 + 1) /\ WayOn(t, new)
    BY <2>1, <2>2, <2>4, StopsNextGood, StopsNextTends
  <2>6. new \in W
    BY <2>5 DEF OnTheWay
  <2>7. OnTheWay(t, new, Cardinality(s \cup {i}) + 1)
    BY <2>2, <2>3, <2>5
  <2> HIDE DEF n, W
  <2> QED
    BY <2>2, <2>4, <2>5, <2>6, <2>7, <2>h
<1>6. PICK last : last = FoldLeft(StopsNext, first, line)
  OBVIOUS
<1>7. last \in X[1 .. n]
  <2> HIDE DEF X, n, first
  <2> QED BY <1>1, <1>3, <1>4, <1>5, <1>6, FoldStops
<1>8. Halts(t, last.team)
  BY <1>7
<1>9. Unwind(t, a) = last.team
  BY <1>2, <1>6 DEF Unwind
<1> QED
  BY <1>8, <1>9

\* stop.
LEMMA StopHalts ==
  ASSUME NEW t, Tends(t, NoOne), NEW a \in Agents, NEW by,
         Marks(t) /\ by \in Agents => t.state[by] # "waiting", NEW u, u = Stop(t, a, by)
  PROVE  Halts(t, u)
<1>1. CASE CanStop(t, a)
  <2>1. PICK m : m = Mark(t, a, by)
    OBVIOUS
  <2>2. Tends(m, a) /\ Ending(m, a)
    BY <1>1, <2>1, MarkStrikes
  <2>3. Halts(t, m)
    BY <1>1, <2>1, MarkHalts
  <2>4. u = Unwind(m, a)
    BY <1>1, <2>1 DEF Stop
  <2>5. Halts(m, u)
    BY <2>2, <2>4, UnwindHalts
  <2> QED
    BY <2>3, <2>5, HaltsMore
<1>2. CASE ~CanStop(t, a)
  BY <1>2, HaltsMore DEF Stop
<1> QED
  BY <1>1, <1>2

------------------------------------------------------------------------------
(* The ends of stops drive the team on *)

\* CallEnds changes calls only.
LEMMA CallEndsCarries ==
  ASSUME NEW t \in Teams, NEW a, NEW u, u = CallEnds(t, a)
  PROVE  Carries(t, u)
<1>1. PICK c : c = [y \in Agents |-> IF t.call[y] = a THEN NoOne ELSE t.call[y]]
  OBVIOUS
<1>2. c \in [Agents -> Agents \cup {NoOne}]
  BY <1>1 DEF Teams
<1>3. u = [t EXCEPT !.call = c]
  BY <1>1, <1>2 DEF CallEnds, Teams
<1>4. /\ u.parent = t.parent /\ u.silent = t.silent /\ u.owed = t.owed /\ u.stop = t.stop
      /\ u.state = t.state /\ u.line = t.line
  BY <1>3 DEF Teams
<1> QED
  BY <1>4, AsideCarries

\* The stop of the parent goes on.
LEMMA GoesOnHalts ==
  ASSUME NEW t, Tends(t, NoOne), NEW parent, NEW a, NEW u, u = GoesOn(t, parent, a)
  PROVE  Halts(t, u)
<1>1. CASE parent \in Agents /\ Ending(t, parent) /\ t.stop[parent][1].on = a
  <2>1. Tends(t, parent)
    BY GoodAlso DEF Tends
  <2>2. u = Unwind(t, parent)
    BY <1>1 DEF GoesOn
  <2> QED
    BY <1>1, <2>1, <2>2, UnwindHalts
<1>2. CASE ~(parent \in Agents /\ Ending(t, parent) /\ t.stop[parent][1].on = a)
  BY <1>2, HaltsMore DEF GoesOn
<1> QED
  BY <1>1, <1>2

\* Whoever waits for a run whose end all that wait for it heard of has another that helps it.
LEMMA HeardDrives ==
  ASSUME NEW t, NEW u, NEW a \in Agents, Cares(t, u, {a}),
         Hears(t, u, a, a \in t.silent), ~Live(t, a)
  PROVE  Cares(t, u, {})
<1>1. ASSUME NEW p \in Agents, u.state[p] = "waiting"
      PROVE  t.state[p] = "waiting" /\ \A c \in Agents : Helps(t, p, c) => Helps(u, p, c)
  <2>1. t.state[p] = "waiting" /\ \A c \in Agents \ {a} : Helps(t, p, c) => Helps(u, p, c)
    BY <1>1 DEF Cares
  <2>2. ~Helps(t, p, a)
    BY <1>1 DEF Hears, Helps, Children
  <2> QED
    BY <2>1, <2>2
<1> QED
  BY <1>1 DEF Cares

\* A stop that ends while its agent runs again drives on.
LEMMA StopOverDrives ==
  ASSUME NEW t \in Teams, NEW a \in Agents, Ending(t, a), NEW o, o = StopOver(t, a),
         Marks(t) => Live(t, a)
  PROVE  Drives(t, o)
<1>1. /\ o.parent = t.parent /\ o.silent = t.silent \ {a} /\ o.owed = t.owed /\ o.line = t.line
      /\ o.state = t.state /\ o.stop[a] = <<>>
      /\ \A b \in Agents : b # a => o.stop[b] = t.stop[b]
  BY DEF StopOver, Teams
<1>2. Placed(t) => Placed(o)
  BY <1>1 DEF Placed
<1>3. Marks(t) => Marks(o)
  BY <1>1 DEF Marks, Ending, Live
<1>4. ASSUME Marks(t), NEW p \in Agents, NEW c \in Agents, Helps(t, p, c)
      PROVE  Helps(o, p, c)
  BY <1>1, <1>4 DEF Helps, Children, Known, Live, Ending
<1>5. Marks(t) => Cares(t, o, {})
  BY <1>1, <1>4 DEF Cares
<1> QED
  BY <1>2, <1>3, <1>5 DEF Drives

\* The end of a stop.
LEMMA EndStopDrives ==
  ASSUME NEW t, Tends(t, NoOne), NEW a \in Agents, Aborting(t, a), NEW u, u = EndStop(t, a)
  PROVE  Drives(t, u)
<1>0. t \in Teams /\ Good(t, NoOne) /\ Posted(t) /\ Ending(t, a)
  BY DEF Tends, Good, Aborting
<1>1. PICK o : o = StopOver(t, a)
  OBVIOUS
<1>2. o \in Teams /\ Sheds(t, o, a)
  <2>1. o \in Teams
    BY <1>0, <1>1 DEF Teams, StopOver, Stops
  <2>2. Sheds(t, o, a)
    BY <1>0, <1>1 DEF Teams, StopOver, Sheds
  <2> QED
    BY <2>1, <2>2
<1>3. Good(o, NoOne)
  BY <1>0, <1>2, ShedsGood
<1>4. Alike(t, o)
  BY <1>0, <1>1 DEF Teams, StopOver, Alike, AlikeOf, Ending
<1>5. Firm(t, o) /\ Lasts(t, o)
  BY <1>2 DEF Sheds, Firm, Lasts, Known, Ending
<1>6. Tends(o, NoOne) /\ Posted(o)
  <2>1. Posted(o) /\ Kept(t, o)
    BY <1>0, <1>4, AlikeKept
  <2> QED
    BY <1>3, <1>5, <2>1, FirmTends
<1>7. PICK e : e = IF t.stop[a][1].own /\ t.state[a] = "stopped"
                   THEN Finish(t, a, a \in t.silent) ELSE Pump(o)
  OBVIOUS
<1>8. Tends(e, NoOne) /\ Drives(t, e)
  <2>1. CASE t.stop[a][1].own /\ t.state[a] = "stopped"
    <3>1. t.state[a] \notin ActiveStates \cup {"asking"} /\ Known(t, a)
      BY <2>1 DEF ActiveStates, Known
    <3>2. Tends(e, NoOne)
      BY <1>7, <2>1, <3>1, FinishSteady
    <3>3. t.state[a] \in {"idle", "failed", "stopped"} /\ ~Live(t, a)
      BY <2>1 DEF Live, LiveStates
    <3>4. PICK quiet : quiet = (a \in t.silent)
      OBVIOUS
    <3>5. e = Finish(t, a, quiet)
      BY <1>7, <2>1, <3>4
    <3>6. /\ Placed(t) => Placed(e)
          /\ Marks(t) => Marks(e) /\ Cares(t, e, {a}) /\ Hears(t, e, a, quiet)
      BY <3>3, <3>5, FinishDrives
    <3>7. Marks(t) => Cares(t, e, {})
      BY <3>3, <3>4, <3>6, HeardDrives
    <3> QED
      BY <3>2, <3>6, <3>7 DEF Drives
  <2>2. CASE ~(t.stop[a][1].own /\ t.state[a] = "stopped")
    <3>1. Tends(e, NoOne)
      BY <1>6, <1>7, <2>2, PumpSteady
    <3>2. Marks(t) => Live(t, a)
      BY <1>0, <2>2 DEF Marks
    <3>3. Drives(t, o)
      BY <1>0, <1>1, <3>2, StopOverDrives
    <3>4. Carries(o, e)
      <4>1. e = Pump(o) /\ o \in Teams /\ Sound(o, NoOne)
        BY <1>2, <1>3, <1>7, <2>2 DEF Good
      <4> QED
        BY <1>6, <4>1, PumpCarries
    <3> QED
      BY <3>1, <3>3, <3>4, CarriesDrives, DrivesMore
  <2> QED
    BY <2>1, <2>2
<1>9. PICK c : c = CallEnds(e, a)
  OBVIOUS
<1>10. Tends(c, NoOne) /\ Drives(e, c)
  <2>1. Tends(c, NoOne)
    BY <1>8, <1>9, CallEndsSpares
  <2>2. Carries(e, c)
    BY <1>8, <1>9, CallEndsCarries DEF Tends, Good
  <2> QED
    BY <2>1, <2>2, CarriesDrives
<1>11. u = GoesOn(c, t.parent[a], a)
  BY <1>1, <1>7, <1>9 DEF EndStop, StopOver
<1>12. Drives(c, u)
  BY <1>10, <1>11, GoesOnHalts DEF Halts
<1> QED
  BY <1>8, <1>10, <1>12, DrivesMore

\* So do the ends of those that had nothing to abort: one,
LEMMA SettleNextDrives ==
  ASSUME NEW t, Tends(t, NoOne), NEW n
  PROVE  Drives(t, SettleNext(t, n))
<1>1. PICK ready : ready = {a \in Agents : Aborting(t, a) /\ ~t.stop[a][1].held}
  OBVIOUS
<1>2. CASE ready = {}
  BY <1>1, <1>2, DrivesMore DEF SettleNext
<1>3. CASE ready # {}
  <2>1. ready \in SUBSET Nat
    BY <1>1, NumbersOf
  <2>2. \E a \in ready : \A b \in ready : a <= b
    BY <1>3, <2>1, LeastOf
  <2>3. PICK a : a = CHOOSE c \in ready : \A b \in ready : c <= b
    OBVIOUS
  <2>4. a \in ready
    BY <2>2, <2>3
  <2>5. SettleNext(t, n) = EndStop(t, a)
    BY <1>1, <1>3, <2>3 DEF SettleNext
  <2> QED
    BY <1>1, <2>4, <2>5, EndStopDrives
<1> QED
  BY <1>2, <1>3

\* and all.
LEMMA SettledDrives ==
  ASSUME NEW t, Tends(t, NoOne)
  PROVE  Drives(t, Settled(t))
<1> DEFINE n == MaxAgents
           G == {u \in Teams : Tends(u, NoOne) /\ Drives(t, u)}
           X == [s \in SUBSET (1 .. n) |-> G]
<1>1. n \in Nat /\ Agents \in SUBSET Agents /\ Cardinality(Agents) = n
  BY NumbersOf
<1>2. PICK line : line = InOrder(Agents)
  OBVIOUS
<1>3. DOMAIN line = 1 .. n
  BY <1>1, <1>2, InOrderLists
<1>4. t \in X[{}]
  BY DrivesMore DEF Tends, Good
<1>5. ASSUME NEW s \in SUBSET (1 .. n), NEW i \in (1 .. n) \ s, NEW v \in X[s]
      PROVE  SettleNext(v, line[i]) \in X[s \cup {i}]
  <2>1. PICK u : u = SettleNext(v, line[i])
    OBVIOUS
  <2>2. Tends(v, NoOne) /\ Drives(t, v)
    OBVIOUS
  <2>3. Tends(u, NoOne) /\ Drives(v, u)
    BY <2>1, <2>2, SettleNextSpares, SettleNextDrives
  <2>4. Drives(t, u)
    BY <2>2, <2>3, DrivesMore
  <2> QED
    BY <2>1, <2>3, <2>4 DEF Tends, Good
<1>6. FoldLeft(SettleNext, t, line) \in X[1 .. n]
  <2> HIDE DEF X, n
  <2> QED BY <1>1, <1>3, <1>4, <1>5, FoldSettle
<1> QED
  BY <1>2, <1>6 DEF Settled

\* The subagents of an agent that failed are stopped by a caller that does not wait.
LEMMA ChildrenStoppedHalts ==
  ASSUME NEW t, Tends(t, NoOne), NEW line \in Seq(Agents)
  PROVE  Halts(t, ChildrenStopped(t, line))
<1> DEFINE n == Len(line)
           G == {u \in Teams : Tends(u, NoOne) /\ Halts(t, u)}
           X == [s \in SUBSET (1 .. n) |-> G]
<1>1. n \in Nat /\ DOMAIN line = 1 .. n /\ \A i \in 1 .. n : line[i] \in Agents
  OBVIOUS
<1>2. t \in X[{}]
  BY HaltsMore DEF Tends, Good
<1>3. ASSUME NEW s \in SUBSET (1 .. n), NEW i \in (1 .. n) \ s, NEW v \in X[s]
      PROVE  Stop(v, line[i], NoOne) \in X[s \cup {i}]
  <2>1. Tends(v, NoOne) /\ Halts(t, v)
    OBVIOUS
  <2>2. PICK c \in Agents : c = line[i]
    BY <1>1
  <2>3. PICK u : u = Stop(v, c, NoOne)
    OBVIOUS
  <2>4. PICK by : by = NoOne
    OBVIOUS
  <2>5. Tends(u, NoOne)
    <3>1. CASE CanStop(v, c)
      BY <2>1, <2>3, <2>4, <3>1, StopStrikes
    <3>2. CASE ~CanStop(v, c)
      BY <2>1, <2>3, <3>2 DEF Stop
    <3> QED
      BY <3>1, <3>2
  <2>6. Halts(v, u)
    <3>1. by \notin Agents
      BY <2>4, NumbersOf
    <3>2. u = Stop(v, c, by)
      BY <2>3, <2>4
    <3> QED
      BY <2>1, <3>1, <3>2, StopHalts
  <2>7. u \in G
    BY <2>1, <2>5, <2>6, HaltsMore DEF Tends, Good
  <2> HIDE DEF G
  <2> QED
    BY <2>2, <2>3, <2>7
<1>4. ChildrenStopped(t, line) \in X[1 .. n]
  <2> HIDE DEF X, n
  <2> QED BY <1>1, <1>2, <1>3, FoldChildren
<1> QED
  BY <1>4

------------------------------------------------------------------------------
(* The ends of runs drive the team on *)

\* Everyone stands where its state says, and everyone that waits has one that will move it.
Driving(t) == Placed(t) /\ Marks(t) /\ Minds(t)

\* What drives on keeps that.
LEMMA DrivesOn ==
  ASSUME NEW t, NEW u, Driving(t), Drives(t, u)
  PROVE  Driving(u)
BY DrivesMinds DEF Driving, Drives

\* What is not about who waits, or where.
LEMMA AsidesCarry ==
  ASSUME NEW t \in Teams, NEW a \in Agents
  PROVE  /\ Carries(t, Unprompted(t, a)) /\ Carries(t, UnreadLeft(t, a))
         /\ Carries(t, ParkResume(t, a)) /\ Carries(t, Quits(t, a)) /\ Carries(t, Closed(t, a))
         /\ Carries(t, Left(t, a)) /\ Carries(t, RunEnded(t, a)) /\ Carries(t, Unblock(t, a))
<1>1. Carries(t, Unprompted(t, a))
  <2>1. PICK u : u = Unprompted(t, a)
    OBVIOUS
  <2>2. /\ u.parent = t.parent /\ u.silent = t.silent /\ u.owed = t.owed /\ u.stop = t.stop
        /\ u.state = t.state /\ u.line = t.line
    BY <2>1 DEF Unprompted, Teams
  <2> QED
    BY <2>1, <2>2, AsideCarries
<1>2. Carries(t, UnreadLeft(t, a))
  <2>1. PICK u : u = UnreadLeft(t, a)
    OBVIOUS
  <2>2. /\ u.parent = t.parent /\ u.silent = t.silent /\ u.owed = t.owed /\ u.stop = t.stop
        /\ u.state = t.state /\ u.line = t.line
    BY <2>1 DEF UnreadLeft, Teams
  <2> QED
    BY <2>1, <2>2, AsideCarries
<1>3. Carries(t, ParkResume(t, a))
  <2>1. PICK u : u = ParkResume(t, a)
    OBVIOUS
  <2>2. /\ u.parent = t.parent /\ u.silent = t.silent /\ u.owed = t.owed /\ u.stop = t.stop
        /\ u.state = t.state /\ u.line = t.line
    BY <2>1 DEF ParkResume, Teams
  <2> QED
    BY <2>1, <2>2, AsideCarries
<1>4. Carries(t, Quits(t, a))
  <2>1. PICK u : u = Quits(t, a)
    OBVIOUS
  <2>2. /\ u.parent = t.parent /\ u.silent = t.silent /\ u.owed = t.owed /\ u.stop = t.stop
        /\ u.state = t.state /\ u.line = t.line
    BY <2>1 DEF Quits, Teams
  <2> QED
    BY <2>1, <2>2, AsideCarries
<1>5. Carries(t, Closed(t, a))
  <2>1. PICK u : u = Closed(t, a)
    OBVIOUS
  <2>2. /\ u.parent = t.parent /\ u.silent = t.silent /\ u.owed = t.owed /\ u.stop = t.stop
        /\ u.state = t.state /\ u.line = t.line
    BY <2>1 DEF Closed, Teams
  <2> QED
    BY <2>1, <2>2, AsideCarries
<1>6. Carries(t, Left(t, a))
  <2>1. PICK u : u = Left(t, a)
    OBVIOUS
  <2>2. /\ u.parent = t.parent /\ u.silent = t.silent /\ u.owed = t.owed /\ u.stop = t.stop
        /\ u.state = t.state /\ u.line = t.line
    BY <2>1 DEF Left, Teams
  <2> QED
    BY <2>1, <2>2, AsideCarries
<1>7. Carries(t, RunEnded(t, a))
  <2>1. PICK u : u = RunEnded(t, a)
    OBVIOUS
  <2>2. /\ u.parent = t.parent /\ u.silent = t.silent /\ u.owed = t.owed /\ u.stop = t.stop
        /\ u.state = t.state /\ u.line = t.line
    BY <2>1 DEF RunEnded, Teams
  <2> QED
    BY <2>1, <2>2, AsideCarries
<1>8. Carries(t, Unblock(t, a))
  <2>1. PICK u : u = Unblock(t, a)
    OBVIOUS
  <2>2. /\ u.parent = t.parent /\ u.silent = t.silent /\ u.owed = t.owed /\ u.stop = t.stop
        /\ u.state = t.state /\ u.line = t.line
    BY <2>1 DEF Unblock, Teams
  <2> QED
    BY <2>1, <2>2, AsideCarries
<1> QED
  BY <1>1, <1>2, <1>3, <1>4, <1>5, <1>6, <1>7, <1>8

\* Who ends its run helps nobody any more.
LEMMA OutDrives ==
  ASSUME NEW t \in Teams, NEW a \in Agents, ~Ending(t, a), t.state[a] # "queued",
         NEW s, s \in {"idle", "failed", "interrupted"}, NEW u,
         u.state = [t.state EXCEPT ![a] = s], u.parent = t.parent, u.silent = t.silent,
         u.owed = t.owed, u.stop = t.stop, u.line = t.line
  PROVE  (Placed(t) => Placed(u)) /\ (Marks(t) => Marks(u) /\ Cares(t, u, {a}))
<1>1. u.state[a] = s /\ \A b \in Agents : b # a => u.state[b] = t.state[b]
  BY DEF Teams
<1>2. Placed(t) => Placed(u)
  <2>1. \A b \in Agents : u.state[b] = "queued" <=> t.state[b] = "queued"
    BY <1>1
  <2> QED
    BY <2>1 DEF Placed
<1>3. Marks(t) => Marks(u)
  BY <1>1 DEF Marks, Ending, Live
<1>4. ASSUME NEW p \in Agents, u.state[p] = "waiting", NEW c \in Agents, c # a, Helps(t, p, c)
      PROVE  Helps(u, p, c)
  BY <1>1, <1>4 DEF Helps, Children, Known, Live, Ending
<1>5. ASSUME NEW p \in Agents, u.state[p] = "waiting" PROVE t.state[p] = "waiting"
  BY <1>1, <1>5
<1>6. Cares(t, u, {a})
  BY <1>4, <1>5 DEF Cares
<1> QED
  BY <1>2, <1>3, <1>6

\* Once all that waited for it heard of its end, all that wait have another that helps.
LEMMA AllHeardDrives ==
  ASSUME NEW t, NEW w, NEW u, NEW a \in Agents, w.parent = t.parent,
         \A b \in Agents : t.owed[b] \subseteq w.owed[b],
         Cares(t, u, {a}), Hears(w, u, a, FALSE)
  PROVE  Cares(t, u, {})
<1>1. ASSUME NEW p \in Agents, u.state[p] = "waiting"
      PROVE  t.state[p] = "waiting" /\ \A c \in Agents : Helps(t, p, c) => Helps(u, p, c)
  <2>1. t.state[p] = "waiting" /\ \A c \in Agents \ {a} : Helps(t, p, c) => Helps(u, p, c)
    BY <1>1 DEF Cares
  <2>2. ~(p = t.parent[a]) /\ a \notin t.owed[p]
    BY <1>1 DEF Hears
  <2>3. ~Helps(t, p, a)
    BY <2>2 DEF Helps, Children
  <2> QED
    BY <2>1, <2>3
<1> QED
  BY <1>1 DEF Cares

\* settle, of who is still owed something: one of those helps it.
LEMMA WaitsOnDriving ==
  ASSUME NEW t \in Teams, NEW a \in Agents, Driving(t), ~Ending(t, a), t.state[a] # "queued",
         Live(t, a), WaitsFor(t, a) # {}, NEW v, v.state = [t.state EXCEPT ![a] = "waiting"],
         v.parent = t.parent, v.silent = t.silent, v.owed = t.owed, v.stop = t.stop, v.line = t.line
  PROVE  Driving(v)
<1>1. v.state[a] = "waiting" /\ \A b \in Agents : b # a => v.state[b] = t.state[b]
  BY DEF Teams
<1>2. \A b \in Agents : Live(t, b) => Live(v, b)
  BY <1>1 DEF Live, LiveStates
<1>3. Placed(v)
  <2>1. \A b \in Agents : v.state[b] = "queued" <=> t.state[b] = "queued"
    BY <1>1
  <2> QED
    BY <2>1 DEF Driving, Placed
<1>4. Marks(v)
  BY <1>1 DEF Driving, Marks, Ending, Live
<1>5. ASSUME NEW p \in Agents, NEW c \in Agents, Helps(t, p, c) PROVE Helps(v, p, c)
  BY <1>1, <1>2, <1>5 DEF Helps, Children, Known, Ending
<1>6. ASSUME NEW p \in Agents, v.state[p] = "waiting", p # a PROVE \E c \in Agents : Helps(v, p, c)
  <2>1. \E c \in Agents : Helps(t, p, c)
    BY <1>1, <1>6 DEF Driving, Minds
  <2> QED
    BY <1>5, <2>1
<1>7. \E c \in Agents : Helps(v, a, c)
  <2>1. PICK c : c \in WaitsFor(t, a)
    OBVIOUS
  <2>2. c \in Agents /\ Helps(t, a, c)
    BY <2>1 DEF WaitsFor, LiveChildren, Children, OwedLive, Teams, Helps
  <2> QED
    BY <1>5, <2>2
<1>8. Minds(v)
  BY <1>6, <1>7 DEF Minds
<1> QED
  BY <1>3, <1>4, <1>8 DEF Driving

\* settle.
LEMMA SettleDriving ==
  ASSUME NEW t, Tends(t, NoOne), NEW a \in Agents, Idles(t, a), t.going[a] = "no", t.resume[a] = {},
         Driving(t), ~Ending(t, a), t.state[a] \in {"running", "asking"}
  PROVE  Driving(Settle(t, a))
<1>0. t \in Teams
  BY DEF Tends, Good
<1>1. PICK e : e = Unprompted(t, a)
  OBVIOUS
<1>2. e \in Teams /\ Same(t, e) /\ SetAside(t, e, a)
  BY <1>0, <1>1, UnpromptedSame, AsideIs
<1>3. Tends(e, NoOne) /\ Idles(e, a) /\ e.going[a] = "no" /\ e.resume[a] = {}
  BY <1>2, SetAsideTends DEF SetAside
<1>4. /\ e.parent = t.parent /\ e.silent = t.silent /\ e.owed = t.owed /\ e.stop = t.stop
      /\ e.state = t.state /\ e.line = t.line
  BY <1>0, <1>1 DEF Unprompted, Teams
<1>5. PICK v : v = Put(e, a, "waiting")
  OBVIOUS
<1>6. PICK w : w = Put(e, a, "idle")
  OBVIOUS
<1>7. PICK s \in {"waiting", "idle", "failed", "interrupted", "queued"} : s = "waiting"
  OBVIOUS
<1>8. PICK r \in {"waiting", "idle", "failed", "interrupted", "queued"} : r = "idle"
  OBVIOUS
<1>9. PICK quiet : quiet = (a \in t.silent)
  OBVIOUS
<1>10. Settle(t, a) = IF WaitsFor(t, a) # {} THEN Pump(v) ELSE Finish(w, a, quiet)
  BY <1>1, <1>5, <1>6, <1>9 DEF Settle, Unprompted, Put
<1>11. CASE WaitsFor(t, a) # {}
  <2>1. Tends(v, NoOne)
    <3>1. Good(v, NoOne) /\ Idles(v, a) /\ v.state[a] = s
      BY <1>3, <1>5, <1>7, PutGood DEF Tends
    <3> QED
      BY <1>3, <1>5, <1>7, <3>1, PutTends
  <2>2. /\ v.state = [t.state EXCEPT ![a] = "waiting"] /\ v.parent = t.parent
        /\ v.silent = t.silent /\ v.owed = t.owed /\ v.stop = t.stop /\ v.line = t.line
    BY <1>2, <1>4, <1>5 DEF Put, Teams
  <2>3. Live(t, a) /\ t.state[a] # "queued"
    BY DEF Live, LiveStates
  <2>4. Driving(v)
    BY <1>0, <1>11, <2>2, <2>3, WaitsOnDriving
  <2>5. PICK u : u = Pump(v)
    OBVIOUS
  <2>6. Carries(v, u)
    BY <2>1, <2>5, PumpCarries DEF Tends, Good
  <2>7. Driving(u)
    BY <2>4, <2>6, CarriesDrives, DrivesOn
  <2> QED
    BY <1>10, <1>11, <2>5, <2>7
<1>12. CASE WaitsFor(t, a) = {}
  <2>1. Tends(w, NoOne) /\ w.state[a] = "idle"
    <3>1. Good(w, NoOne) /\ Idles(w, a) /\ w.state[a] = r
      BY <1>3, <1>6, <1>8, PutGood DEF Tends
    <3> QED
      BY <1>3, <1>6, <1>8, <3>1, PutTends
  <2>2. /\ w.state = [t.state EXCEPT ![a] = r] /\ w.parent = t.parent
        /\ w.silent = t.silent /\ w.owed = t.owed /\ w.stop = t.stop /\ w.line = t.line
    BY <1>2, <1>4, <1>6, <1>8 DEF Put, Teams
  <2>3. Placed(w) /\ Marks(w) /\ Cares(t, w, {a})
    <3>1. r \in {"idle", "failed", "interrupted"} /\ t.state[a] # "queued"
      BY <1>8
    <3> QED
      BY <1>0, <2>2, <3>1, OutDrives DEF Driving
  <2>4. PICK f : f = Finish(w, a, quiet)
    OBVIOUS
  <2>5. ~Ending(w, a) /\ w.state[a] \in {"idle", "failed", "stopped"}
    BY <2>1, <2>2 DEF Ending
  <2>6. Placed(f) /\ Marks(f) /\ Cares(w, f, {a}) /\ Hears(w, f, a, quiet)
    BY <2>1, <2>3, <2>4, <2>5, FinishDrives
  <2>7. ~quiet
    BY <1>9 DEF Driving, Marks
  <2>8. Cares(t, f, {a}) /\ Hears(w, f, a, FALSE)
    <3>1. Cares(t, f, {a})
      BY <2>3, <2>6, CaresMore
    <3>2. Hears(w, f, a, FALSE)
      BY <2>6, <2>7 DEF Hears
    <3> QED
      BY <3>1, <3>2
  <2>9. Cares(t, f, {})
    BY <2>2, <2>8, AllHeardDrives
  <2>10. Drives(t, f)
    BY <2>6, <2>9 DEF Drives
  <2>11. Driving(f)
    BY <2>10, DrivesOn
  <2> QED
    BY <1>10, <1>12, <2>4, <2>11
<1> QED
  BY <1>11, <1>12

\* fail.
LEMMA FailDrives ==
  ASSUME NEW t, Tends(t, NoOne), NEW a \in Agents, Idles(t, a), ~Ending(t, a), t.going[a] = "no",
         t.resume[a] = {}, t.state[a] # "queued", NEW u, u = Fail(t, a)
  PROVE  Drives(t, u)
<1>0. t \in Teams
  BY DEF Tends, Good
<1>1. PICK r : r = UnreadLeft(t, a)
  OBVIOUS
<1>2. r \in Teams /\ Same(t, r) /\ SetAside(t, r, a)
  BY <1>0, <1>1, ParkedSame, AsideIs
<1>3. Tends(r, NoOne) /\ Idles(r, a) /\ r.going[a] = "no"
  BY <1>2, SetAsideTends
<1>4. PICK e : e = Unprompted(r, a)
  OBVIOUS
<1>5. e \in Teams /\ Same(r, e) /\ SetAside(r, e, a)
  BY <1>2, <1>4, UnpromptedSame, AsideIs
<1>6. Tends(e, NoOne) /\ Idles(e, a) /\ e.going[a] = "no" /\ e.resume[a] = {}
  BY <1>2, <1>3, <1>5, SetAsideTends DEF SetAside
<1>7. /\ e.parent = t.parent /\ e.silent = t.silent /\ e.owed = t.owed /\ e.stop = t.stop
      /\ e.state = t.state /\ e.line = t.line
  <2>1. /\ r.parent = t.parent /\ r.silent = t.silent /\ r.owed = t.owed /\ r.stop = t.stop
        /\ r.state = t.state /\ r.line = t.line
    BY <1>0, <1>1 DEF UnreadLeft, Teams
  <2> QED
    BY <1>2, <1>4, <2>1 DEF Unprompted, Teams
<1>8. PICK f : f = Put(e, a, "failed")
  OBVIOUS
<1>9. PICK s \in {"waiting", "idle", "failed", "interrupted", "queued"} : s = "failed"
  OBVIOUS
<1>10. Good(f, NoOne) /\ Idles(f, a) /\ f.state[a] = "failed"
  BY <1>6, <1>8, <1>9, PutGood DEF Tends
<1>11. Tends(f, NoOne)
  BY <1>6, <1>8, <1>9, <1>10, PutTends
<1>12. /\ f.state = [t.state EXCEPT ![a] = s] /\ f.parent = t.parent /\ f.silent = t.silent
       /\ f.owed = t.owed /\ f.stop = t.stop /\ f.line = t.line
  BY <1>5, <1>7, <1>8, <1>9 DEF Put, Teams
<1>13. (Placed(t) => Placed(f)) /\ (Marks(t) => Marks(f) /\ Cares(t, f, {a}))
  <2>1. s \in {"idle", "failed", "interrupted"}
    BY <1>9
  <2> QED
    BY <1>0, <1>12, <2>1, OutDrives
<1>14. PICK line : line = StopOrder(t, Children(t, a))
  OBVIOUS
<1>15. line \in Seq(Agents) /\ \A i \in 1 .. Len(line) : f.parent[line[i]] = a
  <2>1. Children(t, a) \in SUBSET Agents
    BY DEF Children
  <2>2. line \in Seq(Agents)
    BY <1>14, <2>1, StopOrderTyped
  <2>3. \A i \in 1 .. Len(line) : line[i] \in Children(t, a)
    BY <1>14, <2>1, StopOrderLists
  <2> QED
    BY <1>12, <2>2, <2>3 DEF Children
<1>16. PICK c : c = ChildrenStopped(f, line)
  OBVIOUS
<1>17. Failed(f, a)
  BY <1>10, <1>12 DEF Failed, Ending
<1>18. Tends(c, NoOne) /\ Failed(c, a)
  BY <1>11, <1>15, <1>16, <1>17, ChildrenStoppedSpares, ChildrenStoppedGood DEF Tends
<1>19. Halts(f, c)
  BY <1>11, <1>15, <1>16, ChildrenStoppedHalts
<1>20. PICK quiet : quiet = (a \in t.silent)
  OBVIOUS
<1>21. PICK x : x = Finish(c, a, quiet)
  OBVIOUS
<1>22. ~Ending(c, a) /\ c.state[a] \in {"idle", "failed", "stopped"}
  BY <1>18 DEF Failed
<1>23. /\ Placed(c) => Placed(x)
       /\ Marks(c) => Marks(x) /\ Cares(c, x, {a}) /\ Hears(c, x, a, quiet)
  BY <1>18, <1>21, <1>22, FinishDrives
<1>24. [r EXCEPT !.state[a] = "failed", !.prompting = @ \ {a}] = f
  BY <1>2, <1>4, <1>8 DEF Unprompted, Put, Teams
<1>25. u = x
  BY Zenon, <1>1, <1>14, <1>16, <1>20, <1>21, <1>24 DEF Fail, ChildrenStopped
<1>26. ASSUME Marks(t) PROVE Marks(x) /\ Cares(t, x, {})
  <2>1. Marks(c) /\ Cares(f, c, {}) /\ Cares(t, f, {a})
    BY <1>13, <1>19, <1>26 DEF Halts, Drives
  <2>2. Cares(f, c, {a})
    BY <2>1 DEF Cares
  <2>3. Cares(t, c, {a})
    BY <2>1, <2>2, CaresMore
  <2>4. Marks(x) /\ Cares(c, x, {a}) /\ Hears(c, x, a, quiet)
    BY <1>23, <2>1
  <2>5. Cares(t, x, {a})
    BY <2>3, <2>4, CaresMore
  <2>6. ~quiet
    BY <1>20, <1>26 DEF Marks
  <2>7. c.parent = t.parent /\ \A b \in Agents : t.owed[b] \subseteq c.owed[b]
    BY <1>12, <1>19 DEF Halts
  <2>8. Hears(c, x, a, FALSE)
    BY <2>4, <2>6 DEF Hears
  <2>9. Cares(t, x, {})
    BY <2>5, <2>7, <2>8, AllHeardDrives
  <2> QED
    BY <2>4, <2>9
<1>27. Placed(t) => Placed(x)
  BY <1>13, <1>19, <1>23 DEF Halts, Drives
<1> QED
  BY <1>25, <1>26, <1>27 DEF Drives

\* A run without a fallback fails.
LEMMA FailRunDrives ==
  ASSUME NEW t, Tends(t, NoOne), NEW a \in Agents, Idles(t, a), ~Ending(t, a), t.going[a] = "no",
         t.state[a] # "queued", NEW u, u = FailRun(t, a)
  PROVE  Drives(t, u)
<1>0. t \in Teams
  BY DEF Tends, Good
<1>1. PICK q : q = Quits(t, a)
  OBVIOUS
<1>2. q \in Teams /\ Same(t, q) /\ SetAside(t, q, a)
  BY <1>0, <1>1, LeftSame, AsideIs
<1>3. Tends(q, NoOne) /\ Idles(q, a) /\ q.going[a] = "no"
  BY <1>2, SetAsideTends
<1>4. PICK p : p = ParkResume(q, a)
  OBVIOUS
<1>5. p \in Teams /\ Same(q, p) /\ SetAside(q, p, a) /\ p.resume[a] = {}
  BY <1>2, <1>4, ParkedSame, AsideIs
<1>6. Tends(p, NoOne) /\ Idles(p, a) /\ p.going[a] = "no"
  BY <1>3, <1>5, SetAsideTends
<1>7. p.state = t.state /\ ~Ending(p, a)
  BY <1>2, <1>5 DEF Same, Stays, Keeps, SameFrames
<1>8. u = Fail(p, a)
  BY <1>1, <1>4 DEF FailRun, Quits
<1>9. Drives(p, u)
  BY <1>5, <1>6, <1>7, <1>8, FailDrives
<1>10. Carries(t, q) /\ Carries(q, p)
  BY <1>0, <1>1, <1>2, <1>4, AsidesCarry
<1> QED
  BY <1>9, <1>10, CarriesDrives, DrivesMore

\* A run that falls back stands in the line.
LEMMA FallBackDrives ==
  ASSUME NEW t, Tends(t, NoOne), NEW a \in Agents, Idles(t, a), t.going[a] = "no",
         t.state[a] # "queued", NEW u, u = FallBack(t, a)
  PROVE  Drives(t, u)
<1>0. t \in Teams
  BY DEF Tends, Good
<1>1. PICK r : r = UnreadLeft(t, a)
  OBVIOUS
<1>2. r \in Teams /\ Same(t, r) /\ SetAside(t, r, a)
  BY <1>0, <1>1, ParkedSame, AsideIs
<1>3. Tends(r, NoOne) /\ Idles(r, a) /\ r.going[a] = "no"
  BY <1>2, SetAsideTends
<1>4. PICK e : e = Left(r, a)
  OBVIOUS
<1>5. e \in Teams /\ Same(r, e) /\ SetAside(r, e, a)
  BY <1>2, <1>3, <1>4, LeftSame, AsideIs
<1>6. Tends(e, NoOne) /\ Idles(e, a) /\ e.going[a] = "no"
  BY <1>2, <1>3, <1>5, SetAsideTends
<1>7. PICK f : f = Put(e, a, "queued")
  OBVIOUS
<1>8. PICK s \in {"waiting", "idle", "failed", "interrupted", "queued"} : s = "queued"
  OBVIOUS
<1>9. Tends(f, NoOne)
  <2>1. Good(f, NoOne) /\ Idles(f, a) /\ f.state[a] = s
    BY <1>6, <1>7, <1>8, PutGood DEF Tends
  <2> QED
    BY <1>6, <1>7, <1>8, <2>1, PutTends
<1>10. f = [r EXCEPT !.state[a] = "queued", !.prompting = @ \ {a}, !.held[a] = FALSE,
                     !.continuing = @ \cup {a}]
  BY <1>2, <1>4, <1>7 DEF Left, Put, Teams
<1>11. PICK first \in BOOLEAN : first = FALSE
  OBVIOUS
<1>12. PICK q : q = Enqueue(f, a, first)
  OBVIOUS
<1>13. Tends(q, NoOne)
  BY <1>9, <1>12, EnqueueSteady
<1>14. u = Pump(q)
  BY <1>1, <1>10, <1>11, <1>12 DEF FallBack
<1>15. Carries(q, u)
  BY <1>13, <1>14, PumpCarries DEF Tends, Good
<1>16. Carries(t, r) /\ Carries(r, e)
  BY <1>0, <1>1, <1>2, <1>4, AsidesCarry
<1>17. /\ f.state = [e.state EXCEPT ![a] = "queued"] /\ f.parent = e.parent /\ f.silent = e.silent
       /\ f.owed = e.owed /\ f.stop = e.stop /\ f.line = e.line
  BY <1>5, <1>7 DEF Put, Teams
<1>18. e.state[a] # "queued" /\ f \in Teams
  BY <1>2, <1>5, <1>9 DEF SetAside, Tends, Good
<1>19. Carries(e, q)
  BY <1>5, <1>12, <1>17, <1>18, EnqueueCarries
<1> QED
  BY <1>15, <1>16, <1>19, CarriesMore, CarriesDrives

\* A resume that cannot launch is told to everyone that waits for it.
LEMMA ResumeFailedDrives ==
  ASSUME NEW t, Tends(t, NoOne), NEW a \in Agents, Idles(t, a), ~Ending(t, a), t.going[a] = "no",
         t.state[a] # "queued", NEW v, v = ResumeFailed(t, a)
  PROVE  Drives(t, v)
<1>0. t \in Teams
  BY DEF Tends, Good
<1>1. PICK e : e = RunEnded(t, a)
  OBVIOUS
<1>2. Tends(e, NoOne) /\ e \in Teams /\ Same(t, e) /\ Alike(t, e)
  <2>1. Tends(e, NoOne) /\ e \in Teams /\ Same(t, e)
    BY <1>0, <1>1, RunEndedSteady, RunEndedSame
  <2>2. Alike(t, e)
    BY <1>0, <1>1 DEF Teams, RunEnded, Alike, AlikeOf, Ending
  <2> QED
    BY <2>1, <2>2
<1>3. Idles(e, a) /\ e.going[a] = "no"
  BY <1>2, IdlesOn DEF Alike, AlikeOf, Ending
<1>4. PICK p : p = ParkResume(e, a)
  OBVIOUS
<1>5. p \in Teams /\ Same(e, p) /\ SetAside(e, p, a) /\ p.resume[a] = {}
  BY <1>2, <1>4, ParkedSame, AsideIs
<1>6. Tends(p, NoOne) /\ Idles(p, a) /\ p.going[a] = "no"
  BY <1>2, <1>3, <1>5, SetAsideTends
<1>7. PICK w : w = Put(p, a, "interrupted")
  OBVIOUS
<1>8. PICK s \in {"waiting", "idle", "failed", "interrupted", "queued"} : s = "interrupted"
  OBVIOUS
<1>9. Tends(w, NoOne) /\ Idles(w, a)
  <2>1. Good(w, NoOne) /\ Idles(w, a) /\ w.state[a] = s
    BY <1>6, <1>7, <1>8, PutGood DEF Tends
  <2> QED
    BY <1>5, <1>6, <1>7, <1>8, <2>1, PutTends
<1>10. PICK u : u = Unblock(w, a)
  OBVIOUS
<1>11. Tends(u, NoOne) /\ Known(u, a)
  <2>1. Tends(u, NoOne) /\ Steady(w, u)
    BY <1>9, <1>10, UnblockSteady
  <2> QED
    BY <1>9, <2>1 DEF Idles, Known, Steady, Firm
<1>12. PICK h : h = HandUpFailure(u, a)
  OBVIOUS
<1>13. Tends(h, NoOne)
  BY <1>11, <1>12, HandUpFailureKept
<1>14. Backs(u, h, {a}) /\ (Placed(u) => Placed(h)) /\ Told(u, h, a, FALSE, FALSE)
  BY <1>11, <1>12, HandUpFailureBacks
<1>15. u = [p EXCEPT !.state[a] = "interrupted", !.blocking[a] = FALSE]
  BY <1>7, <1>10 DEF Put, Unblock
<1>16. v = Pump(h)
  BY <1>1, <1>4, <1>12, <1>15 DEF ResumeFailed
<1>17. Carries(h, v)
  BY <1>13, <1>16, PumpCarries DEF Tends, Good
<1>18. /\ p.parent = t.parent /\ p.silent = t.silent /\ p.owed = t.owed /\ p.stop = t.stop
       /\ p.state = t.state /\ p.line = t.line
  <2>1. /\ e.parent = t.parent /\ e.silent = t.silent /\ e.owed = t.owed /\ e.stop = t.stop
        /\ e.state = t.state /\ e.line = t.line
    BY <1>0, <1>1 DEF RunEnded, Teams
  <2> QED
    BY <1>2, <1>4, <2>1 DEF ParkResume, Teams
<1>19. /\ u.state = [t.state EXCEPT ![a] = s] /\ u.parent = t.parent /\ u.silent = t.silent
       /\ u.owed = t.owed /\ u.stop = t.stop /\ u.line = t.line
  BY <1>5, <1>8, <1>15, <1>18 DEF Teams
<1>20. (Placed(t) => Placed(u)) /\ (Marks(t) => Marks(u) /\ Cares(t, u, {a}))
  <2>1. s \in {"idle", "failed", "interrupted"}
    BY <1>8
  <2> QED
    BY <1>0, <1>19, <2>1, OutDrives
<1>21. Backs(u, v, {a}) /\ (Placed(u) => Placed(v))
  BY <1>14, <1>17, BacksMore DEF Carries
<1>22. ASSUME Marks(t) PROVE Marks(v) /\ Cares(t, v, {})
  <2>1. Marks(v) /\ Cares(u, v, {a})
    BY <1>20, <1>21, <1>22, BacksCares
  <2>2. Cares(t, v, {a})
    BY <1>20, <1>22, <2>1, CaresMore
  <2>3. Hears(u, v, a, FALSE)
    <3>1. ASSUME NEW b \in Agents, v.state[b] = "waiting" PROVE h.state[b] = "waiting"
      BY <1>17, <3>1, BacksGo DEF Carries
    <3> QED
      BY <1>14, <3>1 DEF Told, Hears
  <2>4. Cares(t, v, {})
    BY <1>19, <2>2, <2>3, AllHeardDrives
  <2> QED
    BY <2>1, <2>4
<1> QED
  BY <1>20, <1>21, <1>22 DEF Drives

------------------------------------------------------------------------------
(* What sessions do drives the team on *)

\* The first prompt of a launch.
LEMMA LaunchDrives ==
  ASSUME NEW t, Tends(t, NoOne), NEW a \in t.opening, NEW u, u = Run(Launched(t, a), a)
  PROVE  Drives(t, u)
<1>0. t \in Teams /\ a \in Agents /\ t.state[a] = "starting"
  BY DEF Tends, Good, Teams, Sound, Opens
<1>1. PICK v : v = Launched(t, a)
  OBVIOUS
<1>2. /\ v \in Teams /\ v.parent = t.parent /\ v.silent = t.silent /\ v.owed = t.owed
      /\ v.stop = t.stop /\ v.state = t.state /\ v.line = t.line /\ v.held[a]
  BY ZenonT(40), <1>0, <1>1 DEF Teams, Launched
<1>3. u = [v EXCEPT !.state[a] = "running", !.ran[a] = TRUE, !.prompting = @ \cup {a},
                    !.continuing = @ \ {a}]
  BY <1>1, <1>2 DEF Run
<1>4. PICK s \in {"starting", "running"} : s = "running"
  OBVIOUS
<1>5. /\ u.state = [v.state EXCEPT ![a] = s] /\ u.parent = v.parent /\ u.silent = v.silent
      /\ u.owed = v.owed /\ u.stop = v.stop /\ u.line = v.line
  BY <1>2, <1>3, <1>4 DEF Teams
<1>6. u \in Teams
  BY <1>1, LaunchTends DEF Tends, Good
<1>7. Carries(v, u)
  BY <1>0, <1>2, <1>5, <1>6, WorksCarries
<1>8. Carries(t, v)
  BY <1>2, AsideCarries
<1> QED
  BY <1>7, <1>8, CarriesMore, CarriesDrives

\* Who asks and waits for the answer still lives.
LEMMA AskDrives ==
  ASSUME NEW t, NEW x, Tends(t, x), NEW a \in Agents, FreeToAsk(t, a), NEW to \in Actors,
         NEW u, u = Ask(t, a, to)
  PROVE  Drives(t, u)
<1>0. Good(t, x) /\ t \in Teams
  BY DEF Tends, Good
<1>1. PICK v : v = Asked(t, a, to)
  OBVIOUS
<1>2. /\ v.state = [t.state EXCEPT ![a] = "asking"] /\ v.parent = t.parent /\ v.silent = t.silent
      /\ v.owed = t.owed /\ v.stop = t.stop /\ v.line = t.line
  BY <1>0, <1>1 DEF Asked, Teams
<1>3. v.state[a] = "asking" /\ \A b \in Agents : b # a => v.state[b] = t.state[b]
  BY <1>0, <1>2 DEF Teams
<1>4. t.state[a] \in {"running", "asking"}
  BY DEF FreeToAsk
<1>5. \A b \in Agents : /\ v.state[b] = "queued" <=> t.state[b] = "queued"
                        /\ v.state[b] = "waiting" <=> t.state[b] = "waiting"
                        /\ v.state[b] = "stopped" <=> t.state[b] = "stopped"
                        /\ Live(v, b) <=> Live(t, b)
                        /\ Known(v, b) <=> Known(t, b)
  BY <1>3, <1>4 DEF Live, LiveStates, Known
<1>6. Placed(t) => Placed(v)
  BY <1>2, <1>5 DEF Placed
<1>7. Marks(t) => Marks(v)
  BY <1>2, <1>5 DEF Marks, Ending
<1>8. Cares(t, v, {})
  BY <1>2, <1>5 DEF Cares, Helps, Children, Ending
<1>9. Drives(t, v)
  BY <1>6, <1>7, <1>8 DEF Drives
<1>10. Tends(v, x) /\ u = Pump(v)
  <2>1. Kept(t, t)
    BY KeptMore
  <2>2. u = Pump(v)
    BY <1>1 DEF Ask, Asked
  <2>3. Good(v, x)
    BY <1>0, <1>1, AskedGood DEF FreeToAsk
  <2>4. Posted(v)
    <3>1. Posted(t)
      BY DEF Tends
    <3>2. v.going = t.going /\ v.held = t.held /\ v.resume = t.resume
      BY <1>0, <1>1 DEF Asked, Teams
    <3>3. t.going[a] = "no" /\ t.resume[a] = {}
      BY <1>4, <3>1 DEF Posted, PostedOf
    <3> QED
      BY <1>3, <3>1, <3>2, <3>3 DEF Posted, PostedOf
  <2>5. Firm(t, v)
    BY <1>2, <1>5 DEF Firm, Ending
  <2> QED
    BY <1>2, <2>2, <2>3, <2>4, <2>5, FirmOwes
<1>11. Carries(v, u)
  BY <1>10, PumpCarries DEF Tends, Good
<1> QED
  BY <1>9, <1>11, CarriesDrives, DrivesMore

\* A question to a peer.
LEMMA AskPeerDrives ==
  ASSUME NEW t, NEW x, Tends(t, x), NEW from \in Agents, NEW to \in Agents,
         NEW u, u = AskPeer(t, from, to)
  PROVE  Drives(t, u)
<1>1. PICK s, wakes : wakes = TRUE /\ s = Deliver(t, from, to, wakes)
  OBVIOUS
<1>2. from \in Actors
  BY DEF Actors
<1>3. Carries(t, s) /\ s \in Teams
  BY <1>1, <1>2, DeliverSteady, DeliverCarries DEF Tends, Good
<1>4. CASE u = [s EXCEPT !.owed[from] = @ \cup {to}]
  <2>1. PICK o : o = [s.owed EXCEPT ![from] = @ \cup {to}]
    OBVIOUS
  <2>2. \A b \in Agents : s.owed[b] \subseteq o[b]
    BY <1>3, <2>1 DEF Teams
  <2>3. /\ u.parent = s.parent /\ u.silent = s.silent /\ u.owed = o /\ u.stop = s.stop
        /\ u.state = s.state /\ u.line = s.line
    BY <1>3, <1>4, <2>1 DEF Teams
  <2>4. Carries(s, u)
    BY <2>2, <2>3 DEF Carries, Backs, Placed, Ending
  <2> QED
    BY <1>3, <2>4, CarriesMore, CarriesDrives
<1>5. CASE u = t
  BY <1>5, DrivesMore
<1> QED
  BY <1>1, <1>4, <1>5 DEF AskPeer

\* A question of main.
LEMMA MainAsksDrives ==
  ASSUME NEW t, NEW x, Tends(t, x), NEW to \in Agents, NEW u, u = MainAsks(t, to)
  PROVE  Drives(t, u)
<1>1. PICK s, wakes : wakes = TRUE /\ s = Deliver(t, Main, to, wakes)
  OBVIOUS
<1>2. Main \in Actors
  BY DEF Actors
<1>3. Carries(t, s) /\ s \in Teams
  BY <1>1, <1>2, DeliverSteady, DeliverCarries DEF Tends, Good
<1>4. u = [s EXCEPT !.owesMain = @ \cup {to}]
  BY <1>1 DEF MainAsks
<1>5. /\ u.parent = s.parent /\ u.silent = s.silent /\ u.owed = s.owed /\ u.stop = s.stop
      /\ u.state = s.state /\ u.line = s.line
  BY <1>3, <1>4 DEF Teams
<1>6. Carries(s, u)
  BY <1>5, AsideCarries
<1> QED
  BY <1>3, <1>6, CarriesMore, CarriesDrives

\* Mail to an agent; an answer that it waited for wakes it.
LEMMA ToChildDrives ==
  ASSUME NEW t, NEW x, Tends(t, x), NEW from \in Actors, NEW to \in Agents, NEW ask,
         NEW u, u = ToChild(t, from, to, ask)
  PROVE  Drives(t, u)
<1>0. t \in Teams
  BY DEF Tends, Good
<1>1. PICK w : w = (from \in Agents /\ to \in Agents /\ from \in t.owed[to])
  OBVIOUS
<1>2. PICK s : s = IF w THEN PayOwed(t, to, from) ELSE t
  OBVIOUS
<1>3. Tends(s, x)
  BY <1>2, PaySteady
<1>4. PICK wakes : wakes = (ask \/ w)
  OBVIOUS
<1>5. u = Deliver(s, from, to, wakes)
  BY <1>1, <1>2, <1>4 DEF ToChild
<1>6. /\ Carries(s, u)
      /\ wakes /\ s.state[to] = "waiting" => u.state[to] # "waiting"
  <2>1. Good(s, x) /\ Posted(s)
    BY <1>3 DEF Tends
  <2> QED
    BY <1>5, <2>1, DeliverCarries
<1>7. CASE ~w
  BY <1>2, <1>6, <1>7, CarriesDrives
<1>8. CASE w
  <2>1. PICK o : o = [t.owed EXCEPT ![to] = @ \ {from}]
    OBVIOUS
  <2>2. /\ s.parent = t.parent /\ s.silent = t.silent /\ s.owed = o /\ s.stop = t.stop
        /\ s.state = t.state /\ s.line = t.line
    BY <1>0, <1>2, <1>8, <2>1 DEF PayOwed, Teams
  <2>3. \A b \in Agents : b # to => o[b] = t.owed[b]
    BY <1>0, <2>1 DEF Teams
  <2>4. Placed(t) => Placed(u)
    BY <1>6, <2>2 DEF Carries, Placed
  <2>5. ASSUME Marks(t) PROVE Marks(u) /\ Cares(t, u, {})
    <3>1. Marks(s)
      BY <2>2, <2>5 DEF Marks, Ending, Live
    <3>2. Marks(u) /\ Cares(s, u, {})
      BY <1>6, <3>1, CarriesDrives DEF Drives
    <3>3. ASSUME NEW p \in Agents, u.state[p] = "waiting"
          PROVE  t.state[p] = "waiting" /\ \A c \in Agents : Helps(t, p, c) => Helps(u, p, c)
      <4>1. s.state[p] = "waiting" /\ \A c \in Agents : Helps(s, p, c) => Helps(u, p, c)
        BY <3>2, <3>3 DEF Cares
      <4>2. p # to
        BY <1>4, <1>6, <1>8, <3>3, <4>1
      <4>3. \A c \in Agents : Helps(t, p, c) => Helps(s, p, c)
        BY <2>2, <2>3, <4>2 DEF Helps, Children, Known, Live, Ending
      <4> QED
        BY <2>2, <4>1, <4>3
    <3> QED
      BY <3>2, <3>3 DEF Cares
  <2> QED
    BY <2>4, <2>5 DEF Drives
<1> QED
  BY <1>7, <1>8

\* Whatever is sent up, down or across the tree.
LEMMA SendOnlyDrives ==
  ASSUME NEW t, NEW x, Tends(t, x), NEW from \in Actors, NEW to \in Actors, from # to,
         from = Main => to \in Agents, from \in Agents => FreeToAsk(t, from),
         NEW ask, NEW u, u = SendOnly(t, from, to, ask)
  PROVE  Drives(t, u)
<1>0. Good(t, x) /\ t \in Teams
  BY DEF Tends, Good
<1>1. (from \in Agents \/ from = Main) /\ (to \in Agents \/ to = Main) /\ Main \notin Agents
  BY NumbersOf DEF Actors
<1>2. CASE ask /\ from \in Agents /\ ~UpTheTree(t, from, to)
  <2>1. to \in Agents /\ from \in Agents
    BY <1>1, <1>2 DEF UpTheTree
  <2>2. u = AskPeer(t, from, to)
    BY <1>2 DEF SendOnly
  <2> QED
    BY <2>1, <2>2, AskPeerDrives
<1>3. CASE ask /\ from = Main
  <2>1. u = MainAsks(t, to)
    BY <1>1, <1>3 DEF SendOnly
  <2> QED
    BY <1>3, <2>1, MainAsksDrives
<1>4. CASE ~(ask /\ from \in Agents /\ ~UpTheTree(t, from, to)) /\ ~(ask /\ from = Main)
  <2>1. PICK s : s = IF to = Main THEN ToMain(t, from) ELSE ToChild(t, from, to, ask)
    OBVIOUS
  <2>2. Tends(s, x) /\ Drives(t, s) /\ (from \in Agents => FreeToAsk(s, from))
    <3>1. CASE to = Main
      <4>1. from \in Agents /\ s = ToMain(t, from)
        BY <1>1, <2>1, <3>1
      <4>2. Good(s, x) /\ Same(t, s)
        BY <1>0, <4>1, ToMainGood
      <4>3. Tends(s, x)
        BY <4>1, ToTends
      <4>4. /\ s.parent = t.parent /\ s.silent = t.silent /\ s.owed = t.owed /\ s.stop = t.stop
            /\ s.state = t.state /\ s.line = t.line
        BY <1>0, <4>1 DEF ToMain, Teams
      <4>5. Drives(t, s)
        BY <4>4, AsideCarries, CarriesDrives
      <4>6. FreeToAsk(s, from)
        BY <4>1, <4>2, StillAsks
      <4> QED
        BY <4>3, <4>5, <4>6
    <3>2. CASE to # Main
      <4>1. to \in Agents /\ s = ToChild(t, from, to, ask)
        BY <1>1, <2>1, <3>2
      <4>2. Good(s, x) /\ Serves(t, s, to)
        BY <1>0, <4>1, ToChildGood
      <4>3. Tends(s, x)
        BY <4>1, ToTends
      <4>4. Drives(t, s)
        BY <4>1, ToChildDrives
      <4>5. from \in Agents => FreeToAsk(s, from)
        BY <4>2, StillAsks
      <4> QED
        BY <4>3, <4>4, <4>5
    <3> QED
      BY <3>1, <3>2
  <2>3. CASE u = s
    BY <2>2, <2>3
  <2>4. CASE ask /\ u = Ask(s, from, to)
    <3>1. from \in Agents
      BY <1>1, <1>4, <2>4
    <3>2. FreeToAsk(s, from)
      BY <2>2, <3>1
    <3>3. Drives(s, u)
      BY <2>2, <2>4, <3>1, <3>2, AskDrives
    <3> QED
      BY <2>2, <3>3, DrivesMore
  <2>5. u = s \/ (ask /\ u = Ask(s, from, to))
    BY <1>4, <2>1 DEF SendOnly
  <2> QED
    BY <2>3, <2>4, <2>5
<1> QED
  BY <1>2, <1>3, <1>4

\* send.
LEMMA SendDrives ==
  ASSUME NEW t, NEW x, Tends(t, x), NEW from \in Actors, NEW to \in Actors, from # to,
         from = Main => to \in Agents, from \in Agents => FreeToAsk(t, from),
         NEW ask, NEW u, u = Send(t, from, to, ask)
  PROVE  Drives(t, u)
<1>0. t \in Teams
  BY DEF Tends, Good
<1>1. CASE to \in Agents /\ t.question[to] = from
  <2>1. from # NoOne
    BY NumbersOf
  <2>2. u = EndQuestion(t, to)
    BY <1>1 DEF Send
  <2>3. Carries(t, u)
    BY <1>1, <2>1, <2>2, EndQuestionCarries DEF Tends
  <2> QED
    BY <2>3, CarriesDrives
<1>2. CASE u = t
  BY <1>2, DrivesMore
<1>3. CASE u = SendOnly(t, from, to, ask)
  BY <1>3, SendOnlyDrives
<1>4. CASE from \in Agents /\ u = SendOnly(Unblock(t, from), from, to, ask)
  <2>1. PICK v : v = Unblock(t, from)
    OBVIOUS
  <2>2. Tends(v, x)
    BY <1>4, <2>1, UnblockSteady
  <2>3. v.state = t.state /\ v.wait = t.wait /\ v.resting = t.resting /\ v.question = t.question
    BY <1>4, <2>1, UnblockGood DEF Tends
  <2>4. FreeToAsk(v, from)
    BY <1>4, <2>3 DEF FreeToAsk
  <2>5. Drives(v, u)
    BY <1>4, <2>1, <2>2, <2>4, SendOnlyDrives
  <2>6. Drives(t, v)
    BY <1>0, <1>4, <2>1, AsidesCarry, CarriesDrives
  <2> QED
    BY <2>5, <2>6, DrivesMore
<1> QED
  BY <1>1, <1>2, <1>3, <1>4 DEF Send, BlockedOn

\* A new agent stands in the line, and helps nobody yet that waits.
LEMMA SpawnDrives ==
  ASSUME NEW t, Tends(t, NoOne), NEW a \in Agents, ~Known(t, a), NEW by \in Actors,
         NEW after \in SUBSET Agents, NEW blocking \in BOOLEAN,
         NEW put, put = Joins(t, a, by, after, blocking),
         NEW v, v = IF blocking THEN WaitFor(put, by, a) ELSE put, Tends(v, NoOne),
         NEW q, q = Enqueue(v, a, blocking)
  PROVE  Drives(t, q)
<1>0. t \in Teams /\ v \in Teams
  BY DEF Tends, Good
<1>1. /\ v.state = [t.state EXCEPT ![a] = "queued"] /\ v.parent = [t.parent EXCEPT ![a] = by]
      /\ v.owed = t.owed /\ v.stop = t.stop /\ v.silent = t.silent /\ v.line = t.line
  <2>1. /\ put.state = [t.state EXCEPT ![a] = "queued"] /\ put.parent = [t.parent EXCEPT ![a] = by]
        /\ put.owed = t.owed /\ put.stop = t.stop /\ put.silent = t.silent /\ put.line = t.line
    BY <1>0 DEF Joins, Teams
  <2> QED
    BY <2>1 DEF WaitFor
<1>2. PICK p : p = [t.parent EXCEPT ![a] = by]
  OBVIOUS
<1>3. PICK w : w = [t EXCEPT !.parent = p]
  OBVIOUS
<1>4. p \in [Agents -> Actors \cup {NoOne}] /\ \A b \in Agents : b # a => p[b] = t.parent[b]
  BY <1>0, <1>2 DEF Teams
<1>5. /\ w \in Teams /\ w.parent = p /\ w.state = t.state /\ w.owed = t.owed /\ w.stop = t.stop
      /\ w.silent = t.silent /\ w.line = t.line
  BY ZenonT(40), <1>0, <1>3, <1>4 DEF Teams
<1>6. Placed(t) => Placed(w)
  BY <1>5 DEF Placed
<1>7. ASSUME Marks(t) PROVE Marks(w) /\ Cares(t, w, {})
  <2>1. Marks(w)
    BY <1>5, <1>7 DEF Marks, Ending, Live
  <2>2. ~Live(t, a) /\ ~Ending(t, a)
    <3>1. t.state[a] = "none"
      BY DEF Known
    <3>2. ~Live(t, a)
      BY <3>1 DEF Live, LiveStates
    <3> QED
      BY <1>7, <3>1, <3>2 DEF Marks
  <2>3. ASSUME NEW b \in Agents, NEW c \in Agents, Helps(t, b, c) PROVE Helps(w, b, c)
    <3>1. c # a
      BY <2>2, <2>3 DEF Helps
    <3> QED
      BY <1>4, <1>5, <2>3, <3>1 DEF Helps, Children, Known, Live, Ending
  <2> QED
    BY <1>5, <2>1, <2>3 DEF Cares
<1>8. Drives(t, w)
  BY <1>6, <1>7 DEF Drives
<1>9. Carries(w, q)
  <2>1. w.state[a] # "queued"
    BY <1>5 DEF Known
  <2>2. v.state = [w.state EXCEPT ![a] = "queued"] /\ v.parent = w.parent
    BY <1>1, <1>2, <1>5
  <2> QED
    BY <1>0, <1>1, <1>5, <2>1, <2>2, EnqueueCarries
<1> QED
  BY <1>8, <1>9, CarriesDrives, DrivesMore
\* What every handler does last.
LEMMA BecomesDriving ==
  ASSUME NEW t, NEW u, Driving(t), Drives(t, u), Tends(u, NoOne)
  PROVE  Driving(Returned(u))
<1>1. Carries(u, Returned(u))
  BY ReturnedCarries
<1> QED
  BY <1>1, CarriesDrives, DrivesOn

\* Spawns and messages drive the team on.
LEMMA CallsDrive ==
  ASSUME Tends(team, NoOne), Driving(team), NEW from \in Actors, NEW to \in Actors,
         Spawn(from) \/ Message(from, to)
  PROVE  Driving(team')
<1>0. Good(team, NoOne)
  BY DEF Tends
<1>1. CASE Message(from, to)
  <2>1. PICK ask \in BOOLEAN : Becomes(Send(team, from, to, ask))
    BY <1>1 DEF Message
  <2>2. from # to /\ (from = Main => to \in Agents) /\ (from = Main \/ Acting(team, from))
    BY <1>1 DEF Message, Calls
  <2>3. from \in Agents => FreeToAsk(team, from)
    BY <1>0, <2>2, ActingIdles, NumbersOf
  <2>4. PICK u : u = Send(team, from, to, ask)
    OBVIOUS
  <2>5. Tends(u, NoOne) /\ Drives(team, u)
    BY <2>2, <2>3, <2>4, SendTends, SendDrives
  <2> QED
    BY <2>1, <2>4, <2>5, BecomesDriving DEF Becomes
<1>2. CASE Spawn(from)
  <2>1. PICK new : new = {c \in Agents : ~Known(team, c)}
    BY Zenon
  <2>2. PICK a : a = CHOOSE c \in new : \A y \in new : c <= y
    OBVIOUS
  <2>3. new # {}
    BY Zenon, <1>2, <2>1 DEF Spawn
  <2>4. a \in Agents /\ ~Known(team, a)
    <3>1. new \in SUBSET Nat
      BY <2>1, NumbersOf
    <3>2. \E c \in new : \A y \in new : c <= y
      BY <2>3, <3>1, LeastOf
    <3>3. a \in new
      BY SMTT(30), <2>2, <3>2
    <3> QED
      BY <2>1, <3>3
  <2>5. PICK after \in SUBSET Agents, blocking \in BOOLEAN :
          /\ blocking => MayBlock /\ from # Main
          /\ LET put == Joins(team, a, from, after, blocking)
                 called == IF blocking THEN WaitFor(put, from, a) ELSE put
             IN  Becomes(Pump(Enqueue(called, a, blocking)))
    BY ZenonT(40), <1>2, <2>1, <2>2 DEF Spawn, Joins, WaitFor
  <2>6. blocking => from \in Agents /\ FreeToAsk(team, from)
    <3> SUFFICES ASSUME blocking PROVE from \in Agents /\ FreeToAsk(team, from)
      OBVIOUS
    <3>1. from # Main /\ from \in Agents
      BY <2>5 DEF Actors
    <3>2. Acting(team, from)
      BY Zenon, <1>2, <3>1 DEF Spawn, Calls
    <3> QED
      BY <1>0, <3>1, <3>2, ActingIdles
  <2>7. PICK put : put = Joins(team, a, from, after, blocking)
    OBVIOUS
  <2>8. PICK called : called = IF blocking THEN WaitFor(put, from, a) ELSE put
    OBVIOUS
  <2>9. Tends(called, NoOne)
    BY <2>4, <2>6, <2>7, <2>8, SpawnTends
  <2>10. PICK q : q = Enqueue(called, a, blocking)
    OBVIOUS
  <2>11. Tends(q, NoOne) /\ Drives(team, q)
    BY <2>4, <2>7, <2>8, <2>9, <2>10, EnqueueSteady, SpawnDrives
  <2>12. PICK u : u = Pump(q)
    OBVIOUS
  <2>13. Tends(u, NoOne) /\ Carries(q, u)
    BY <2>11, <2>12, PumpSteady, PumpCarries DEF Tends, Good
  <2>14. Drives(team, u)
    BY <2>11, <2>13, CarriesDrives, DrivesMore
  <2>15. team' = Returned(u)
    BY <2>5, <2>7, <2>8, <2>10, <2>12 DEF Becomes
  <2> QED
    BY <2>13, <2>14, <2>15, BecomesDriving
<1> QED
  BY <1>1, <1>2

\* So do prompts that go on or end, questions and sleeps.
LEMMA PromptsDrive ==
  ASSUME Tends(team, NoOne), Driving(team), NEW a \in Agents,
         \/ SessionReads(a) \/ PromptEnds(a) \/ IdleRelease(a) \/ QuestionEnds(a)
         \/ RestBegins(a) \/ RestEnds(a)
  PROVE  Driving(team')
<1>0. Good(team, NoOne) /\ team \in Teams /\ Posted(team) /\ Sound(team, NoOne)
  BY DEF Tends, Good
<1>1. CASE SessionReads(a)
  <2>1. PICK u : u = ReadAll(team, a)
    OBVIOUS
  <2>2. /\ u.parent = team.parent /\ u.silent = team.silent /\ u.owed = team.owed
        /\ u.stop = team.stop /\ u.state = team.state /\ u.line = team.line
    BY <1>0, <2>1 DEF ReadAll, Teams
  <2>3. team' = u
    BY <1>1, <2>1 DEF SessionReads, ReadAll
  <2> QED
    BY <2>2, <2>3, AsideCarries, CarriesDrives, DrivesOn
<1>2. CASE IdleRelease(a)
  <2>1. PICK u : u = SessionGone(team, a)
    OBVIOUS
  <2>2. /\ u.parent = team.parent /\ u.silent = team.silent /\ u.owed = team.owed
        /\ u.stop = team.stop /\ u.state = team.state /\ u.line = team.line
    BY <1>0, <2>1 DEF SessionGone, Teams
  <2>3. team' = u
    BY <1>2, <2>1 DEF IdleRelease, SessionGone
  <2> QED
    BY <2>2, <2>3, AsideCarries, CarriesDrives, DrivesOn
<1>3. CASE PromptEnds(a)
  <2>1. Acting(team, a) /\ ~Ending(team, a)
    BY <1>3 DEF PromptEnds
  <2>2. CASE team' = ReadMore(team, a)
    <3>1. PICK u : u = ReadMore(team, a)
      OBVIOUS
    <3>2. /\ u.parent = team.parent /\ u.silent = team.silent /\ u.owed = team.owed
          /\ u.stop = team.stop /\ u.state = team.state /\ u.line = team.line
      BY <1>0, <3>1 DEF ReadMore, Teams
    <3> QED
      BY <2>2, <3>1, <3>2, AsideCarries, CarriesDrives, DrivesOn
  <2>3. CASE Becomes(Settle(team, a))
    <3>1. Idles(team, a) /\ team.going[a] = "no" /\ team.resume[a] = {}
      BY <1>0, <2>1, ActingIdles, ActingPosted
    <3>2. team.state[a] \in {"running", "asking"}
      BY <2>1 DEF Acting, Prompted
    <3>3. PICK s : s = Settle(team, a)
      OBVIOUS
    <3>4. Tends(s, NoOne) /\ Driving(s)
      BY <2>1, <3>1, <3>2, <3>3, SettleTends, SettleDriving
    <3> QED
      BY <2>3, <3>3, <3>4, BecomesDriving, DrivesMore DEF Becomes
  <2> QED
    BY <1>3, <2>2, <2>3 DEF PromptEnds, ReadMore
<1>4. CASE QuestionEnds(a)
  <2>1. PICK u : u = EndQuestion(team, a)
    OBVIOUS
  <2>2. team.question[a] # NoOne /\ team' = Returned(u)
    BY <1>4, <2>1 DEF QuestionEnds, Becomes
  <2>3. Tends(u, NoOne)
    BY <2>1, <2>2, EndQuestionSteady
  <2>4. Carries(team, u)
    BY <1>0, <2>1, <2>2, EndQuestionCarries
  <2> QED
    BY <2>2, <2>3, <2>4, CarriesDrives, BecomesDriving
<1>5. CASE RestBegins(a)
  <2>1. PICK R : R = team.resting \cup {a}
    OBVIOUS
  <2>2. PICK u : u = [team EXCEPT !.resting = R]
    OBVIOUS
  <2>3. Good(u, NoOne)
    BY <1>0, <1>5, <2>1, <2>2, LendsGood DEF RestBegins, Acting
  <2>4. R \in SUBSET Agents
    BY <1>0, <2>1 DEF Teams
  <2>5. Tends(u, NoOne)
    BY <2>2, <2>3, <2>4, RestTends
  <2>6. PICK p : p = Pump(u)
    OBVIOUS
  <2>7. Tends(p, NoOne) /\ Carries(u, p)
    BY <2>5, <2>6, PumpSteady, PumpCarries DEF Tends, Good
  <2>8. Carries(team, u)
    <3>1. /\ u.parent = team.parent /\ u.silent = team.silent /\ u.owed = team.owed
          /\ u.stop = team.stop /\ u.state = team.state /\ u.line = team.line
      BY <1>0, <2>2 DEF Teams
    <3> QED
      BY <3>1, AsideCarries
  <2>9. team' = Returned(p)
    BY <1>5, <2>1, <2>2, <2>6 DEF RestBegins, Becomes
  <2> QED
    BY <2>7, <2>8, <2>9, CarriesMore, CarriesDrives, BecomesDriving
<1>6. CASE RestEnds(a)
  <2>1. PICK R : R = team.resting \ {a}
    OBVIOUS
  <2>2. PICK u : u = [team EXCEPT !.resting = R]
    OBVIOUS
  <2>3. PICK v : v = IF team.state[a] # "running" \/ Fits(u) THEN u ELSE GoOnWhenFree(u, a, "rest")
    OBVIOUS
  <2>4. a \in team.resting /\ team' = Returned(v)
    BY <1>6, <2>1, <2>2, <2>3 DEF RestEnds, Becomes
  <2>5. R \in SUBSET Agents /\ \A b \in Agents : b \in R <=> (b \in team.resting /\ b # a)
    BY <1>0, <2>1 DEF Teams
  <2>6. Tends(v, NoOne)
    BY <2>2, <2>3, <2>4, <2>5, WakesTends
  <2>7. /\ u \in Teams /\ u.parent = team.parent /\ u.silent = team.silent /\ u.owed = team.owed
        /\ u.stop = team.stop /\ u.state = team.state /\ u.line = team.line
    BY <1>0, <2>2, <2>5 DEF Teams
  <2>8. Carries(team, u)
    BY <2>7, AsideCarries
  <2>9. Carries(u, v)
    <3>1. PICK how \in {"on", "rest"} : how = "rest"
      OBVIOUS
    <3>2. CASE v = u
      BY <3>2, CarriesMore
    <3>3. CASE v # u
      <4>1. v = GoOnWhenFree(u, a, how) /\ u.state[a] \in {"running", "asking"}
        BY <2>3, <2>7, <3>1, <3>3
      <4> QED
        BY <2>7, <4>1, GoOnWhenFreeCarries
    <3> QED
      BY <3>2, <3>3
  <2> QED
    BY <2>4, <2>6, <2>8, <2>9, CarriesMore, CarriesDrives, BecomesDriving
<1> QED
  BY <1>1, <1>2, <1>3, <1>4, <1>5, <1>6

\* The stops that follow, and the calls that return.
LEMMA StruckDriving ==
  ASSUME NEW t, NEW u, Driving(t), Drives(t, u), Tends(u, NoOne),
         NEW v, v = Returned(u) \/ v = Returned(Settled(u))
  PROVE  Driving(v)
<1>1. PICK s : s = Settled(u)
  OBVIOUS
<1>2. Tends(s, NoOne) /\ Drives(u, s)
  BY <1>1, SettledSpares, SettledDrives
<1>3. Drives(t, s)
  BY <1>2, DrivesMore
<1> QED
  BY <1>1, <1>2, <1>3, BecomesDriving

\* Launches, done or failed, drive the team on.
LEMMA LaunchesDrive ==
  ASSUME Tends(team, NoOne), Locals(team), Driving(team), NEW a \in Agents,
         LaunchDone(a) \/ LaunchFails(a)
  PROVE  Driving(team')
<1>0. Neat(team, a) /\ Tidy(team, a) /\ team \in Teams
  BY DEF Neat, Locals, Tends, Good
<1>1. CASE LaunchDone(a)
  <2>1. PICK u : u = Run(Launched(team, a), a)
    OBVIOUS
  <2>2. a \in team.opening /\ team' = Returned(u)
    BY <1>1, <2>1 DEF LaunchDone, Becomes, Launched
  <2>3. Tends(u, NoOne) /\ Drives(team, u)
    BY <2>1, <2>2, LaunchTends, LaunchDrives
  <2> QED
    BY <2>2, <2>3, BecomesDriving
<1>2. CASE LaunchFails(a)
  <2>1. PICK v : v = Closed(team, a)
    OBVIOUS
  <2>2. a \in team.opening /\ ~Ending(team, a)
    BY <1>2 DEF LaunchFails
  <2>3. /\ Tends(v, NoOne) /\ Idles(v, a) /\ v.going[a] = "no"
        /\ v.resume[a] = team.resume[a] /\ ~Ended(v, a) /\ a \notin v.prompting
    BY <1>0, <2>1, <2>2, ClosedStrikes
  <2>4. v.state[a] # "queued" /\ ~Ending(v, a)
    <3>1. v.state = team.state /\ v.stop = team.stop
      BY <1>0, <2>1 DEF Closed, Teams
    <3>2. team.state[a] = "starting"
      BY <2>2 DEF Tends, Good, Sound, Opens
    <3> QED
      BY <2>2, <3>1, <3>2 DEF Ending
  <2>5. Drives(team, v)
    BY <1>0, <2>1, AsidesCarry, CarriesDrives
  <2>6. \/ team' = Returned(FallBack(v, a)) \/ team' = Returned(Settled(FailRun(v, a)))
        \/ team' = Returned(ResumeFailed(v, a))
        \/ team.resume[a] = {} /\ team' = Returned(Settled(Fail(v, a)))
    BY <1>2, <2>1 DEF LaunchFails, Closed, Becomes
  <2>7. ASSUME NEW u, Tends(u, NoOne), Drives(v, u), NEW w,
               w = Returned(u) \/ w = Returned(Settled(u))
        PROVE  Driving(w)
    <3>1. Drives(team, u)
      BY <2>5, <2>7, DrivesMore
    <3> QED
      BY <2>7, <3>1, StruckDriving
  <2>8. CASE team' = Returned(FallBack(v, a))
    <3>1. Tends(FallBack(v, a), NoOne) /\ Drives(v, FallBack(v, a))
      BY <2>3, <2>4, FallBackTends, FallBackDrives
    <3> QED
      BY <2>7, <2>8, <3>1
  <2>9. CASE team' = Returned(ResumeFailed(v, a))
    <3>1. Tends(ResumeFailed(v, a), NoOne) /\ Drives(v, ResumeFailed(v, a))
      BY <2>3, <2>4, ResumeFailedTends, ResumeFailedDrives
    <3> QED
      BY <2>7, <2>9, <3>1
  <2>10. CASE team' = Returned(Settled(FailRun(v, a)))
    <3>1. Tends(FailRun(v, a), NoOne) /\ Drives(v, FailRun(v, a))
      BY <2>3, <2>4, FailRunStrikes, FailRunDrives
    <3> QED
      BY <2>7, <2>10, <3>1
  <2>11. CASE team.resume[a] = {} /\ team' = Returned(Settled(Fail(v, a)))
    <3>1. Tends(Fail(v, a), NoOne) /\ Drives(v, Fail(v, a))
      BY <2>3, <2>4, <2>11, FailStrikes, FailDrives
    <3> QED
      BY <2>7, <2>11, <3>1
  <2> QED
    BY <2>6, <2>8, <2>9, <2>10, <2>11
<1> QED
  BY <1>1, <1>2

\* So do prompts that fail.
LEMMA FailuresDrive ==
  ASSUME Tends(team, NoOne), Driving(team), NEW a \in Agents, PromptFails(a)
  PROVE  Driving(team')
<1>1. Acting(team, a) /\ ~Ending(team, a) /\ Good(team, NoOne)
  BY DEF PromptFails, Tends
<1>2. Idles(team, a) /\ team.going[a] = "no"
  BY <1>1, ActingIdles, ActingPosted
<1>3. ~Ended(team, a) /\ team.state[a] # "queued"
  BY <1>1 DEF Acting, Prompted, Ended, EndedStates
<1>4. CASE team' = Returned(FallBack(team, a))
  <2>1. PICK u : u = FallBack(team, a)
    OBVIOUS
  <2>2. Tends(u, NoOne) /\ Drives(team, u)
    BY <1>2, <1>3, <2>1, FallBackTends, FallBackDrives
  <2> QED
    BY <1>4, <2>1, <2>2, BecomesDriving
<1>5. CASE team' = Returned(Settled(FailRun(team, a)))
  <2>1. PICK u : u = FailRun(team, a)
    OBVIOUS
  <2>2. Tends(u, NoOne) /\ Drives(team, u)
    BY <1>1, <1>2, <1>3, <2>1, FailRunStrikes, FailRunDrives
  <2> QED
    BY <1>5, <2>1, <2>2, StruckDriving
<1> QED
  BY <1>4, <1>5 DEF PromptFails, Becomes

\* So do stops: who calls one does not wait for a report.
LEMMA StopsDrive ==
  ASSUME Tends(team, NoOne), Driving(team), NEW a \in Agents, NEW by \in Actors \cup {NoOne},
         StopAgent(by, a)
  PROVE  Driving(team')
<1>1. PICK p : p = Stop(team, a, by)
  OBVIOUS
<1>2. Tends(p, NoOne)
  BY <1>1, StopStrikes DEF StopAgent
<1>3. by \in Agents => team.state[by] # "waiting"
  <2>1. by \in Agents => by # Main /\ by # NoOne
    BY NumbersOf
  <2> QED
    BY <2>1 DEF StopAgent, Calls, Acting, Prompted
<1>4. Drives(team, p)
  BY <1>1, <1>3, StopHalts DEF Halts
<1>5. PICK s : s = Settled(p)
  OBVIOUS
<1>6. Tends(s, NoOne) /\ Drives(p, s) /\ s \in Teams
  BY <1>2, <1>5, SettledSpares, SettledDrives DEF Tends, Good
<1>7. PICK c : c = CallWaits(s, by, a)
  OBVIOUS
<1>8. Tends(c, NoOne) /\ Drives(s, c)
  <2>1. CASE by \in Agents /\ Ending(s, a)
    <3>1. c = CallsStop(s, by, a)
      BY <1>7, <2>1 DEF CallWaits, CallsStop
    <3>2. c \in Teams /\ Same(s, c)
      BY <1>6, <2>1, <3>1, ReadSame
    <3>3. Alike(s, c)
      BY <1>6, <3>1 DEF CallsStop, Teams, Alike, AlikeOf, Ending
    <3>4. /\ c.parent = s.parent /\ c.silent = s.silent /\ c.owed = s.owed /\ c.stop = s.stop
          /\ c.state = s.state /\ c.line = s.line
      BY <1>6, <3>1 DEF CallsStop, Teams
    <3>5. Tends(c, NoOne)
      BY <1>6, <3>2, <3>3, AlikeSteady
    <3> QED
      BY <3>4, <3>5, AsideCarries, CarriesDrives
  <2>2. CASE ~(by \in Agents /\ Ending(s, a))
    BY <1>6, <1>7, <2>2, DrivesMore DEF CallWaits
  <2> QED
    BY <2>1, <2>2
<1>9. Drives(team, c)
  BY <1>4, <1>6, <1>8, DrivesMore
<1>10. team' = Returned(c)
  BY <1>1, <1>5, <1>7 DEF StopAgent, Becomes
<1> QED
  BY <1>8, <1>9, <1>10, BecomesDriving

\* and aborts that settle.
LEMMA AbortsDrive ==
  ASSUME Tends(team, NoOne), Driving(team), NEW a \in Agents, Aborted(a)
  PROVE  Driving(team')
<1>1. PICK e : e = EndStop(team, a)
  OBVIOUS
<1>2. Tends(e, NoOne) /\ Drives(team, e)
  BY <1>1, EndStopSpares, EndStopDrives DEF Aborted
<1>3. team' = Returned(Settled(e))
  BY <1>1 DEF Aborted, Becomes
<1> QED
  BY <1>2, <1>3, StruckDriving

\* Nobody waits for anything at first.
LEMMA StartsDriving == Init => Driving(team)
<1> SUFFICES ASSUME Init PROVE Driving(team)
  OBVIOUS
<1>1. /\ team.state = [a \in Agents |-> "none"] /\ team.stop = [a \in Agents |-> <<>>]
      /\ team.line = <<>> /\ team.silent = {}
  BY DEF Init, NoAgents
<1>2. Placed(team)
  BY <1>1 DEF Placed, Once, Has
<1>3. Marks(team) /\ Minds(team)
  BY <1>1 DEF Marks, Minds, Ending
<1> QED
  BY <1>2, <1>3 DEF Driving

\* Every step of the team drives it on, action by action.
LEMMA StepsDrive ==
  Tends(team, NoOne) /\ Snug(team) /\ Driving(team) /\ [Next]_vars => Driving(team)'
<1> SUFFICES ASSUME Tends(team, NoOne), Snug(team), Driving(team), [Next]_vars
             PROVE  Driving(team')
  BY DEF Driving, Placed, Marks, Minds, Helps, Has, Once, Children, Known, Live, Ending
<1>1. ASSUME NEW by \in Actors, Spawn(by) PROVE Driving(team')
  BY <1>1, CallsDrive
<1>2. ASSUME NEW from \in Actors, NEW to \in Actors, Message(from, to) PROVE Driving(team')
  BY <1>2, CallsDrive
<1>3. ASSUME NEW a \in Agents,
             \/ SessionReads(a) \/ PromptEnds(a) \/ IdleRelease(a) \/ QuestionEnds(a)
             \/ RestBegins(a) \/ RestEnds(a)
      PROVE  Driving(team')
  BY <1>3, PromptsDrive
<1>4. ASSUME NEW a \in Agents, PromptFails(a) PROVE Driving(team')
  BY <1>4, FailuresDrive
<1>5. ASSUME NEW a \in Agents, LaunchDone(a) \/ LaunchFails(a) PROVE Driving(team')
  BY <1>5, LaunchesDrive DEF Snug
<1>6. ASSUME NEW a \in Agents, NEW by \in Actors \cup {NoOne}, StopAgent(by, a)
      PROVE  Driving(team')
  BY <1>6, StopsDrive
<1>7. ASSUME NEW a \in Agents, Aborted(a) PROVE Driving(team')
  BY <1>7, AbortsDrive
<1>8. CASE UNCHANGED vars
  BY <1>8 DEF vars
<1> QED
  BY <1>1, <1>2, <1>3, <1>4, <1>5, <1>6, <1>7, <1>8 DEF Next

\* How often a stands in the line.
LEMMA PlacesOf ==
  ASSUME NEW t \in Teams, Placed(t), NEW a \in Agents
  PROVE  Cardinality({i \in 1 .. Len(t.line) : t.line[i] = a}) = IF t.state[a] = "queued" THEN 1 ELSE 0
<1>1. PICK S : S = {i \in 1 .. Len(t.line) : t.line[i] = a}
  OBVIOUS
<1>2. CASE t.state[a] = "queued"
  <2>1. PICK i \in 1 .. Len(t.line) : t.line[i] = a
    BY <1>2 DEF Placed, Has
  <2>2. S = {i}
    BY <1>1, <2>1 DEF Placed, Once
  <2> QED
    BY <1>1, <1>2, <2>2, FS_Singleton
<1>3. CASE t.state[a] # "queued"
  <2>1. S = {}
    BY <1>1, <1>3 DEF Placed, Has
  <2> QED
    BY <1>1, <1>3, <2>1, FS_EmptySet
<1> QED
  BY <1>2, <1>3

\* So everyone that lives has something that will move it.
LEMMA DrivingDrives == Tends(team, NoOne) /\ Snug(team) /\ Driving(team) => Driven
<1> SUFFICES ASSUME Tends(team, NoOne), Snug(team), Driving(team), NEW a \in Agents
             PROVE
               LET place == Cardinality({i \in 1..Len(team.line) : team.line[i] = a})
               IN  CASE team.state[a] = "queued"   -> place = 1
                     [] team.state[a] = "starting" -> place = 0 /\ a \in team.opening
                     [] team.state[a] = "running"  -> place = 0 /\ a \in team.prompting
                     [] team.state[a] = "asking"   -> /\ a \in team.prompting
                                                      /\ team.question[a] # NoOne \/ a \in team.overlap
                     [] team.state[a] = "waiting"  ->
                           \/ WaitsFor(team, a) # {}
                           \/ \E c \in Children(team, a) \cup team.owed[a] : Ending(team, c)
                     [] OTHER -> team.question[a] = NoOne /\ a \notin team.prompting
  BY DEF Driven
<1>1. team \in Teams /\ Tidy(team, a) /\ Asks(team)
  BY DEF Tends, Good, Sound, Snug, Locals
<1>2. PICK place : place = Cardinality({i \in 1..Len(team.line) : team.line[i] = a})
  OBVIOUS
<1>3. place = IF team.state[a] = "queued" THEN 1 ELSE 0
  BY <1>1, <1>2, PlacesOf DEF Driving
<1>4. team.state[a] \in {"starting", "running"} => place = 0
  BY <1>3
<1>5. team.state[a] = "waiting" =>
        \/ WaitsFor(team, a) # {}
        \/ \E c \in Children(team, a) \cup team.owed[a] : Ending(team, c)
  <2> SUFFICES ASSUME team.state[a] = "waiting"
               PROVE  \/ WaitsFor(team, a) # {}
                      \/ \E c \in Children(team, a) \cup team.owed[a] : Ending(team, c)
    OBVIOUS
  <2>1. PICK c \in Agents : Helps(team, a, c)
    BY DEF Driving, Minds
  <2> QED
    BY <2>1 DEF Helps, WaitsFor, LiveChildren, OwedLive
<1>6. team.state[a] = "starting" => a \in team.opening
  BY <1>1 DEF Tidy
<1>7. team.state[a] \in {"running", "asking"} => a \in team.prompting
  BY <1>1 DEF Tidy
<1>8. team.state[a] = "asking" => team.question[a] # NoOne \/ a \in team.overlap
  BY <1>1 DEF Tidy
<1>9. team.state[a] \notin {"queued", "running", "asking"} =>
        team.question[a] = NoOne /\ a \notin team.prompting
  BY <1>1 DEF Tidy, Asks
<1> QED
  BY <1>2, <1>3, <1>4, <1>5, <1>6, <1>7, <1>8, <1>9

\* Every live agent has something that will move it, a place in the line, a launch, a prompt, an
\* open question, or an agent whose end or answer it waits for (team.ts settle and finish,
\* hand-up.ts, routing.ts), for any numbers of agents, slots and messages.
THEOREM DrivenHolds == MCSpec => []Driven
<1>1. MCInit => Tends(team, NoOne) /\ Snug(team) /\ Driving(team)
  BY StartsTends, StartsDriving DEF MCInit
<1>2. Tends(team, NoOne) /\ Snug(team) /\ Driving(team) /\ [MCNext]_<<part, vars, leaseVars>>
        => Tends(team, NoOne)' /\ Snug(team)' /\ Driving(team)'
  <2> SUFFICES ASSUME Tends(team, NoOne), Snug(team), Driving(team),
                      [MCNext]_<<part, vars, leaseVars>>
               PROVE  Tends(team, NoOne)' /\ Snug(team)' /\ Driving(team)'
    OBVIOUS
  <2>1. [Next]_vars
    BY DEF MCNext
  <2> QED
    BY <2>1, StepsTend, StepsDrive
<1>3. Tends(team, NoOne) /\ Snug(team) /\ Driving(team) => Driven
  BY DrivingDrives
<1> QED
  BY <1>1, <1>2, <1>3, PTL DEF MCSpec

------------------------------------------------------------------------------
(* The ends of runs close no ring *)

\* What is about neither states nor waits.
LEMMA AsideUnties ==
  ASSUME NEW t, NEW u, u.parent = t.parent, u.after = t.after, u.owed = t.owed,
         u.state = t.state, u.ran = t.ran, u.going = t.going, t.reentered => u.reentered,
         u.prompting \subseteq t.prompting, u.continuing \subseteq t.continuing
  PROVE  Unties(t, u)
<1>1. Level(t, u)
  BY DEF Level
<1> QED
  BY <1>1, AsideEases, EasesUnties

\* Pump, and the delivery of a message.
LEMMA PumpUnties == ASSUME NEW t, NEW x, Tends(t, x) PROVE Unties(t, Pump(t))
<1>1. t \in Teams /\ Sound(t, x) /\ Posted(t)
  BY DEF Tends, Good
<1>2. PICK u : u = Pump(t)
  OBVIOUS
<1> QED
  BY <1>1, <1>2, PumpEases, EasesUnties

\* Likewise.
LEMMA DeliverUnties ==
  ASSUME NEW t, NEW x, Tends(t, x), NEW from \in Actors, NEW a \in Agents, NEW wakes,
         NEW u, u = Deliver(t, from, a, wakes)
  PROVE  Unties(t, u)
BY DeliverRouses DEF Tends, Rouses

\* The agents that are told that there is no answer.
LEMMA TellUnansweredUnties ==
  ASSUME NEW t, NEW x, Tends(t, x), NEW a \in Agents, NEW S \in SUBSET Agents,
         \A b \in S : t.parent[b] # a
  PROVE  Unties(t, TellUnanswered(t, a, S))
<1> DEFINE n == Cardinality(S)
<1>1. PICK line : line = InOrder(S)
  OBVIOUS
<1>2. n \in Nat /\ DOMAIN line = 1 .. n /\ line \in [1 .. n -> S]
  BY <1>1, InOrderLists
<1> DEFINE G == {u \in Teams : Tends(u, x) /\ Steady(t, u) /\ Unties(t, u)}
           X == [s \in SUBSET (1 .. n) |-> G]
<1>3. t \in X[{}]
  BY SteadyMore, UntiesMore DEF Tends, Good
<1>4. ASSUME NEW s \in SUBSET (1 .. n), NEW i \in (1 .. n) \ s, NEW v \in X[s]
      PROVE  Deliver(v, a, line[i], TRUE) \in X[s \cup {i}]
  <2>1. Tends(v, x) /\ Steady(t, v) /\ line[i] \in S /\ line[i] \in Agents /\ a \in Actors
        /\ Unties(t, v)
    BY <1>2 DEF Actors
  <2>2. PICK u : u = Deliver(v, a, line[i], TRUE)
    OBVIOUS
  <2>3. v.parent[line[i]] # a /\ a # Main
    BY <2>1, NumbersOf DEF Steady, Firm
  <2>4. Ended(v, line[i]) => ~Delivers(v, a, line[i])
    BY <2>3 DEF Delivers
  <2>5. Tends(u, x) /\ Steady(v, u)
    BY <2>1, <2>2, <2>4, DeliverSteady
  <2>6. Steady(t, u)
    BY <2>1, <2>5, SteadyMore
  <2>7. Unties(v, u)
    BY <2>1, <2>2, DeliverUnties
  <2>8. Unties(t, u)
    BY <2>1, <2>7, UntiesMore
  <2> QED BY <2>2, <2>5, <2>6, <2>8 DEF Tends, Good
<1>5. TellUnanswered(t, a, S) \in X[1 .. n]
  <2> HIDE DEF X, n
  <2> QED BY <1>1, <1>2, <1>3, <1>4, FoldTell
<1> QED
  BY <1>5

\* The ends of the questions to a.
LEMMA EndOtherQuestionsUnties ==
  ASSUME NEW t, NEW x, Tends(t, x), NEW a \in Agents
  PROVE  Unties(t, EndOtherQuestions(t, a))
<1> DEFINE S == {y \in Agents : t.question[y] = a /\ y # t.parent[a]}
           n == Cardinality(S)
<1>1. PICK line : line = InOrder(S)
  OBVIOUS
<1>2. n \in Nat /\ DOMAIN line = 1 .. n /\ line \in [1 .. n -> S]
      /\ \A i, j \in 1 .. n : line[i] = line[j] => i = j
  BY <1>1, InOrderLists
<1> DEFINE X == [s \in SUBSET (1 .. n) |->
                   {u \in Teams : /\ Tends(u, x) /\ Unties(t, u)
                                  /\ \A i \in (1 .. n) \ s : u.question[line[i]] # NoOne}]
<1>3. t \in X[{}]
  <2>1. a # NoOne
    BY NumbersOf
  <2>2. \A i \in 1 .. n : t.question[line[i]] = a
    BY <1>2
  <2> HIDE DEF n, S
  <2> QED BY <2>1, <2>2, UntiesMore DEF Tends, Good
<1>4. ASSUME NEW s \in SUBSET (1 .. n), NEW i \in (1 .. n) \ s, NEW v \in X[s]
      PROVE  EndQuestion(v, line[i]) \in X[s \cup {i}]
  <2>1. Tends(v, x) /\ Unties(t, v) /\ line[i] \in Agents /\ v.question[line[i]] # NoOne
    BY <1>2
  <2>2. PICK u : u = EndQuestion(v, line[i])
    OBVIOUS
  <2>3. /\ Tends(u, x)
        /\ \A b \in Agents : b # line[i] => u.question[b] = v.question[b]
    BY <2>1, <2>2, EndQuestionSteady
  <2>c. Unties(v, u)
    BY <2>1, <2>2, EndQuestionEases, EasesUnties DEF Tends
  <2>4. Unties(t, u)
    BY <2>1, <2>c, UntiesMore
  <2>5. ASSUME NEW j \in (1 .. n) \ (s \cup {i}) PROVE u.question[line[j]] # NoOne
    <3>1. j \in 1 .. n /\ i \in 1 .. n /\ j # i /\ j \in (1 .. n) \ s
      OBVIOUS
    <3>2. line[j] # line[i] /\ line[j] \in Agents
      BY <1>2, <3>1
    <3>3. v.question[line[j]] # NoOne
      BY <3>1
    <3> QED
      BY <2>3, <3>2, <3>3
  <2> HIDE DEF n, S
  <2> QED BY <2>2, <2>3, <2>4, <2>5 DEF Tends, Good
<1>5. EndOtherQuestions(t, a) \in X[1 .. n]
  <2> HIDE DEF X, n
  <2> QED BY <1>1, <1>2, <1>3, <1>4, FoldEnd
<1> QED
  BY <1>5

\* reportUp.
LEMMA ReportUpUnties ==
  ASSUME NEW t, NEW x, Tends(t, x), NEW a \in Agents, Known(t, a), NEW quiet, NEW blocking,
         NEW u, u = ReportUp(t, a, quiet, blocking)
  PROVE  Unties(t, u)
<1>1. t \in Teams /\ t.parent[a] \in Actors
  BY DEF Tends, Good, Sound, Parents
<1>2. PICK to : to = ReportTarget(t, a)
  OBVIOUS
<1>3. to \in Actors
  BY <1>1, <1>2, ReportTargetLives
<1>4. u = ReportTo(t, a, to, quiet, blocking)
  BY <1>2 DEF ReportUp
<1>5. PICK wakes : wakes = (~quiet \/ to # t.parent[a])
  OBVIOUS
<1>6. ASSUME u = Deliver(t, a, to, wakes), to # Main PROVE Unties(t, u)
  <2>1. to \in Agents /\ a \in Actors
    BY <1>3, <1>6 DEF Actors
  <2> QED
    BY <1>6, <2>1, DeliverUnties
<1> QED
  BY <1>4, <1>5, <1>6, UntiesMore DEF ReportTo

\* What a owed is paid.
LEMMA PaidUnties ==
  ASSUME NEW t \in Teams, NEW a \in Agents, NEW u, u = Paid(t, a)
  PROVE  Unties(t, u)
<1>1. /\ u.state = t.state /\ u.parent = t.parent /\ u.after = t.after /\ u.ran = t.ran
      /\ u.going = t.going /\ u.prompting = t.prompting /\ u.continuing = t.continuing
      /\ u.reentered = t.reentered /\ u.owed = [y \in Agents |-> t.owed[y] \ {a}]
  BY DEF Paid, Teams
<1>2. ASSUME NEW b \in Agents PROVE EasesOf(t, u, b)
  <2>1. u.owed[b] \subseteq t.owed[b]
    BY <1>1
  <2>2. RanOf(t, b) => RanOf(u, b)
    BY <1>1 DEF RanOf
  <2> QED
    BY <1>1, <2>1, <2>2 DEF EasesOf, Live, Known, Unran
<1>3. Eases(t, u)
  BY <1>1, <1>2 DEF Eases
<1> QED
  BY <1>3, EasesUnties

\* hand-up.
LEMMA HandUpUnties ==
  ASSUME NEW t, NEW x, Tends(t, x), NEW a \in Agents, Known(t, a), NEW silent, NEW blocking,
         NEW u, u = HandUp(t, a, silent, blocking)
  PROVE  Unties(t, u)
<1>0. t \in Teams
  BY DEF Tends, Good
<1>1. PICK e : e = RunEnded(t, a)
  OBVIOUS
<1>2. Tends(e, x) /\ Steady(t, e)
  BY <1>1, RunEndedSteady
<1>b. Unties(t, e)
  <2>1. /\ e.state = t.state /\ e.parent = t.parent /\ e.after = t.after /\ e.owed = t.owed
        /\ e.ran = t.ran /\ e.going = t.going /\ e.prompting = t.prompting
        /\ e.continuing = t.continuing /\ e.reentered = t.reentered
    BY <1>0, <1>1 DEF RunEnded, Teams
  <2> QED
    BY <2>1, AsideUnties
<1>3. PICK p : p = Paid(e, a)
  OBVIOUS
<1>4. Tends(p, x) /\ Steady(t, p)
  BY <1>2, <1>3, PaySteady, SteadyMore
<1>c. Unties(e, p) /\ p.parent = e.parent
  BY <1>2, <1>3, PaidUnties, PaidBacks DEF Tends, Good
<1>5. Known(p, a)
  BY <1>4 DEF Steady, Firm
<1>6. PICK quiet, r : quiet = Quiet(t, a) /\ r = IF silent THEN p ELSE ReportUp(p, a, quiet, blocking)
  OBVIOUS
<1>7. Tends(r, x) /\ Steady(t, r) /\ Unties(p, r)
  <2>1. CASE silent
    BY <1>4, <1>6, <2>1, UntiesMore
  <2>2. CASE ~silent
    <3>0. r = ReportUp(p, a, quiet, blocking)
      BY <1>6, <2>2
    <3>1. Tends(r, x) /\ Steady(p, r)
      BY <1>4, <1>5, <3>0, ReportUpSteady
    <3>2. Unties(p, r)
      BY <1>4, <1>5, <3>0, ReportUpUnties
    <3>3. Steady(t, r)
      BY <1>4, <3>1, SteadyMore
    <3> QED
      BY <3>1, <3>2, <3>3
  <2> QED
    BY <2>1, <2>2
<1>8. PICK S : S = Askers(t, a) \ {t.parent[a]}
  OBVIOUS
<1>9. S \in SUBSET Agents /\ \A b \in S : r.parent[b] # a
  <2>1. S \in SUBSET Agents /\ \A b \in S : a \in t.owed[b]
    BY <1>8 DEF Askers
  <2>2. \A b \in S : t.parent[b] # a
    BY <2>1 DEF Tends, Debts
  <2> QED
    BY <1>7, <2>1, <2>2 DEF Steady, Firm
<1>10. PICK q : q = TellUnanswered(r, a, S)
  OBVIOUS
<1>11. Tends(q, x)
  BY <1>7, <1>9, <1>10, TellUnansweredSteady
<1>12. Unties(r, q)
  BY <1>7, <1>9, <1>10, TellUnansweredUnties
<1>13. u = EndOtherQuestions(q, a)
  BY <1>1, <1>3, <1>6, <1>8, <1>10 DEF HandUp
<1>14. Unties(q, u)
  BY <1>11, <1>13, EndOtherQuestionsUnties
<1>15. Unties(t, p) /\ Unties(p, q)
  BY <1>b, <1>c, <1>7, <1>12, UntiesMore
<1> QED
  BY <1>14, <1>15, UntiesMore

\* The report of a resume that could not launch.
LEMMA HandUpFailureUnties ==
  ASSUME NEW t, NEW x, Tends(t, x), NEW a \in Agents, Known(t, a), NEW u, u = HandUpFailure(t, a)
  PROVE  Unties(t, u)
<1>0. t \in Teams
  BY DEF Tends, Good
<1>1. PICK p : p = Paid(t, a)
  OBVIOUS
<1>2. Tends(p, x) /\ Steady(t, p)
  BY <1>1, PaySteady
<1>c. Unties(t, p)
  BY <1>0, <1>1, PaidUnties
<1>3. t.parent[a] \in Actors /\ Main \notin Agents
  BY NumbersOf DEF Tends, Good, Sound, Parents
<1>4. PICK r, wakes : wakes = TRUE /\ r = IF t.parent[a] = Main THEN p ELSE Deliver(p, a, t.parent[a], wakes)
  OBVIOUS
<1>5. Tends(r, x) /\ Unties(p, r) /\ r.parent = t.parent
  <2>1. CASE t.parent[a] = Main
    BY <1>2, <1>3, <1>4, <2>1, UntiesMore DEF Steady, Firm
  <2>2. CASE t.parent[a] # Main
    <3>1. t.parent[a] \in Agents /\ a \in Actors
      BY <1>3, <2>2 DEF Actors
    <3>0. r = Deliver(p, a, t.parent[a], wakes)
      BY <1>4, <2>2
    <3>2. Tends(r, x) /\ Firm(p, r)
      BY <1>2, <3>0, <3>1, DeliverSteady
    <3>3. Unties(p, r)
      BY <1>2, <3>0, <3>1, DeliverUnties
    <3> QED
      BY <1>2, <3>2, <3>3 DEF Steady, Firm
  <2> QED
    BY <2>1, <2>2
<1>6. PICK S : S = Askers(t, a) \ {t.parent[a]}
  OBVIOUS
<1>7. S \in SUBSET Agents /\ \A b \in S : r.parent[b] # a
  <2>1. S \in SUBSET Agents /\ \A b \in S : a \in t.owed[b]
    BY <1>6 DEF Askers
  <2>2. \A b \in S : t.parent[b] # a
    BY <2>1 DEF Tends, Debts
  <2> QED
    BY <1>5, <2>1, <2>2
<1>8. PICK q : q = TellUnanswered(r, a, S)
  OBVIOUS
<1>9. Tends(q, x)
  BY <1>5, <1>7, <1>8, TellUnansweredSteady
<1>10. Unties(r, q)
  BY <1>5, <1>7, <1>8, TellUnansweredUnties
<1>11. u = EndOtherQuestions(q, a)
  BY <1>1, <1>4, <1>6, <1>8 DEF HandUpFailure
<1>12. Unties(q, u)
  BY <1>9, <1>11, EndOtherQuestionsUnties
<1> QED
  BY <1>c, <1>5, <1>10, <1>12, UntiesMore

\* finish.
LEMMA FinishUnties ==
  ASSUME NEW t, Tends(t, NoOne), NEW a \in Agents, Ending(t, a) => Aborting(t, a),
         t.state[a] \in {"idle", "failed", "stopped"}, NEW silent, NEW u, u = Finish(t, a, silent)
  PROVE  Unties(t, u)
<1>0. t \in Teams /\ Good(t, NoOne) /\ Posted(t) /\ Known(t, a)
  BY DEF Tends, Good, Known
<1>1. PICK o : o = Over(t, a)
  OBVIOUS
<1>2. o \in Teams
  BY ONLY <1>0, <1>1, a \in Agents DEF Teams, Over, Stops
<1>b. t.state[a] \notin ActiveStates
  BY DEF ActiveStates
<1>3. Sheds(t, o, a)
  BY ONLY <1>0, <1>1, <1>b, a \in Agents DEF Teams, Over, Sheds
<1>4. Good(o, NoOne)
  BY <1>0, <1>2, <1>3, ShedsGood
<1>5. /\ o.state = t.state /\ o.going = t.going /\ o.inbox = t.inbox /\ o.unread = t.unread
      /\ o.resume = t.resume /\ o.held = t.held /\ o.question = t.question /\ o.wait = t.wait
      /\ o.owed = [t.owed EXCEPT ![a] = {}] /\ o.prompting = t.prompting
      /\ o.blocking = [t.blocking EXCEPT ![a] = FALSE] /\ o.opening = t.opening
      /\ o.overlap = t.overlap \ {a} /\ o.stop = [t.stop EXCEPT ![a] = <<>>]
  BY <1>0, <1>1 DEF Teams, Over
<1>a. /\ o.parent = t.parent /\ o.after = t.after /\ o.ran = t.ran /\ o.reentered = t.reentered
      /\ o.continuing = t.continuing \ {a}
  BY <1>0, <1>1 DEF Teams, Over
<1>6. o.owed \in [Agents -> SUBSET Agents] /\ \A b \in Agents : o.owed[b] \subseteq t.owed[b]
  BY <1>0, <1>5 DEF Teams
<1>7. \A b \in Agents : PostedOf(o, b)
  BY <1>0, <1>5 DEF Posted, PostedOf
<1>8. Tends(o, NoOne)
  <2>1. Posted(o)
    BY <1>7 DEF Posted
  <2>2. Firm(t, o)
    BY <1>3, <1>5 DEF Sheds, Firm, Known, Ending
  <2> QED
    BY <1>4, <1>6, <2>1, <2>2, FirmOwes
<1>c. Unties(t, o)
  <2>1. ASSUME NEW b \in Agents PROVE EasesOf(t, o, b)
    <3>1. RanOf(t, b) => RanOf(o, b)
      BY <1>5, <1>a DEF RanOf
    <3> QED
      BY <1>5, <1>6, <1>a, <3>1 DEF EasesOf, Live, Known, Unran
  <2>2. Eases(t, o)
    BY <1>a, <2>1 DEF Eases
  <2> QED
    BY <2>2, EasesUnties
<1>9. PICK blocking : blocking = t.blocking[a]
  OBVIOUS
<1>10. PICK h : h = HandUp(o, a, silent, blocking)
  OBVIOUS
<1>11. Known(o, a)
  BY <1>0, <1>5 DEF Known
<1>12. Tends(h, NoOne) /\ Unties(o, h)
  BY <1>8, <1>10, <1>11, HandUpSteady, HandUpUnties
<1>13. PICK r : r = GivenBack(h, a)
  OBVIOUS
<1>14. h \in Teams /\ Posted(h) /\ Good(h, NoOne)
  BY <1>12 DEF Tends, Good
<1>15. r \in Teams /\ Same(h, r)
  BY <1>13, <1>14, ReleasedSame
<1>16. Posted(r) /\ Good(r, NoOne)
  BY <1>13, <1>14, <1>15, GivenBackKept, GoodSame
<1>17. Unties(h, r)
  <2>1. /\ r.state = h.state /\ r.parent = h.parent /\ r.after = h.after /\ r.owed = h.owed
        /\ r.ran = h.ran /\ r.going = h.going /\ r.prompting = h.prompting
        /\ r.continuing = h.continuing /\ r.reentered = h.reentered
    BY <1>13, <1>14 DEF GivenBack, Teams
  <2> QED
    BY <2>1, AsideUnties
<1>18. u = Pump(r)
  BY <1>1, <1>9, <1>10, <1>13 DEF Finish, Over, Released, GivenBack
<1>19. Unties(r, u)
  BY <1>16, <1>18, PumpEases, EasesUnties DEF Good
<1>20. Unties(t, h) /\ Unties(h, u)
  BY <1>c, <1>12, <1>17, <1>19, UntiesMore
<1> QED
  BY <1>20, UntiesMore

\* An agent that worked, or is done, changes its state: nobody waits for more.
LEMMA ChangeUnties ==
  ASSUME NEW t \in Teams, NEW a \in Agents, Known(t, a), NEW s,
         s \in {"waiting", "idle", "failed", "interrupted", "queued", "stopped"},
         Live(t, a) \/ s \notin {"waiting", "queued"},
         NEW u, u.state = [t.state EXCEPT ![a] = s], u.parent = t.parent, u.after = t.after,
         u.owed = t.owed, u.ran = t.ran, u.going = t.going, t.reentered => u.reentered,
         u.prompting \subseteq t.prompting,
         \A b \in Agents : b # a /\ b \in u.continuing => b \in t.continuing,
         \/ RanOf(t, a) => t.ran[a]
         \/ s \in {"failed", "interrupted", "stopped"} /\ (a \in u.continuing => a \in t.continuing)
  PROVE  Unties(t, u)
<1>1. Level(t, u)
  BY DEF Level
<1>2. u.state[a] = s /\ \A b \in Agents : b # a => u.state[b] = t.state[b]
  BY DEF Teams
<1>3. \A b \in Agents : b # a => AsOf(t, u, b)
  BY <1>2 DEF AsOf
<1>4. (Live(u, a) => Live(t, a)) /\ Known(u, a)
  BY <1>2 DEF Live, LiveStates, Known
<1>5. RanOf(t, a) => RanOf(u, a) /\ (Unran(u, a) => Unran(t, a))
  <2>1. CASE RanOf(t, a) => t.ran[a]
    BY <2>1 DEF RanOf, Unran
  <2>2. CASE s \in {"failed", "interrupted", "stopped"} /\ (a \in u.continuing => a \in t.continuing)
    BY <1>2, <2>2 DEF RanOf, Unran
  <2> QED
    BY <2>1, <2>2
<1>6. Eases(t, u)
  BY <1>1, <1>3, <1>4, <1>5, EasesAt
<1> QED
  BY <1>6, EasesUnties

\* What is about neither states nor waits, one by one.
LEMMA AsidesUntie ==
  ASSUME NEW t \in Teams, NEW a \in Agents
  PROVE  /\ Unties(t, Unprompted(t, a)) /\ Unties(t, UnreadLeft(t, a))
         /\ Unties(t, ParkResume(t, a)) /\ Unties(t, Quits(t, a)) /\ Unties(t, Closed(t, a))
         /\ Unties(t, RunEnded(t, a)) /\ Unties(t, Unblock(t, a)) /\ Unties(t, StopOver(t, a))
<1>1. Unties(t, Unprompted(t, a))
  <2>1. PICK u : u = Unprompted(t, a)
    OBVIOUS
  <2>2. /\ u.state = t.state /\ u.parent = t.parent /\ u.after = t.after /\ u.owed = t.owed
        /\ u.ran = t.ran /\ u.going = t.going /\ u.prompting = t.prompting \ {a}
        /\ u.continuing = t.continuing /\ u.reentered = t.reentered
    BY <2>1 DEF Unprompted, Teams
  <2> QED
    BY <2>1, <2>2, AsideUnties
<1>2. Unties(t, UnreadLeft(t, a))
  <2>1. PICK u : u = UnreadLeft(t, a)
    OBVIOUS
  <2>2. /\ u.state = t.state /\ u.parent = t.parent /\ u.after = t.after /\ u.owed = t.owed
        /\ u.ran = t.ran /\ u.going = t.going /\ u.prompting = t.prompting
        /\ u.continuing = t.continuing /\ u.reentered = t.reentered
    BY <2>1 DEF UnreadLeft, Teams
  <2> QED
    BY <2>1, <2>2, AsideUnties
<1>3. Unties(t, ParkResume(t, a))
  <2>1. PICK u : u = ParkResume(t, a)
    OBVIOUS
  <2>2. /\ u.state = t.state /\ u.parent = t.parent /\ u.after = t.after /\ u.owed = t.owed
        /\ u.ran = t.ran /\ u.going = t.going /\ u.prompting = t.prompting
        /\ u.continuing = t.continuing /\ u.reentered = t.reentered
    BY <2>1 DEF ParkResume, Teams
  <2> QED
    BY <2>1, <2>2, AsideUnties
<1>4. Unties(t, Quits(t, a))
  <2>1. PICK u : u = Quits(t, a)
    OBVIOUS
  <2>2. /\ u.state = t.state /\ u.parent = t.parent /\ u.after = t.after /\ u.owed = t.owed
        /\ u.ran = t.ran /\ u.going = t.going /\ u.prompting = t.prompting
        /\ u.continuing = t.continuing \ {a} /\ u.reentered = t.reentered
    BY <2>1 DEF Quits, Teams
  <2> QED
    BY <2>1, <2>2, AsideUnties
<1>5. Unties(t, Closed(t, a))
  <2>1. PICK u : u = Closed(t, a)
    OBVIOUS
  <2>2. /\ u.state = t.state /\ u.parent = t.parent /\ u.after = t.after /\ u.owed = t.owed
        /\ u.ran = t.ran /\ u.going = t.going /\ u.prompting = t.prompting
        /\ u.continuing = t.continuing /\ u.reentered = t.reentered
    BY <2>1 DEF Closed, Teams
  <2> QED
    BY <2>1, <2>2, AsideUnties
<1>6. Unties(t, RunEnded(t, a))
  <2>1. PICK u : u = RunEnded(t, a)
    OBVIOUS
  <2>2. /\ u.state = t.state /\ u.parent = t.parent /\ u.after = t.after /\ u.owed = t.owed
        /\ u.ran = t.ran /\ u.going = t.going /\ u.prompting = t.prompting
        /\ u.continuing = t.continuing /\ u.reentered = t.reentered
    BY <2>1 DEF RunEnded, Teams
  <2> QED
    BY <2>1, <2>2, AsideUnties
<1>7. Unties(t, Unblock(t, a))
  <2>1. PICK u : u = Unblock(t, a)
    OBVIOUS
  <2>2. /\ u.state = t.state /\ u.parent = t.parent /\ u.after = t.after /\ u.owed = t.owed
        /\ u.ran = t.ran /\ u.going = t.going /\ u.prompting = t.prompting
        /\ u.continuing = t.continuing /\ u.reentered = t.reentered
    BY <2>1 DEF Unblock, Teams
  <2> QED
    BY <2>1, <2>2, AsideUnties
<1>8. Unties(t, StopOver(t, a))
  <2>1. PICK u : u = StopOver(t, a)
    OBVIOUS
  <2>2. /\ u.state = t.state /\ u.parent = t.parent /\ u.after = t.after /\ u.owed = t.owed
        /\ u.ran = t.ran /\ u.going = t.going /\ u.prompting = t.prompting
        /\ u.continuing = t.continuing /\ u.reentered = t.reentered
    BY <2>1 DEF StopOver, Teams
  <2> QED
    BY <2>1, <2>2, AsideUnties
<1> QED
  BY <1>1, <1>2, <1>3, <1>4, <1>5, <1>6, <1>7, <1>8

\* settle.
LEMMA SettleUnties ==
  ASSUME NEW t, Tends(t, NoOne), NEW a \in Agents, Idles(t, a), t.going[a] = "no", t.resume[a] = {},
         ~Ending(t, a), t.state[a] \in {"running", "asking"}
  PROVE  Unties(t, Settle(t, a))
<1>0. t \in Teams
  BY DEF Tends, Good
<1>1. PICK e : e = Unprompted(t, a)
  OBVIOUS
<1>2. e \in Teams /\ Same(t, e) /\ SetAside(t, e, a)
  BY <1>0, <1>1, UnpromptedSame, AsideIs
<1>3. Tends(e, NoOne) /\ Idles(e, a) /\ e.going[a] = "no" /\ e.resume[a] = {}
  BY <1>2, SetAsideTends DEF SetAside
<1>4. Unties(t, e) /\ e.state = t.state
  BY <1>0, <1>1, <1>2, AsidesUntie DEF Same, Stays
<1>5. PICK v : v = Put(e, a, "waiting")
  OBVIOUS
<1>6. PICK w : w = Put(e, a, "idle")
  OBVIOUS
<1>7. PICK s \in {"waiting", "idle", "failed", "interrupted", "queued"} : s = "waiting"
  OBVIOUS
<1>8. PICK r \in {"waiting", "idle", "failed", "interrupted", "queued"} : r = "idle"
  OBVIOUS
<1>9. PICK quiet : quiet = (a \in t.silent)
  OBVIOUS
<1>10. Settle(t, a) = IF WaitsFor(t, a) # {} THEN Pump(v) ELSE Finish(w, a, quiet)
  BY <1>1, <1>5, <1>6, <1>9 DEF Settle, Unprompted, Put
<1>r. Known(e, a) /\ Live(e, a) /\ (RanOf(e, a) => e.ran[a])
  BY <1>4 DEF Known, Live, LiveStates, RanOf
<1>11. CASE WaitsFor(t, a) # {}
  <2>1. Tends(v, NoOne)
    <3>1. Good(v, NoOne) /\ Idles(v, a) /\ v.state[a] = s
      BY <1>3, <1>5, <1>7, PutGood DEF Tends
    <3> QED
      BY <1>3, <1>5, <1>7, <3>1, PutTends
  <2>2. /\ v.state = [e.state EXCEPT ![a] = s] /\ v.parent = e.parent /\ v.after = e.after
        /\ v.owed = e.owed /\ v.ran = e.ran /\ v.going = e.going /\ v.prompting = e.prompting
        /\ v.continuing = e.continuing /\ v.reentered = e.reentered
    BY <1>2, <1>5, <1>7 DEF Put, Teams
  <2>3. s \in {"waiting", "idle", "failed", "interrupted", "queued", "stopped"}
    BY <1>7
  <2>4. Unties(e, v)
    BY <1>2, <1>r, <2>2, <2>3, ChangeUnties
  <2>5. Unties(v, Pump(v))
    BY <2>1, PumpUnties
  <2> QED
    BY <1>4, <1>10, <1>11, <2>4, <2>5, UntiesMore
<1>12. CASE WaitsFor(t, a) = {}
  <2>1. Tends(w, NoOne) /\ w.state[a] = "idle"
    <3>1. Good(w, NoOne) /\ Idles(w, a) /\ w.state[a] = r
      BY <1>3, <1>6, <1>8, PutGood DEF Tends
    <3> QED
      BY <1>3, <1>6, <1>8, <3>1, PutTends
  <2>2. /\ w.state = [e.state EXCEPT ![a] = r] /\ w.parent = e.parent /\ w.after = e.after
        /\ w.owed = e.owed /\ w.ran = e.ran /\ w.going = e.going /\ w.prompting = e.prompting
        /\ w.continuing = e.continuing /\ w.reentered = e.reentered /\ w.stop = e.stop
    BY <1>2, <1>6, <1>8 DEF Put, Teams
  <2>3. r \in {"waiting", "idle", "failed", "interrupted", "queued", "stopped"}
    BY <1>8
  <2>4. Unties(e, w)
    BY <1>2, <1>r, <2>2, <2>3, ChangeUnties
  <2>5. PICK f : f = Finish(w, a, quiet)
    OBVIOUS
  <2>6. ~Ending(w, a) /\ w.state[a] \in {"idle", "failed", "stopped"}
    BY <1>3, <2>1, <2>2 DEF Ending, Idles
  <2>7. Unties(w, f)
    BY <2>1, <2>5, <2>6, FinishUnties
  <2> QED
    BY <1>4, <1>10, <1>12, <2>4, <2>5, <2>7, UntiesMore
<1> QED
  BY <1>11, <1>12

------------------------------------------------------------------------------
(* Stops close no ring *)

\* Mark.
LEMMA MarkUnties ==
  ASSUME NEW t, Tends(t, NoOne), NEW a \in Agents, CanStop(t, a), NEW by, NEW u, u = Mark(t, a, by)
  PROVE  Unties(t, u)
<1>0. t \in Teams /\ Good(t, NoOne)
  BY DEF Tends, Good
<1>1. PICK l : l = LeaveLine(t, a)
  OBVIOUS
<1>2. /\ Tends(l, NoOne) /\ l.state = t.state
      /\ l.going[a] = "no" /\ l.held = t.held /\ l.parent = t.parent /\ l.stop = t.stop
      /\ l.question = t.question
  BY <1>1, LeaveLineTends
<1>a. Unties(t, l)
  <2>1. PICK line : line = RemoveFirst(t.line, a)
    OBVIOUS
  <2>2. PICK g : g = [t.going EXCEPT ![a] = "no"]
    OBVIOUS
  <2>3. l = [t EXCEPT !.line = line, !.going = g]
    BY <1>0, <1>1, <2>1, <2>2 DEF LeaveLine, Teams
  <2>4. /\ l.after = t.after /\ l.owed = t.owed /\ l.ran = t.ran /\ l.prompting = t.prompting
        /\ l.continuing = t.continuing /\ l.reentered = t.reentered /\ l.going = g
    BY <1>0, <2>3 DEF Teams
  <2>5. \A b \in Agents : b # a => l.going[b] = t.going[b]
    BY <1>0, <2>2, <2>4 DEF Teams
  <2>6. Level(t, l) /\ \A b \in Agents : b # a => AsOf(t, l, b)
    BY <1>2, <2>4, <2>5 DEF Level, AsOf
  <2>7. RanOf(t, a) => RanOf(l, a)
    BY <1>2, <2>4 DEF RanOf
  <2>8. Eases(t, l)
    BY <1>2, <2>4, <2>6, <2>7, EasesAt DEF Live, Known, Unran
  <2> QED
    BY <2>8, EasesUnties
<1>3. PICK p : p = ParkResume(l, a)
  OBVIOUS
<1>4. p \in Teams /\ Same(l, p) /\ SetAside(l, p, a) /\ p.resume[a] = {}
  BY <1>2, <1>3, ParkedSame, AsideIs DEF Tends, Good
<1>5. Tends(p, NoOne) /\ p.going[a] = "no"
  BY <1>2, <1>4, SetAsideTends
<1>b. Unties(l, p)
  BY <1>2, <1>3, AsidesUntie DEF Tends, Good
<1>6. /\ p.state = t.state /\ p.parent = t.parent /\ p.question = t.question /\ p.wait = t.wait
      /\ p.stop = t.stop
  <2>1. Keeps(t, l)
    BY <1>0, <1>1, LeaveLineGood
  <2>2. Keeps(l, p) /\ p.state = l.state
    BY <1>4 DEF Same, Stays
  <2>3. p.stop = l.stop
    BY <1>2, <1>3 DEF ParkResume, Teams, Tends, Good
  <2> QED
    BY <1>2, <2>1, <2>2, <2>3 DEF Keeps
<1>8. PICK f : f = [todo |-> <<>>, on |-> NoOne, own |-> TRUE, held |-> t.held[a],
           wait |-> t.wait[a]]
  OBVIOUS
<1>9. f \in Frames /\ f.todo = <<>> /\ f.on = NoOne /\ f.own /\ f.wait = p.wait[a]
  <2>1. <<>> \in Seq(Agents) /\ t.held[a] \in BOOLEAN /\ t.wait[a] \in Agents \cup {NoOne}
    BY <1>0 DEF Teams
  <2> QED
    BY <1>6, <1>8, <2>1 DEF Frames
<1>10. PICK quiet : quiet = IF by = t.parent[a] THEN p.silent \cup {a} ELSE p.silent
  OBVIOUS
<1>11. quiet \in SUBSET Agents
  BY <1>4, <1>10 DEF Teams
<1>12. PICK e : e = Framed(p, a, f, quiet)
  OBVIOUS
<1>13. e \in Teams /\ Posted(e) /\ Ending(e, a) /\ e.state = p.state /\ e.question = p.question
  BY <1>5, <1>9, <1>11, <1>12, FramedTends
<1>c. Unties(p, e)
  <2>1. /\ e.state = p.state /\ e.parent = p.parent /\ e.after = p.after /\ e.owed = p.owed
        /\ e.ran = p.ran /\ e.going = p.going /\ e.prompting = p.prompting
        /\ e.continuing = p.continuing /\ e.reentered = p.reentered
    BY <1>4, <1>12 DEF Framed, Teams
  <2> QED
    BY <2>1, AsideUnties
<1>16. PICK w : w = IF t.question[a] # NoOne THEN EndQuestion(e, a) ELSE e
  OBVIOUS
<1>17. u = Marked(Ceased(UnreadLeft(w, a), a), a)
  <2>1. e = [p EXCEPT !.stop[a] = <<f>>, !.silent = IF by = t.parent[a] THEN @ \cup {a} ELSE @]
    BY <1>4, <1>10, <1>12 DEF Framed, Teams
  <2> QED
    BY <1>1, <1>3, <1>8, <1>16, <2>1 DEF Mark, Ceased
<1>19. Known(t, a) /\ ~Ending(t, a)
  BY DEF CanStop, Live, LiveStates, Known
<1>21. w \in Teams /\ Unties(e, w) /\ Ending(w, a) /\ Known(w, a)
  <2>0. Known(e, a)
    BY <1>6, <1>13, <1>19 DEF Known
  <2>1. CASE t.question[a] = NoOne
    BY <1>13, <1>16, <2>0, <2>1, UntiesMore
  <2>2. CASE t.question[a] # NoOne
    <3>1. Good(e, a)
      <4>1. ~Ending(p, a) /\ p.question[a] # NoOne
        BY <1>6, <1>19, <2>2 DEF Ending
      <4> QED
        BY <1>5, <1>9, <1>11, <1>12, <4>1, FramedGood DEF Tends
    <3>2. w = EndQuestion(e, a) /\ e.question[a] # NoOne /\ e.going[a] = "no"
      BY <1>5, <1>6, <1>12, <1>13, <1>16, <2>2, <1>4, <1>9, <1>11, FramedLeaves
    <3>3. Eases(e, w)
      BY <1>13, <3>1, <3>2, EndQuestionEases
    <3>4. Good(w, a) /\ (Ending(w, a) <=> Ending(e, a))
      BY <1>13, <3>1, <3>2, AloneStops
    <3>5. Known(w, a)
      BY <2>0, <3>3 DEF Eases, EasesOf
    <3> QED
      BY <1>13, <3>3, <3>4, <3>5, EasesUnties DEF Good
  <2> QED
    BY <2>1, <2>2
<1>22. PICK q : q = UnreadLeft(w, a)
  OBVIOUS
<1>23. q \in Teams /\ q.stop = w.stop /\ q.state = w.state
  <2>1. q \in Teams
    BY <1>21, <1>22, ParkedSame
  <2> QED
    BY <1>22, <2>1 DEF UnreadLeft, Teams
<1>24. PICK r : r = Ceased(q, a)
  OBVIOUS
<1>25. r \in Teams /\ r.stop = q.stop
  BY <1>23, <1>24, CeasedLeaves
<1>26. Unties(q, r)
  <2>1. PICK s : s = "stopped"
    OBVIOUS
  <2>2. s \in {"waiting", "idle", "failed", "interrupted", "queued", "stopped"} /\ s = "stopped"
    BY <2>1
  <2>3. /\ r.state = [q.state EXCEPT ![a] = s] /\ r.parent = q.parent /\ r.after = q.after
        /\ r.owed = q.owed /\ r.ran = q.ran /\ r.going = q.going
        /\ r.prompting = q.prompting \ {a} /\ r.continuing = q.continuing
        /\ r.reentered = q.reentered
    BY <1>23, <1>24, <2>1 DEF Ceased, Teams
  <2>4. Known(q, a)
    BY <1>21, <1>23 DEF Known
  <2>5. s \in {"failed", "interrupted", "stopped"} /\ s \notin {"waiting", "queued"}
    BY <2>2
  <2> QED
    BY <1>23, <2>2, <2>3, <2>4, <2>5, ChangeUnties
<1>27. Unties(r, u)
  <2>1. PICK order : order = StopOrder(r, Children(r, a))
    OBVIOUS
  <2>2. u = Ordered(r, a, order)
    BY <1>17, <1>22, <1>24, <2>1 DEF Marked, Ordered
  <2>3. /\ u.state = r.state /\ u.parent = r.parent /\ u.after = r.after /\ u.owed = r.owed
        /\ u.ran = r.ran /\ u.going = r.going /\ u.prompting = r.prompting
        /\ u.continuing = r.continuing /\ u.reentered = r.reentered
    BY <1>25, <2>2 DEF Ordered, Teams
  <2> QED
    BY <2>3, AsideUnties
<1>28. Unties(w, q)
  BY <1>21, <1>22, AsidesUntie
<1>29. Unties(t, p) /\ Unties(p, w)
  BY <1>a, <1>b, <1>c, <1>21, UntiesMore
<1>30. Unties(w, u)
  BY <1>26, <1>27, <1>28, UntiesMore
<1> QED
  BY <1>29, <1>30, UntiesMore

\* A stop that goes on with a subagent, or comes to the abort, is the same stop.
LEMMA ReframedUnties ==
  ASSUME NEW t \in Teams, NEW a \in Agents, Ending(t, a), NEW order \in Seq(Agents),
         NEW c \in Agents \cup {NoOne}, NEW r, r = Reframed(t, a, order, c)
  PROVE  r \in Teams /\ Unties(t, r)
<1>1. r \in Teams /\ r = [t EXCEPT !.stop = r.stop]
  BY ReframedLeaves
<1>2. PICK s : s = r.stop
  OBVIOUS
<1>3. /\ r.state = t.state /\ r.parent = t.parent /\ r.after = t.after /\ r.owed = t.owed
      /\ r.ran = t.ran /\ r.going = t.going /\ r.prompting = t.prompting
      /\ r.continuing = t.continuing /\ r.reentered = t.reentered
  BY <1>1, <1>2 DEF Teams
<1> QED
  BY <1>1, <1>3, AsideUnties

\* Likewise.
LEMMA AbortUnties ==
  ASSUME NEW t \in Teams, NEW a \in Agents, Ending(t, a),
         NEW d, d = Awake(Reframed(t, a, <<>>, NoOne), a), NEW u, u = Detach(d, t.stop[a][1].wait)
  PROVE  Unties(t, u)
<1>1. PICK r : r = Reframed(t, a, <<>>, NoOne)
  OBVIOUS
<1>2. PICK nobody \in Agents \cup {NoOne} : nobody = NoOne
  OBVIOUS
<1>3. PICK none \in Seq(Agents) : none = <<>>
  <2>1. <<>> \in Seq(Agents)
    OBVIOUS
  <2> QED
    BY <2>1
<1>4. r \in Teams /\ Unties(t, r)
  <2>1. r = Reframed(t, a, none, nobody)
    BY <1>1, <1>2, <1>3
  <2> QED
    BY <2>1, ReframedUnties
<1>r. PICK R \in SUBSET Agents : R = r.resting \ {a}
  BY <1>4 DEF Teams
<1>5. d = [r EXCEPT !.resting = R]
  BY <1>1, <1>r DEF Awake
<1>6. /\ d \in Teams
      /\ d.state = r.state /\ d.parent = r.parent /\ d.after = r.after /\ d.owed = r.owed
      /\ d.ran = r.ran /\ d.going = r.going /\ d.prompting = r.prompting
      /\ d.continuing = r.continuing /\ d.reentered = r.reentered
  BY ZenonT(40), <1>4, <1>5 DEF Teams
<1>7. /\ u.state = d.state /\ u.parent = d.parent /\ u.after = d.after /\ u.owed = d.owed
      /\ u.ran = d.ran /\ u.going = d.going /\ u.prompting = d.prompting
      /\ u.continuing = d.continuing /\ u.reentered = d.reentered
  BY <1>6 DEF Detach, Teams
<1>8. Unties(r, u)
  BY <1>6, <1>7, AsideUnties
<1> QED
  BY <1>4, <1>8, UntiesMore

\* One step of a stop on its way down the tree.
LEMMA StopsNextUnties ==
  ASSUME NEW t0, NEW k \in Nat, NEW at, OnTheWay(t0, at, k), WayOn(t0, at), Unties(t0, at.team), NEW n
  PROVE  Unties(t0, StopsNext(at, n).team)
<1>1. PICK t : t = at.team
  OBVIOUS
<1>2. PICK a : a = at.agent
  OBVIOUS
<1>3. PICK new : new = StopsNext(at, n)
  OBVIOUS
<1>4. CASE a = NoOne
  <2>1. new = at
    BY <1>2, <1>3, <1>4 DEF StopsNext
  <2> QED
    BY <1>3, <2>1
<1>5. CASE a # NoOne
  <2>1. a \in Agents /\ t \in Teams /\ Tends(t, a) /\ Ending(t, a) /\ Unties(t0, t)
    BY <1>1, <1>2, <1>5 DEF OnTheWay, WayOn, Tends, Good
  <2>2. PICK todo \in Seq(Agents) : todo = t.stop[a][1].todo
    BY <2>1, FramesOf DEF Frames
  <2>3. PICK I : I = {i \in 1 .. Len(todo) : CanStop(t, todo[i])}
    OBVIOUS
  <2>4. PICK next : next = IF I # {} THEN Min(I) ELSE 0
    OBVIOUS
  <2>5. I \in SUBSET (1 .. Len(todo)) /\ Len(todo) \in Nat
    BY <2>3
  <2>6. next \in 0 .. Len(todo) /\ (I # {} => next \in I)
    BY SMTT(30), <2>4, <2>5, Selects
  <2>7. new = IF next = 0
              THEN [team |-> Detach(Awake(Reframed(t, a, <<>>, NoOne), a), t.stop[a][1].wait),
              agent |-> NoOne]
              ELSE [team |-> Mark(Reframed(t, a, SubSeq(todo, next + 1, Len(todo)), todo[next]),
              todo[next], a),
                    agent |-> todo[next]]
    <3>1. [t EXCEPT !.stop[a][1].todo = <<>>, !.stop[a][1].on = NoOne, !.resting = @ \ {a}]
            = Awake(Reframed(t, a, <<>>, NoOne), a)
      BY <2>1 DEF Awake, Reframed, Teams
    <3> QED
      BY ZenonT(40), <1>1, <1>2, <1>3, <1>5, <2>2, <2>3, <2>4, <3>1 DEF StopsNext, SelectInSeq, Reframed
  <2>8. CASE next = 0
    <3>1. PICK d : d = Awake(Reframed(t, a, <<>>, NoOne), a)
      OBVIOUS
    <3>2. PICK u : u = Detach(d, t.stop[a][1].wait)
      OBVIOUS
    <3>3. Unties(t, u)
      BY <2>1, <3>1, <3>2, AbortUnties
    <3>4. new.team = u
      BY <2>7, <2>8, <3>1, <3>2
    <3>5. Unties(t0, u)
      BY <2>1, <3>3, UntiesMore
    <3> QED
      BY <1>3, <3>4, <3>5
  <2>9. CASE next # 0
    <3>1. next \in I
      BY <2>4, <2>6, <2>9
    <3>2. next \in 1 .. Len(todo) /\ CanStop(t, todo[next])
      BY <2>3, <3>1
    <3>3. PICK child \in Agents : child = todo[next]
      BY <3>2
    <3>4. PICK order : order = SubSeq(todo, next + 1, Len(todo))
      OBVIOUS
    <3>5. order \in Seq(Agents) /\ \A i \in 1 .. Len(order) : \E j \in 1 .. Len(todo) : order[i] = todo[j]
      <4>1. order \in Seq(Agents)
        BY <2>5, <3>2, <3>4
      <4>2. ASSUME NEW i \in 1 .. Len(order) PROVE \E j \in 1 .. Len(todo) : order[i] = todo[j]
        <5>1. Len(order) = Len(todo) - next
          BY <2>5, <3>2, <3>4
        <5>2. next + i \in 1 .. Len(todo) /\ order[i] = todo[next + i]
          BY <2>5, <3>2, <3>4, <5>1
        <5> QED
          BY <5>2
      <4> QED
        BY <4>1, <4>2
    <3>6. \A j \in 1 .. Len(todo) : todo[j] \in Children(t, a)
      BY <2>1, <2>2 DEF Tends, Todo
    <3>7. \A i \in 1 .. Len(order) : order[i] \in Children(t, a)
      BY <3>5, <3>6
    <3>8. PICK r : r = Reframed(t, a, order, child)
      OBVIOUS
    <3>9. /\ Tends(r, NoOne) /\ Spares(t, r) /\ r.parent = t.parent /\ r.state = t.state
          /\ \A b \in Agents : Ending(r, b) <=> Ending(t, b)
      BY <2>1, <3>5, <3>7, <3>8, RestsTends
    <3>10. CanStop(r, child)
      BY <3>2, <3>3, <3>9 DEF CanStop, Live
    <3>11. PICK u : u = Mark(r, child, a)
      OBVIOUS
    <3>12. Unties(t, r)
      <4>1. PICK c \in Agents \cup {NoOne} : c = child
        OBVIOUS
      <4> QED
        BY <2>1, <3>5, <3>8, <4>1, ReframedUnties
    <3>14. Unties(r, u)
      BY <3>9, <3>10, <3>11, MarkUnties
    <3>15. Unties(t0, u)
      BY <2>1, <3>12, <3>14, UntiesMore
    <3>16. new.team = u
      BY <2>7, <2>9, <3>3, <3>4, <3>8, <3>11
    <3> QED
      BY <1>3, <3>15, <3>16
  <2> QED
    BY <2>8, <2>9
<1> QED
  BY <1>4, <1>5

\* The whole way down.
LEMMA UnwindUnties ==
  ASSUME NEW t, NEW a \in Agents, Tends(t, a), Ending(t, a)
  PROVE  Unties(t, Unwind(t, a))
<1> DEFINE n == MaxAgents
           W == [team : Teams, agent : Agents \cup {NoOne}]
           X == [s \in SUBSET (1 .. n) |->
                    {at \in W : /\ OnTheWay(t, at, Cardinality(s) + 1) /\ WayOn(t, at)
                              /\ Unties(t, at.team)}]
           first == [team |-> t, agent |-> a]
<1>1. n \in Nat /\ Agents \in SUBSET Agents /\ Cardinality(Agents) = n
  BY NumbersOf
<1>2. PICK line : line = InOrder(Agents)
  OBVIOUS
<1>3. DOMAIN line = 1 .. n /\ line \in [1 .. n -> Agents]
  BY <1>1, <1>2, InOrderLists
<1>4. first \in X[{}]
  <2>1. t \in Teams /\ Good(t, a)
    BY DEF Tends, Good
  <2>2. Cardinality(Enders(t)) >= 1
    <3>1. Enders(t) \in SUBSET Agents /\ a \in Enders(t) /\ {} \in SUBSET Agents /\ a \notin {}
      BY DEF Enders
    <3>2. Cardinality({} \cup {a}) = Cardinality({}) + 1
      BY <3>1, Counts
    <3>3. {} \cup {a} \in SUBSET Enders(t)
      BY <3>1
    <3>4. Cardinality({} \cup {a}) <= Cardinality(Enders(t)) /\ Cardinality(Enders(t)) \in Nat
      BY <3>1, <3>3, Counts
    <3>5. Cardinality({}) = 0
      BY FS_EmptySet
    <3> QED
      BY <3>2, <3>4, <3>5
  <2>3. first \in W /\ first.team = t /\ first.agent = a
    BY <2>1
  <2>4. Cardinality({}) + 1 = 1
    BY FS_EmptySet
  <2>5. OnTheWay(t, first, 1)
    BY <2>1, <2>2, <2>3 DEF OnTheWay
  <2>6. {} \in SUBSET (1 .. n)
    OBVIOUS
  <2>7. WayOn(t, first) /\ Unties(t, first.team)
    BY <2>3, SparesMore, UntiesMore DEF WayOn, StillEnding
  <2> HIDE DEF n, W, first
  <2> QED
    BY <2>3, <2>4, <2>5, <2>6, <2>7
<1>5. ASSUME NEW s \in SUBSET (1 .. n), NEW i \in (1 .. n) \ s, NEW at \in X[s]
      PROVE  StopsNext(at, line[i]) \in X[s \cup {i}]
  <2>1. at \in W /\ OnTheWay(t, at, Cardinality(s) + 1) /\ WayOn(t, at) /\ Unties(t, at.team)
    OBVIOUS
  <2>2. IsFiniteSet(s) /\ Cardinality(s) \in Nat /\ s \cup {i} \in SUBSET (1 .. n)
    BY <1>1, Positions
  <2>3. Cardinality(s \cup {i}) = Cardinality(s) + 1
    BY <2>2, FS_AddElement
  <2>4. PICK new : new = StopsNext(at, line[i])
    OBVIOUS
  <2>h. Unties(t, new.team)
    BY <2>1, <2>2, <2>4, StopsNextUnties
  <2>5. OnTheWay(t, new, Cardinality(s) + 1 + 1) /\ WayOn(t, new)
    BY <2>1, <2>2, <2>4, StopsNextGood, StopsNextTends
  <2>6. new \in W
    BY <2>5 DEF OnTheWay
  <2>7. OnTheWay(t, new, Cardinality(s \cup {i}) + 1)
    BY <2>2, <2>3, <2>5
  <2> HIDE DEF n, W
  <2> QED
    BY <2>2, <2>4, <2>5, <2>6, <2>7, <2>h
<1>6. PICK last : last = FoldLeft(StopsNext, first, line)
  OBVIOUS
<1>7. last \in X[1 .. n]
  <2> HIDE DEF X, n, first
  <2> QED BY <1>1, <1>3, <1>4, <1>5, <1>6, FoldStops
<1>8. Unties(t, last.team)
  BY <1>7
<1>9. Unwind(t, a) = last.team
  BY <1>2, <1>6 DEF Unwind
<1> QED
  BY <1>8, <1>9

\* stop.
LEMMA StopUnties ==
  ASSUME NEW t, Tends(t, NoOne), NEW a \in Agents, NEW by, NEW u, u = Stop(t, a, by)
  PROVE  Unties(t, u)
<1>1. CASE CanStop(t, a)
  <2>1. PICK m : m = Mark(t, a, by)
    OBVIOUS
  <2>2. Tends(m, a) /\ Ending(m, a)
    BY <1>1, <2>1, MarkStrikes
  <2>3. Unties(t, m)
    BY <1>1, <2>1, MarkUnties
  <2>4. u = Unwind(m, a)
    BY <1>1, <2>1 DEF Stop
  <2>5. Unties(m, u)
    BY <2>2, <2>4, UnwindUnties
  <2> QED
    BY <2>3, <2>5, UntiesMore
<1>2. CASE ~CanStop(t, a)
  BY <1>2, UntiesMore DEF Stop
<1> QED
  BY <1>1, <1>2

------------------------------------------------------------------------------
(* The ends of stops close no ring *)

\* CallEnds changes calls only.
LEMMA CallEndsUnties ==
  ASSUME NEW t \in Teams, NEW a, NEW u, u = CallEnds(t, a)
  PROVE  Unties(t, u)
<1>1. PICK c : c = [y \in Agents |-> IF t.call[y] = a THEN NoOne ELSE t.call[y]]
  OBVIOUS
<1>2. c \in [Agents -> Agents \cup {NoOne}]
  BY <1>1 DEF Teams
<1>3. u = [t EXCEPT !.call = c]
  BY <1>1, <1>2 DEF CallEnds, Teams
<1>4. /\ u.state = t.state /\ u.parent = t.parent /\ u.after = t.after /\ u.owed = t.owed
      /\ u.ran = t.ran /\ u.going = t.going /\ u.prompting = t.prompting
      /\ u.continuing = t.continuing /\ u.reentered = t.reentered
  BY <1>3 DEF Teams
<1> QED
  BY <1>4, AsideUnties

\* The stop of the parent goes on.
LEMMA GoesOnUnties ==
  ASSUME NEW t, Tends(t, NoOne), NEW parent, NEW a, NEW u, u = GoesOn(t, parent, a)
  PROVE  Unties(t, u)
<1>1. CASE parent \in Agents /\ Ending(t, parent) /\ t.stop[parent][1].on = a
  <2>1. Tends(t, parent)
    BY GoodAlso DEF Tends
  <2>2. u = Unwind(t, parent)
    BY <1>1 DEF GoesOn
  <2> QED
    BY <1>1, <2>1, <2>2, UnwindUnties
<1>2. CASE ~(parent \in Agents /\ Ending(t, parent) /\ t.stop[parent][1].on = a)
  BY <1>2, UntiesMore DEF GoesOn
<1> QED
  BY <1>1, <1>2

\* The end of a stop.
LEMMA EndStopUnties ==
  ASSUME NEW t, Tends(t, NoOne), NEW a \in Agents, Aborting(t, a), NEW u, u = EndStop(t, a)
  PROVE  Unties(t, u)
<1>0. t \in Teams /\ Good(t, NoOne) /\ Posted(t) /\ Ending(t, a)
  BY DEF Tends, Good, Aborting
<1>1. PICK o : o = StopOver(t, a)
  OBVIOUS
<1>2. o \in Teams /\ Sheds(t, o, a)
  <2>1. o \in Teams
    BY <1>0, <1>1 DEF Teams, StopOver, Stops
  <2>2. Sheds(t, o, a)
    BY <1>0, <1>1 DEF Teams, StopOver, Sheds
  <2> QED
    BY <2>1, <2>2
<1>3. Good(o, NoOne)
  BY <1>0, <1>2, ShedsGood
<1>4. Alike(t, o)
  BY <1>0, <1>1 DEF Teams, StopOver, Alike, AlikeOf, Ending
<1>5. Firm(t, o) /\ Lasts(t, o)
  BY <1>2 DEF Sheds, Firm, Lasts, Known, Ending
<1>6. Tends(o, NoOne) /\ Posted(o)
  <2>1. Posted(o) /\ Kept(t, o)
    BY <1>0, <1>4, AlikeKept
  <2> QED
    BY <1>3, <1>5, <2>1, FirmTends
<1>7. PICK e : e = IF t.stop[a][1].own /\ t.state[a] = "stopped"
                   THEN Finish(t, a, a \in t.silent) ELSE Pump(o)
  OBVIOUS
<1>8. Tends(e, NoOne) /\ Unties(t, e)
  <2>1. CASE t.stop[a][1].own /\ t.state[a] = "stopped"
    <3>1. t.state[a] \notin ActiveStates \cup {"asking"} /\ Known(t, a)
      BY <2>1 DEF ActiveStates, Known
    <3>2. Tends(e, NoOne)
      BY <1>7, <2>1, <3>1, FinishSteady
    <3>3. t.state[a] \in {"idle", "failed", "stopped"}
      BY <2>1
    <3>4. PICK quiet : quiet = (a \in t.silent)
      OBVIOUS
    <3>5. e = Finish(t, a, quiet)
      BY <1>7, <2>1, <3>4
    <3>6. Unties(t, e)
      BY <3>3, <3>5, FinishUnties
    <3> QED
      BY <3>2, <3>6
  <2>2. CASE ~(t.stop[a][1].own /\ t.state[a] = "stopped")
    <3>1. Tends(e, NoOne)
      BY <1>6, <1>7, <2>2, PumpSteady
    <3>2. Unties(t, o) /\ Unties(o, e)
      BY <1>0, <1>1, <1>6, <1>7, <2>2, AsidesUntie, PumpUnties
    <3> QED
      BY <3>1, <3>2, UntiesMore
  <2> QED
    BY <2>1, <2>2
<1>9. PICK c : c = CallEnds(e, a)
  OBVIOUS
<1>10. Tends(c, NoOne) /\ Unties(e, c)
  <2>1. Tends(c, NoOne)
    BY <1>8, <1>9, CallEndsSpares
  <2>2. Unties(e, c)
    BY <1>8, <1>9, CallEndsUnties DEF Tends, Good
  <2> QED
    BY <2>1, <2>2
<1>11. u = GoesOn(c, t.parent[a], a)
  BY <1>1, <1>7, <1>9 DEF EndStop, StopOver
<1>12. Unties(c, u)
  BY <1>10, <1>11, GoesOnUnties
<1> QED
  BY <1>8, <1>10, <1>12, UntiesMore

\* So do the ends of those that had nothing to abort: one,
LEMMA SettleNextUnties ==
  ASSUME NEW t, Tends(t, NoOne), NEW n
  PROVE  Unties(t, SettleNext(t, n))
<1>1. PICK ready : ready = {a \in Agents : Aborting(t, a) /\ ~t.stop[a][1].held}
  OBVIOUS
<1>2. CASE ready = {}
  BY <1>1, <1>2, UntiesMore DEF SettleNext
<1>3. CASE ready # {}
  <2>1. ready \in SUBSET Nat
    BY <1>1, NumbersOf
  <2>2. \E a \in ready : \A b \in ready : a <= b
    BY <1>3, <2>1, LeastOf
  <2>3. PICK a : a = CHOOSE c \in ready : \A b \in ready : c <= b
    OBVIOUS
  <2>4. a \in ready
    BY <2>2, <2>3
  <2>5. SettleNext(t, n) = EndStop(t, a)
    BY <1>1, <1>3, <2>3 DEF SettleNext
  <2> QED
    BY <1>1, <2>4, <2>5, EndStopUnties
<1> QED
  BY <1>2, <1>3

\* and all.
LEMMA SettledUnties ==
  ASSUME NEW t, Tends(t, NoOne)
  PROVE  Unties(t, Settled(t))
<1> DEFINE n == MaxAgents
           G == {u \in Teams : Tends(u, NoOne) /\ Unties(t, u)}
           X == [s \in SUBSET (1 .. n) |-> G]
<1>1. n \in Nat /\ Agents \in SUBSET Agents /\ Cardinality(Agents) = n
  BY NumbersOf
<1>2. PICK line : line = InOrder(Agents)
  OBVIOUS
<1>3. DOMAIN line = 1 .. n
  BY <1>1, <1>2, InOrderLists
<1>4. t \in X[{}]
  BY UntiesMore DEF Tends, Good
<1>5. ASSUME NEW s \in SUBSET (1 .. n), NEW i \in (1 .. n) \ s, NEW v \in X[s]
      PROVE  SettleNext(v, line[i]) \in X[s \cup {i}]
  <2>1. PICK u : u = SettleNext(v, line[i])
    OBVIOUS
  <2>2. Tends(v, NoOne) /\ Unties(t, v)
    OBVIOUS
  <2>3. Tends(u, NoOne) /\ Unties(v, u)
    BY <2>1, <2>2, SettleNextSpares, SettleNextUnties
  <2>4. Unties(t, u)
    BY <2>2, <2>3, UntiesMore
  <2> QED
    BY <2>1, <2>3, <2>4 DEF Tends, Good
<1>6. FoldLeft(SettleNext, t, line) \in X[1 .. n]
  <2> HIDE DEF X, n
  <2> QED BY <1>1, <1>3, <1>4, <1>5, FoldSettle
<1> QED
  BY <1>2, <1>6 DEF Settled

\* The subagents of an agent that failed are stopped by a caller that does not wait.
LEMMA ChildrenStoppedUnties ==
  ASSUME NEW t, Tends(t, NoOne), NEW line \in Seq(Agents)
  PROVE  Unties(t, ChildrenStopped(t, line))
<1> DEFINE n == Len(line)
           G == {u \in Teams : Tends(u, NoOne) /\ Unties(t, u)}
           X == [s \in SUBSET (1 .. n) |-> G]
<1>1. n \in Nat /\ DOMAIN line = 1 .. n /\ \A i \in 1 .. n : line[i] \in Agents
  OBVIOUS
<1>2. t \in X[{}]
  BY UntiesMore DEF Tends, Good
<1>3. ASSUME NEW s \in SUBSET (1 .. n), NEW i \in (1 .. n) \ s, NEW v \in X[s]
      PROVE  Stop(v, line[i], NoOne) \in X[s \cup {i}]
  <2>1. Tends(v, NoOne) /\ Unties(t, v)
    OBVIOUS
  <2>2. PICK c \in Agents : c = line[i]
    BY <1>1
  <2>3. PICK u : u = Stop(v, c, NoOne)
    OBVIOUS
  <2>4. PICK by : by = NoOne
    OBVIOUS
  <2>5. Tends(u, NoOne)
    <3>1. CASE CanStop(v, c)
      BY <2>1, <2>3, <2>4, <3>1, StopStrikes
    <3>2. CASE ~CanStop(v, c)
      BY <2>1, <2>3, <3>2 DEF Stop
    <3> QED
      BY <3>1, <3>2
  <2>6. Unties(v, u)
    <3>1. u = Stop(v, c, by)
      BY <2>3, <2>4
    <3> QED
      BY <2>1, <3>1, StopUnties
  <2>7. u \in G
    BY <2>1, <2>5, <2>6, UntiesMore DEF Tends, Good
  <2> HIDE DEF G
  <2> QED
    BY <2>2, <2>3, <2>7
<1>4. ChildrenStopped(t, line) \in X[1 .. n]
  <2> HIDE DEF X, n
  <2> QED BY <1>1, <1>2, <1>3, FoldChildren
<1> QED
  BY <1>4

------------------------------------------------------------------------------
(* Runs that fail close no ring *)

\* fail.
LEMMA FailUnties ==
  ASSUME NEW t, Tends(t, NoOne), NEW a \in Agents, Idles(t, a), ~Ending(t, a), t.going[a] = "no",
         t.resume[a] = {}, t.state[a] # "queued", NEW u, u = Fail(t, a)
  PROVE  Unties(t, u)
<1>0. t \in Teams
  BY DEF Tends, Good
<1>1. PICK r : r = UnreadLeft(t, a)
  OBVIOUS
<1>2. r \in Teams /\ Same(t, r) /\ SetAside(t, r, a)
  BY <1>0, <1>1, ParkedSame, AsideIs
<1>3. Tends(r, NoOne) /\ Idles(r, a) /\ r.going[a] = "no"
  BY <1>2, SetAsideTends
<1>4. PICK e : e = Unprompted(r, a)
  OBVIOUS
<1>5. e \in Teams /\ Same(r, e) /\ SetAside(r, e, a)
  BY <1>2, <1>4, UnpromptedSame, AsideIs
<1>6. Tends(e, NoOne) /\ Idles(e, a) /\ e.going[a] = "no" /\ e.resume[a] = {}
  BY <1>2, <1>3, <1>5, SetAsideTends DEF SetAside
<1>7. Unties(t, e) /\ e.stop = t.stop /\ e.parent = t.parent
  <2>1. r.stop = t.stop /\ r.parent = t.parent
    BY <1>0, <1>1 DEF UnreadLeft, Teams
  <2>2. e.stop = r.stop /\ e.parent = r.parent
    BY <1>2, <1>4 DEF Unprompted, Teams
  <2> QED
    BY <1>0, <1>1, <1>2, <1>4, <2>1, <2>2, AsidesUntie, UntiesMore
<1>8. PICK f : f = Put(e, a, "failed")
  OBVIOUS
<1>9. PICK s \in {"waiting", "idle", "failed", "interrupted", "queued"} : s = "failed"
  OBVIOUS
<1>10. Good(f, NoOne) /\ Idles(f, a) /\ f.state[a] = "failed"
  BY <1>6, <1>8, <1>9, PutGood DEF Tends
<1>11. Tends(f, NoOne)
  BY <1>6, <1>8, <1>9, <1>10, PutTends
<1>12. /\ f.state = [e.state EXCEPT ![a] = s] /\ f.parent = e.parent /\ f.after = e.after
       /\ f.owed = e.owed /\ f.ran = e.ran /\ f.going = e.going /\ f.prompting = e.prompting
       /\ f.continuing = e.continuing /\ f.reentered = e.reentered /\ f.stop = e.stop
  BY <1>5, <1>8, <1>9 DEF Put, Teams
<1>13. Unties(e, f)
  <2>1. s \in {"waiting", "idle", "failed", "interrupted", "queued", "stopped"}
        /\ s \notin {"waiting", "queued"} /\ s \in {"failed", "interrupted", "stopped"}
    BY <1>9
  <2>2. Known(e, a)
    BY <1>6 DEF Idles
  <2> QED
    BY <1>5, <1>12, <2>1, <2>2, ChangeUnties
<1>14. PICK line : line = StopOrder(t, Children(t, a))
  OBVIOUS
<1>15. line \in Seq(Agents) /\ \A i \in 1 .. Len(line) : f.parent[line[i]] = a
  <2>1. Children(t, a) \in SUBSET Agents
    BY DEF Children
  <2>2. line \in Seq(Agents)
    BY <1>14, <2>1, StopOrderTyped
  <2>3. \A i \in 1 .. Len(line) : line[i] \in Children(t, a)
    BY <1>14, <2>1, StopOrderLists
  <2> QED
    BY <1>7, <1>12, <2>2, <2>3 DEF Children
<1>16. PICK c : c = ChildrenStopped(f, line)
  OBVIOUS
<1>17. Failed(f, a)
  BY <1>7, <1>10, <1>12 DEF Failed, Ending
<1>18. Tends(c, NoOne) /\ Failed(c, a)
  BY <1>11, <1>15, <1>16, <1>17, ChildrenStoppedSpares, ChildrenStoppedGood DEF Tends
<1>19. Unties(f, c)
  BY <1>11, <1>15, <1>16, ChildrenStoppedUnties
<1>20. PICK quiet : quiet = (a \in t.silent)
  OBVIOUS
<1>21. PICK x : x = Finish(c, a, quiet)
  OBVIOUS
<1>22. ~Ending(c, a) /\ c.state[a] \in {"idle", "failed", "stopped"}
  BY <1>18 DEF Failed
<1>23. Unties(c, x)
  BY <1>18, <1>21, <1>22, FinishUnties
<1>24. [r EXCEPT !.state[a] = "failed", !.prompting = @ \ {a}] = f
  BY <1>2, <1>4, <1>8 DEF Unprompted, Put, Teams
<1>25. u = x
  BY Zenon, <1>1, <1>14, <1>16, <1>20, <1>21, <1>24 DEF Fail, ChildrenStopped
<1>26. Unties(t, f) /\ Unties(f, x)
  BY <1>7, <1>13, <1>19, <1>23, UntiesMore
<1> QED
  BY <1>25, <1>26, UntiesMore

\* A run without a fallback fails.
LEMMA FailRunUnties ==
  ASSUME NEW t, Tends(t, NoOne), NEW a \in Agents, Idles(t, a), ~Ending(t, a), t.going[a] = "no",
         t.state[a] # "queued", NEW u, u = FailRun(t, a)
  PROVE  Unties(t, u)
<1>0. t \in Teams
  BY DEF Tends, Good
<1>1. PICK q : q = Quits(t, a)
  OBVIOUS
<1>2. q \in Teams /\ Same(t, q) /\ SetAside(t, q, a)
  BY <1>0, <1>1, LeftSame, AsideIs
<1>3. Tends(q, NoOne) /\ Idles(q, a) /\ q.going[a] = "no"
  BY <1>2, SetAsideTends
<1>4. PICK p : p = ParkResume(q, a)
  OBVIOUS
<1>5. p \in Teams /\ Same(q, p) /\ SetAside(q, p, a) /\ p.resume[a] = {}
  BY <1>2, <1>4, ParkedSame, AsideIs
<1>6. Tends(p, NoOne) /\ Idles(p, a) /\ p.going[a] = "no"
  BY <1>3, <1>5, SetAsideTends
<1>7. p.state = t.state /\ ~Ending(p, a)
  BY <1>2, <1>5 DEF Same, Stays, Keeps, SameFrames
<1>8. u = Fail(p, a)
  BY <1>1, <1>4 DEF FailRun, Quits
<1>9. Unties(p, u)
  BY <1>5, <1>6, <1>7, <1>8, FailUnties
<1>10. Unties(t, q) /\ Unties(q, p)
  BY <1>0, <1>1, <1>2, <1>4, AsidesUntie
<1> QED
  BY <1>9, <1>10, UntiesMore

\* A run that falls back stands in the line.
LEMMA FallBackUnties ==
  ASSUME NEW t, Tends(t, NoOne), NEW a \in Agents, Idles(t, a), t.going[a] = "no",
         t.state[a] \in {"running", "asking"} \/ (t.state[a] = "starting" /\ a \in t.continuing),
         NEW u, u = FallBack(t, a)
  PROVE  Unties(t, u)
<1>0. t \in Teams
  BY DEF Tends, Good
<1>1. PICK r : r = UnreadLeft(t, a)
  OBVIOUS
<1>2. r \in Teams /\ Same(t, r) /\ SetAside(t, r, a)
  BY <1>0, <1>1, ParkedSame, AsideIs
<1>3. Tends(r, NoOne) /\ Idles(r, a) /\ r.going[a] = "no"
  BY <1>2, SetAsideTends
<1>4. PICK e : e = Left(r, a)
  OBVIOUS
<1>5. e \in Teams /\ Same(r, e) /\ SetAside(r, e, a)
  BY <1>2, <1>3, <1>4, LeftSame, AsideIs
<1>6. Tends(e, NoOne) /\ Idles(e, a) /\ e.going[a] = "no"
  BY <1>2, <1>3, <1>5, SetAsideTends
<1>7. PICK f : f = Put(e, a, "queued")
  OBVIOUS
<1>8. PICK s \in {"waiting", "idle", "failed", "interrupted", "queued"} : s = "queued"
  OBVIOUS
<1>9. Tends(f, NoOne)
  <2>1. Good(f, NoOne) /\ Idles(f, a) /\ f.state[a] = s
    BY <1>6, <1>7, <1>8, PutGood DEF Tends
  <2> QED
    BY <1>6, <1>7, <1>8, <2>1, PutTends
<1>10. f = [r EXCEPT !.state[a] = "queued", !.prompting = @ \ {a}, !.held[a] = FALSE,
                     !.continuing = @ \cup {a}]
  BY <1>2, <1>4, <1>7 DEF Left, Put, Teams
<1>11. PICK first \in BOOLEAN : first = FALSE
  OBVIOUS
<1>12. PICK q : q = Enqueue(f, a, first)
  OBVIOUS
<1>13. Tends(q, NoOne)
  BY <1>9, <1>12, EnqueueSteady
<1>14. u = Pump(q)
  BY <1>1, <1>10, <1>11, <1>12 DEF FallBack
<1>15. Unties(q, u)
  BY <1>13, <1>14, PumpUnties
<1>16. Unties(t, r) /\ r.state = t.state /\ r.continuing = t.continuing
  BY Zenon, <1>0, <1>1, AsidesUntie DEF UnreadLeft, Teams
<1>17. /\ f.state = [r.state EXCEPT ![a] = s] /\ f.parent = r.parent /\ f.after = r.after
       /\ f.owed = r.owed /\ f.ran = r.ran /\ f.going = r.going
       /\ f.prompting = r.prompting \ {a} /\ f.continuing = r.continuing \cup {a}
       /\ f.reentered = r.reentered
  <2>1. /\ e.state = r.state /\ e.parent = r.parent /\ e.after = r.after
        /\ e.owed = r.owed /\ e.ran = r.ran /\ e.going = r.going
        /\ e.prompting = r.prompting \ {a} /\ e.continuing = r.continuing \cup {a}
        /\ e.reentered = r.reentered
    BY <1>2, <1>4 DEF Left, Teams
  <2>2. /\ f.state = [e.state EXCEPT ![a] = s] /\ f.parent = e.parent /\ f.after = e.after
        /\ f.owed = e.owed /\ f.ran = e.ran /\ f.going = e.going /\ f.prompting = e.prompting
        /\ f.continuing = e.continuing /\ f.reentered = e.reentered
    BY <1>5, <1>7, <1>8 DEF Put, Teams
  <2> QED
    BY <2>1, <2>2
<1>18. Unties(r, f)
  <2>1. s \in {"waiting", "idle", "failed", "interrupted", "queued", "stopped"}
    BY <1>8
  <2>2. Known(r, a) /\ Live(r, a) /\ (RanOf(r, a) => r.ran[a])
    BY <1>16 DEF Known, Live, LiveStates, RanOf
  <2> QED
    BY <1>2, <1>17, <2>1, <2>2, ChangeUnties
<1>19. Unties(f, q)
  <2>0. f \in Teams
    BY <1>9 DEF Tends, Good
  <2>1. /\ q.state = f.state /\ q.parent = f.parent /\ q.after = f.after /\ q.owed = f.owed
        /\ q.ran = f.ran /\ q.going = f.going /\ q.prompting = f.prompting
        /\ q.continuing = f.continuing /\ q.reentered = f.reentered
    BY <1>12, <2>0 DEF Enqueue, Teams
  <2> QED
    BY <2>1, AsideUnties
<1>20. Unties(t, f) /\ Unties(f, u)
  BY <1>15, <1>16, <1>18, <1>19, UntiesMore
<1> QED
  BY <1>20, UntiesMore

\* A resume that cannot launch is told to everyone that waits for it.
LEMMA ResumeFailedUnties ==
  ASSUME NEW t, Tends(t, NoOne), NEW a \in Agents, Idles(t, a), ~Ending(t, a), t.going[a] = "no",
         t.state[a] # "queued", NEW v, v = ResumeFailed(t, a)
  PROVE  Unties(t, v)
<1>0. t \in Teams
  BY DEF Tends, Good
<1>1. PICK e : e = RunEnded(t, a)
  OBVIOUS
<1>2. Tends(e, NoOne) /\ e \in Teams /\ Same(t, e) /\ Alike(t, e)
  <2>1. Tends(e, NoOne) /\ e \in Teams /\ Same(t, e)
    BY <1>0, <1>1, RunEndedSteady, RunEndedSame
  <2>2. Alike(t, e)
    BY <1>0, <1>1 DEF Teams, RunEnded, Alike, AlikeOf, Ending
  <2> QED
    BY <2>1, <2>2
<1>3. Idles(e, a) /\ e.going[a] = "no"
  BY <1>2, IdlesOn DEF Alike, AlikeOf, Ending
<1>4. PICK p : p = ParkResume(e, a)
  OBVIOUS
<1>5. p \in Teams /\ Same(e, p) /\ SetAside(e, p, a) /\ p.resume[a] = {}
  BY <1>2, <1>4, ParkedSame, AsideIs
<1>6. Tends(p, NoOne) /\ Idles(p, a) /\ p.going[a] = "no"
  BY <1>2, <1>3, <1>5, SetAsideTends
<1>7. PICK w : w = Put(p, a, "interrupted")
  OBVIOUS
<1>8. PICK s \in {"waiting", "idle", "failed", "interrupted", "queued"} : s = "interrupted"
  OBVIOUS
<1>9. Tends(w, NoOne) /\ Idles(w, a)
  <2>1. Good(w, NoOne) /\ Idles(w, a) /\ w.state[a] = s
    BY <1>6, <1>7, <1>8, PutGood DEF Tends
  <2> QED
    BY <1>5, <1>6, <1>7, <1>8, <2>1, PutTends
<1>10. PICK u : u = Unblock(w, a)
  OBVIOUS
<1>11. Tends(u, NoOne) /\ Known(u, a)
  <2>1. Tends(u, NoOne) /\ Steady(w, u)
    BY <1>9, <1>10, UnblockSteady
  <2> QED
    BY <1>9, <2>1 DEF Idles, Known, Steady, Firm
<1>12. PICK h : h = HandUpFailure(u, a)
  OBVIOUS
<1>13. Tends(h, NoOne)
  BY <1>11, <1>12, HandUpFailureKept
<1>14. Unties(u, h)
  BY <1>11, <1>12, HandUpFailureUnties
<1>15. u = [p EXCEPT !.state[a] = "interrupted", !.blocking[a] = FALSE]
  BY <1>7, <1>10 DEF Put, Unblock
<1>16. v = Pump(h)
  BY <1>1, <1>4, <1>12, <1>15 DEF ResumeFailed
<1>17. Unties(h, v)
  BY <1>13, <1>16, PumpUnties
<1>18. Unties(t, e) /\ Unties(e, p)
  BY <1>0, <1>1, <1>2, <1>4, AsidesUntie
<1>19. Unties(p, w)
  <2>1. s \in {"waiting", "idle", "failed", "interrupted", "queued", "stopped"}
        /\ s \notin {"waiting", "queued"} /\ s \in {"failed", "interrupted", "stopped"}
    BY <1>8
  <2>2. Known(p, a)
    BY <1>6 DEF Idles
  <2>3. /\ w.state = [p.state EXCEPT ![a] = s] /\ w.parent = p.parent /\ w.after = p.after
        /\ w.owed = p.owed /\ w.ran = p.ran /\ w.going = p.going /\ w.prompting = p.prompting
        /\ w.continuing = p.continuing /\ w.reentered = p.reentered
    BY <1>5, <1>7, <1>8 DEF Put, Teams
  <2> QED
    BY <1>5, <2>1, <2>2, <2>3, ChangeUnties
<1>20. Unties(w, u)
  BY <1>9, <1>10, AsidesUntie DEF Tends, Good
<1>21. Unties(t, w) /\ Unties(w, h)
  BY <1>14, <1>18, <1>19, <1>20, UntiesMore
<1> QED
  BY <1>17, <1>21, UntiesMore

------------------------------------------------------------------------------
(* What sessions do closes no ring *)

\* The first prompt of a launch.
LEMMA LaunchUnties ==
  ASSUME NEW t, Tends(t, NoOne), NEW a \in t.opening, NEW u, u = Run(Launched(t, a), a)
  PROVE  Unties(t, u)
<1>0. t \in Teams /\ a \in Agents /\ t.state[a] = "starting"
  BY DEF Tends, Good, Teams, Sound, Opens
<1>1. PICK v : v = Launched(t, a)
  OBVIOUS
<1>2. /\ v \in Teams /\ v.state = t.state /\ v.parent = t.parent /\ v.after = t.after
      /\ v.owed = t.owed /\ v.ran = t.ran /\ v.going = t.going /\ v.prompting = t.prompting
      /\ v.continuing = t.continuing /\ v.reentered = t.reentered /\ v.held[a]
  BY ZenonT(40), <1>0, <1>1 DEF Teams, Launched
<1>3. u = [v EXCEPT !.state[a] = "running", !.ran[a] = TRUE, !.prompting = @ \cup {a},
                    !.continuing = @ \ {a}]
  BY <1>1, <1>2 DEF Run
<1>4. /\ u.state[a] = "running" /\ u.ran[a]
      /\ \A b \in Agents : b # a => u.state[b] = t.state[b] /\ u.ran[b] = t.ran[b]
      /\ u.parent = t.parent /\ u.after = t.after /\ u.owed = t.owed /\ u.going = t.going
      /\ u.prompting = t.prompting \cup {a} /\ u.continuing = t.continuing \ {a}
      /\ u.reentered = t.reentered
  BY <1>0, <1>2, <1>3 DEF Teams
<1>5. Level(t, u) /\ \A b \in Agents : b # a => AsOf(t, u, b)
  BY <1>4 DEF Level, AsOf
<1>6. Live(t, a) /\ Known(u, a) /\ RanOf(u, a) /\ ~Unran(u, a)
  BY <1>0, <1>4 DEF Live, LiveStates, Known, RanOf, Unran
<1>7. Eases(t, u)
  BY <1>5, <1>6, EasesAt
<1> QED
  BY <1>7, EasesUnties

\* Who asks and waits for the answer has worked.
LEMMA AskUnties ==
  ASSUME NEW t, NEW x, Tends(t, x), NEW a \in Agents, FreeToAsk(t, a), NEW to \in Actors,
         NEW u, u = Ask(t, a, to)
  PROVE  Unties(t, u)
<1>0. Good(t, x) /\ t \in Teams
  BY DEF Tends, Good
<1>1. PICK v : v = Asked(t, a, to)
  OBVIOUS
<1>2. /\ v.state = [t.state EXCEPT ![a] = "asking"] /\ v.parent = t.parent /\ v.after = t.after
      /\ v.owed = t.owed /\ v.ran = t.ran /\ v.going = t.going /\ v.prompting = t.prompting
      /\ v.continuing = t.continuing /\ v.reentered = t.reentered
  BY <1>0, <1>1 DEF Asked, Teams
<1>3. v.state[a] = "asking" /\ \A b \in Agents : b # a => v.state[b] = t.state[b]
  BY <1>0, <1>2 DEF Teams
<1>4. t.state[a] \in {"running", "asking"}
  BY DEF FreeToAsk
<1>5. Level(t, v) /\ \A b \in Agents : b # a => AsOf(t, v, b)
  BY <1>2, <1>3 DEF Level, AsOf
<1>6. Live(t, a) /\ Known(v, a) /\ (RanOf(t, a) => RanOf(v, a)) /\ ~Unran(v, a)
  BY <1>2, <1>3, <1>4 DEF Live, LiveStates, Known, RanOf, Unran
<1>7. Eases(t, v)
  BY <1>5, <1>6, EasesAt
<1>8. Unties(t, v)
  BY <1>7, EasesUnties
<1>9. u = Pump(v)
  BY <1>1 DEF Ask, Asked
<1>10. v \in Teams /\ Sound(v, x)
  <2>1. Good(v, x)
    BY <1>0, <1>1, AskedGood DEF FreeToAsk
  <2> QED
    BY <2>1 DEF Good
<1>11. Posted(v)
  <2>1. Posted(t)
    BY DEF Tends
  <2>2. v.going = t.going /\ v.held = t.held /\ v.resume = t.resume
    BY <1>0, <1>1 DEF Asked, Teams
  <2>3. t.going[a] = "no" /\ t.resume[a] = {}
    BY <1>4, <2>1 DEF Posted, PostedOf
  <2> QED
    BY <1>3, <2>1, <2>2, <2>3 DEF Posted, PostedOf
<1>12. Unties(v, u)
  BY <1>9, <1>10, <1>11, PumpEases, EasesUnties
<1> QED
  BY <1>8, <1>12, UntiesMore

\* A question to a peer that does not wait for the asker, nor for others that do
\* (routing.ts askError).
LEMMA AskPeerUnties ==
  ASSUME NEW t, NEW x, Tends(t, x), NEW from \in Agents, NEW to \in Agents,
         NEW u, u = AskPeer(t, from, to)
  PROVE  Unties(t, u)
<1>1. PICK s, wakes : wakes = TRUE /\ s = Deliver(t, from, to, wakes)
  OBVIOUS
<1>2. from \in Actors
  BY DEF Actors
<1>3. Rouses(t, s, to) /\ Tends(s, x) /\ Firm(t, s)
  BY <1>1, <1>2, DeliverSteady, DeliverRouses DEF Tends
<1>4. CASE MayAsk(t, from, to) /\ Delivers(t, from, to) /\ u = [s EXCEPT !.owed[from] = @ \cup {to}]
  <2> SUFFICES ASSUME Ranked(t) PROVE Ranked(u) /\ (Loopless(t) => Loopless(u))
    BY DEF Unties
  <2>1. Ranked(s) /\ (Loopless(t) => Loopless(s))
    BY <1>3 DEF Rouses, Unties
  <2>2. ~DependsOn(t, to, from)
    BY <1>4 DEF MayAsk
  <2>3. PICK C \in SUBSET Agents : /\ to \in C /\ from \notin C
                                   /\ \A y \in C : Blockers(t, y) \subseteq C
    BY <2>2, DependsOf
  <2>4. s.reentered \/ \A y \in C : Blockers(s, y) \subseteq C
    <3> SUFFICES ASSUME ~s.reentered, NEW y \in C PROVE Blockers(s, y) \subseteq C
      OBVIOUS
    <3>1. y \in Agents
      OBVIOUS
    <3>2. Blockers(s, y) \subseteq Blockers(t, y) \cup {to}
      BY <1>3, <3>1 DEF Rouses
    <3> QED
      BY <2>3, <3>2
  <2>5. Known(s, to)
    BY <1>3, <1>4 DEF Delivers, Firm
  <2>6. s.owed \in [Agents -> SUBSET Agents] /\ from # to
    BY <1>3, <2>3 DEF Tends, Good, Teams
  <2> QED
    BY <1>4, <2>1, <2>3, <2>4, <2>5, <2>6, OwesUnties
<1>5. CASE u = t
  BY <1>5, UntiesMore
<1> QED
  BY <1>1, <1>4, <1>5 DEF AskPeer

\* A question of main.
LEMMA MainAsksUnties ==
  ASSUME NEW t, NEW x, Tends(t, x), NEW to \in Agents, NEW u, u = MainAsks(t, to)
  PROVE  Unties(t, u)
<1>1. PICK s, wakes : wakes = TRUE /\ s = Deliver(t, Main, to, wakes)
  OBVIOUS
<1>2. Main \in Actors
  BY DEF Actors
<1>3. Unties(t, s) /\ s \in Teams
  BY <1>1, <1>2, DeliverSteady, DeliverUnties DEF Tends, Good
<1>4. u = [s EXCEPT !.owesMain = @ \cup {to}]
  BY <1>1 DEF MainAsks
<1>5. /\ u.state = s.state /\ u.parent = s.parent /\ u.after = s.after /\ u.owed = s.owed
      /\ u.ran = s.ran /\ u.going = s.going /\ u.prompting = s.prompting
      /\ u.continuing = s.continuing /\ u.reentered = s.reentered
  BY <1>3, <1>4 DEF Teams
<1>6. Unties(s, u)
  BY <1>5, AsideUnties
<1> QED
  BY <1>3, <1>6, UntiesMore

\* Mail to an agent; an answer is owed no more.
LEMMA ToChildUnties ==
  ASSUME NEW t, NEW x, Tends(t, x), NEW from \in Actors, NEW to \in Agents, NEW ask,
         NEW u, u = ToChild(t, from, to, ask)
  PROVE  Unties(t, u)
<1>0. t \in Teams
  BY DEF Tends, Good
<1>1. PICK w : w = (from \in Agents /\ to \in Agents /\ from \in t.owed[to])
  OBVIOUS
<1>2. PICK s : s = IF w THEN PayOwed(t, to, from) ELSE t
  OBVIOUS
<1>3. Tends(s, x)
  BY <1>2, PaySteady
<1>4. PICK wakes : wakes = (ask \/ w)
  OBVIOUS
<1>5. u = Deliver(s, from, to, wakes)
  BY <1>1, <1>2, <1>4 DEF ToChild
<1>6. Unties(s, u)
  BY <1>3, <1>5, DeliverUnties
<1>7. Unties(t, s)
  <2>1. CASE ~w
    BY <1>2, <2>1, UntiesMore
  <2>2. CASE w
    <3>1. PICK o : o = [t.owed EXCEPT ![to] = @ \ {from}]
      OBVIOUS
    <3>2. /\ s.state = t.state /\ s.parent = t.parent /\ s.after = t.after /\ s.owed = o
          /\ s.ran = t.ran /\ s.going = t.going /\ s.prompting = t.prompting
          /\ s.continuing = t.continuing /\ s.reentered = t.reentered
      BY <1>0, <1>2, <2>2, <3>1 DEF PayOwed, Teams
    <3>3. \A b \in Agents : o[b] \subseteq t.owed[b]
      BY <1>0, <3>1 DEF Teams
    <3>4. \A b \in Agents : EasesOf(t, s, b)
      BY <3>2, <3>3 DEF EasesOf, RanOf, Live, Known, Unran
    <3>5. Eases(t, s)
      BY <3>2, <3>4 DEF Eases
    <3> QED
      BY <3>5, EasesUnties
  <2> QED
    BY <2>1, <2>2
<1> QED
  BY <1>6, <1>7, UntiesMore

\* Whatever is sent up, down or across the tree.
LEMMA SendOnlyUnties ==
  ASSUME NEW t, NEW x, Tends(t, x), NEW from \in Actors, NEW to \in Actors, from # to,
         from = Main => to \in Agents, from \in Agents => FreeToAsk(t, from),
         NEW ask, NEW u, u = SendOnly(t, from, to, ask)
  PROVE  Unties(t, u)
<1>0. Good(t, x) /\ t \in Teams
  BY DEF Tends, Good
<1>1. (from \in Agents \/ from = Main) /\ (to \in Agents \/ to = Main) /\ Main \notin Agents
  BY NumbersOf DEF Actors
<1>2. CASE ask /\ from \in Agents /\ ~UpTheTree(t, from, to)
  <2>1. to \in Agents /\ from \in Agents
    BY <1>1, <1>2 DEF UpTheTree
  <2>2. u = AskPeer(t, from, to)
    BY <1>2 DEF SendOnly
  <2> QED
    BY <2>1, <2>2, AskPeerUnties
<1>3. CASE ask /\ from = Main
  <2>1. u = MainAsks(t, to)
    BY <1>1, <1>3 DEF SendOnly
  <2> QED
    BY <1>3, <2>1, MainAsksUnties
<1>4. CASE ~(ask /\ from \in Agents /\ ~UpTheTree(t, from, to)) /\ ~(ask /\ from = Main)
  <2>1. PICK s : s = IF to = Main THEN ToMain(t, from) ELSE ToChild(t, from, to, ask)
    OBVIOUS
  <2>2. Tends(s, x) /\ Unties(t, s) /\ (from \in Agents => FreeToAsk(s, from))
    <3>1. CASE to = Main
      <4>1. from \in Agents /\ s = ToMain(t, from)
        BY <1>1, <2>1, <3>1
      <4>2. Good(s, x) /\ Same(t, s)
        BY <1>0, <4>1, ToMainGood
      <4>3. Tends(s, x)
        BY <4>1, ToTends
      <4>4. /\ s.state = t.state /\ s.parent = t.parent /\ s.after = t.after /\ s.owed = t.owed
            /\ s.ran = t.ran /\ s.going = t.going /\ s.prompting = t.prompting
            /\ s.continuing = t.continuing /\ s.reentered = t.reentered
        BY <1>0, <4>1 DEF ToMain, Teams
      <4>5. Unties(t, s)
        BY <4>4, AsideUnties
      <4>6. FreeToAsk(s, from)
        BY <4>1, <4>2, StillAsks
      <4> QED
        BY <4>3, <4>5, <4>6
    <3>2. CASE to # Main
      <4>1. to \in Agents /\ s = ToChild(t, from, to, ask)
        BY <1>1, <2>1, <3>2
      <4>2. Good(s, x) /\ Serves(t, s, to)
        BY <1>0, <4>1, ToChildGood
      <4>3. Tends(s, x)
        BY <4>1, ToTends
      <4>4. Unties(t, s)
        BY <4>1, ToChildUnties
      <4>5. from \in Agents => FreeToAsk(s, from)
        BY <4>2, StillAsks
      <4> QED
        BY <4>3, <4>4, <4>5
    <3> QED
      BY <3>1, <3>2
  <2>3. CASE u = s
    BY <2>2, <2>3
  <2>4. CASE ask /\ u = Ask(s, from, to)
    <3>1. from \in Agents
      BY <1>1, <1>4, <2>4
    <3>2. FreeToAsk(s, from)
      BY <2>2, <3>1
    <3>3. Unties(s, u)
      BY <2>2, <2>4, <3>1, <3>2, AskUnties
    <3> QED
      BY <2>2, <3>3, UntiesMore
  <2>5. u = s \/ (ask /\ u = Ask(s, from, to))
    BY <1>4, <2>1 DEF SendOnly
  <2> QED
    BY <2>3, <2>4, <2>5
<1> QED
  BY <1>2, <1>3, <1>4

\* send.
LEMMA SendUnties ==
  ASSUME NEW t, NEW x, Tends(t, x), NEW from \in Actors, NEW to \in Actors, from # to,
         from = Main => to \in Agents, from \in Agents => FreeToAsk(t, from),
         NEW ask, NEW u, u = Send(t, from, to, ask)
  PROVE  Unties(t, u)
<1>0. t \in Teams
  BY DEF Tends, Good
<1>1. CASE to \in Agents /\ t.question[to] = from
  <2>1. from # NoOne
    BY NumbersOf
  <2>2. u = EndQuestion(t, to)
    BY <1>1 DEF Send
  <2>3. Eases(t, u)
    BY <1>1, <2>1, <2>2, EndQuestionEases DEF Tends
  <2> QED
    BY <2>3, EasesUnties
<1>2. CASE u = t
  BY <1>2, UntiesMore
<1>3. CASE u = SendOnly(t, from, to, ask)
  BY <1>3, SendOnlyUnties
<1>4. CASE from \in Agents /\ u = SendOnly(Unblock(t, from), from, to, ask)
  <2>1. PICK v : v = Unblock(t, from)
    OBVIOUS
  <2>2. Tends(v, x)
    BY <1>4, <2>1, UnblockSteady
  <2>3. v.state = t.state /\ v.wait = t.wait /\ v.resting = t.resting /\ v.question = t.question
    BY <1>4, <2>1, UnblockGood DEF Tends
  <2>4. FreeToAsk(v, from)
    BY <1>4, <2>3 DEF FreeToAsk
  <2>5. Unties(v, u)
    BY <1>4, <2>1, <2>2, <2>4, SendOnlyUnties
  <2>6. Unties(t, v)
    BY <1>0, <1>4, <2>1, AsidesUntie
  <2> QED
    BY <2>5, <2>6, UntiesMore
<1> QED
  BY <1>1, <1>2, <1>3, <1>4 DEF Send, BlockedOn

\* A new agent starts after none that waits for its parent.
LEMMA SpawnedUnties ==
  ASSUME NEW t, Tends(t, NoOne), NEW a \in Agents, ~Known(t, a), NEW by \in Actors,
         by = Main \/ Known(t, by), NEW after \in SUBSET Agents, after # {} => MayFollow(t, by, after),
         NEW blocking \in BOOLEAN,
         NEW put, put = Joins(t, a, by, after, blocking),
         NEW v, v = IF blocking THEN WaitFor(put, by, a) ELSE put, v \in Teams,
         NEW q, q = Enqueue(v, a, blocking)
  PROVE  Unties(t, q)
<1>0. t \in Teams /\ Parents(t) /\ Debts(t)
  BY DEF Tends, Good, Sound
<1>1. Newly(t, v, a, by, after)
  <2>1. /\ put.state = [t.state EXCEPT ![a] = "queued"] /\ put.parent = [t.parent EXCEPT ![a] = by]
        /\ put.after = [t.after EXCEPT ![a] = after] /\ put.ran = t.ran /\ put.owed = t.owed
        /\ put.going = t.going /\ put.prompting = t.prompting /\ put.continuing = t.continuing
        /\ put.reentered = t.reentered
    BY <1>0 DEF Joins, Teams
  <2> QED
    BY <2>1 DEF WaitFor, Newly
<1>2. ASSUME Ranked(t) PROVE Ranked(v) /\ (Loopless(t) => Loopless(v))
  BY <1>0, <1>1, <1>2, SpawnUnties
<1>3. Unties(v, q)
  <2>1. /\ q.state = v.state /\ q.parent = v.parent /\ q.after = v.after /\ q.owed = v.owed
        /\ q.ran = v.ran /\ q.going = v.going /\ q.prompting = v.prompting
        /\ q.continuing = v.continuing /\ q.reentered = v.reentered
    BY DEF Enqueue, Teams
  <2> QED
    BY <2>1, AsideUnties
<1>4. Unties(t, v)
  BY <1>2 DEF Unties
<1> QED
  BY <1>3, <1>4, UntiesMore

------------------------------------------------------------------------------
(* Nobody waits in a ring, step by step *)

\* Every wait can end.
Unlooped(t) == Ranked(t) /\ Loopless(t)

\* What closes no ring leaves none, and so do the calls that return.
LEMMA BecomesUnlooped ==
  ASSUME NEW t, NEW u, Unlooped(t), Unties(t, u)
  PROVE  /\ Unlooped(u)
         /\ Tends(u, NoOne) => Unlooped(Returned(u))
         /\ Tends(u, NoOne) => Unlooped(Returned(Settled(u)))
<1>1. Unlooped(u)
  BY DEF Unlooped, Unties
<1>2. ASSUME NEW v, Tends(v, NoOne), Unlooped(v) PROVE Unlooped(Returned(v))
  BY <1>2, ReturnedEases, EasesUnties DEF Unlooped, Unties
<1>3. ASSUME Tends(u, NoOne) PROVE Tends(Settled(u), NoOne) /\ Unlooped(Settled(u))
  <2>1. PICK s : s = Settled(u)
    OBVIOUS
  <2>2. Tends(s, NoOne)
    BY <1>3, <2>1, SettledSpares
  <2>3. Unties(u, s)
    BY <1>3, <2>1, SettledUnties
  <2> QED
    BY <1>1, <2>1, <2>2, <2>3 DEF Unlooped, Unties
<1> QED
  BY <1>1, <1>2, <1>3

\* Messages and spawns close no ring.
LEMMA CallsUntie ==
  ASSUME Tends(team, NoOne), Unlooped(team), NEW from \in Actors, NEW to \in Actors,
         Spawn(from) \/ Message(from, to)
  PROVE  Unlooped(team')
<1>0. Good(team, NoOne)
  BY DEF Tends
<1>1. CASE Message(from, to)
  <2>1. PICK ask \in BOOLEAN : Becomes(Send(team, from, to, ask))
    BY <1>1 DEF Message
  <2>2. from # to /\ (from = Main => to \in Agents) /\ (from = Main \/ Acting(team, from))
    BY <1>1 DEF Message, Calls
  <2>3. from \in Agents => FreeToAsk(team, from)
    BY <1>0, <2>2, ActingIdles, NumbersOf
  <2>4. PICK u : u = Send(team, from, to, ask)
    OBVIOUS
  <2>5. Tends(u, NoOne) /\ Unties(team, u)
    BY <2>2, <2>3, <2>4, SendTends, SendUnties
  <2> QED
    BY <2>1, <2>4, <2>5, BecomesUnlooped DEF Becomes
<1>2. CASE Spawn(from)
  <2>1. PICK new : new = {c \in Agents : ~Known(team, c)}
    BY Zenon
  <2>2. PICK a : a = CHOOSE c \in new : \A y \in new : c <= y
    OBVIOUS
  <2>3. new # {}
    BY <1>2, <2>1 DEF Spawn
  <2>4. a \in Agents /\ ~Known(team, a)
    <3>1. new \in SUBSET Nat
      BY <2>1, NumbersOf
    <3>2. \E c \in new : \A y \in new : c <= y
      BY <2>3, <3>1, LeastOf
    <3>3. a \in new
      BY <2>2, <3>2
    <3> QED
      BY <2>1, <3>3
  <2>5. PICK after \in SUBSET Agents, blocking \in BOOLEAN :
          /\ after # {} => MayFollow(team, from, after)
          /\ blocking => MayBlock /\ from # Main
          /\ LET put == Joins(team, a, from, after, blocking)
                 called == IF blocking THEN WaitFor(put, from, a) ELSE put
             IN  Becomes(Pump(Enqueue(called, a, blocking)))
    BY ZenonT(40), <1>2, <2>1, <2>2 DEF Spawn, Joins, WaitFor
  <2>6. from = Main \/ (from \in Agents /\ Acting(team, from))
    BY Zenon, <1>2 DEF Spawn, Calls
  <2>7. blocking => from \in Agents /\ FreeToAsk(team, from)
    BY <1>0, <2>5, <2>6, ActingIdles
  <2>8. from = Main \/ Known(team, from)
    BY <2>6 DEF Acting, Prompted, Known
  <2>9. PICK put : put = Joins(team, a, from, after, blocking)
    OBVIOUS
  <2>10. PICK called : called = IF blocking THEN WaitFor(put, from, a) ELSE put
    OBVIOUS
  <2>11. Tends(called, NoOne)
    BY <2>4, <2>7, <2>9, <2>10, SpawnTends
  <2>12. called \in Teams
    BY <2>11 DEF Tends, Good
  <2>13. PICK q : q = Enqueue(called, a, blocking)
    OBVIOUS
  <2>14. Tends(q, NoOne)
    BY <2>4, <2>11, <2>13, EnqueueSteady
  <2>15. Unties(team, q)
    BY <2>4, <2>5, <2>8, <2>9, <2>10, <2>12, <2>13, SpawnedUnties
  <2>16. PICK u : u = Pump(q)
    OBVIOUS
  <2>17. Tends(u, NoOne) /\ Unties(q, u)
    BY <2>14, <2>16, PumpSteady, PumpUnties
  <2>18. team' = Returned(u)
    BY <2>5, <2>9, <2>10, <2>13, <2>16 DEF Becomes
  <2> QED
    BY <2>15, <2>17, <2>18, UntiesMore, BecomesUnlooped
<1> QED
  BY <1>1, <1>2

\* Neither do prompts that go on or end, questions and sleeps.
LEMMA PromptsUntie ==
  ASSUME Tends(team, NoOne), Unlooped(team), NEW a \in Agents,
         \/ SessionReads(a) \/ PromptEnds(a) \/ IdleRelease(a) \/ QuestionEnds(a)
         \/ RestBegins(a) \/ RestEnds(a)
  PROVE  Unlooped(team')
<1>0. Good(team, NoOne) /\ team \in Teams /\ Posted(team) /\ Sound(team, NoOne)
  BY DEF Tends, Good
<1>1. ASSUME NEW u, \/ u = ReadAll(team, a) \/ u = ReadMore(team, a) \/ u = SessionGone(team, a)
                    \/ \E R \in SUBSET Agents : u = [team EXCEPT !.resting = R]
      PROVE  Unties(team, u)
  <2>1. /\ u.state = team.state /\ u.parent = team.parent /\ u.after = team.after
        /\ u.owed = team.owed /\ u.ran = team.ran /\ u.going = team.going
        /\ u.prompting = team.prompting /\ u.continuing = team.continuing
        /\ u.reentered = team.reentered
    <3>1. CASE u = ReadAll(team, a)
      BY <1>0, <3>1 DEF ReadAll, Teams
    <3>2. CASE u = ReadMore(team, a)
      BY <1>0, <3>2 DEF ReadMore, Teams
    <3>3. CASE u = SessionGone(team, a)
      BY <1>0, <3>3 DEF SessionGone, Teams
    <3>4. CASE \E R \in SUBSET Agents : u = [team EXCEPT !.resting = R]
      <4>1. PICK R : u = [team EXCEPT !.resting = R]
        BY <3>4
      <4> QED
        BY <1>0, <4>1 DEF Teams
    <3> QED
      BY <1>1, <3>1, <3>2, <3>3, <3>4
  <2> QED
    BY <2>1, AsideUnties
<1>2. CASE SessionReads(a) \/ IdleRelease(a)
  <2>1. team' = ReadAll(team, a) \/ team' = SessionGone(team, a)
    BY <1>2 DEF SessionReads, ReadAll, IdleRelease, SessionGone
  <2> QED
    BY <1>1, <2>1, BecomesUnlooped
<1>3. CASE PromptEnds(a)
  <2>1. Acting(team, a) /\ ~Ending(team, a)
    BY <1>3 DEF PromptEnds
  <2>2. CASE team' = ReadMore(team, a)
    BY <1>1, <2>2, BecomesUnlooped
  <2>3. CASE Becomes(Settle(team, a))
    <3>1. Idles(team, a) /\ team.going[a] = "no" /\ team.resume[a] = {}
      BY <1>0, <2>1, ActingIdles, ActingPosted
    <3>2. team.state[a] \in {"running", "asking"}
      BY <2>1 DEF Acting, Prompted
    <3>3. PICK s : s = Settle(team, a)
      OBVIOUS
    <3>4. Tends(s, NoOne) /\ Unties(team, s)
      BY <2>1, <3>1, <3>2, <3>3, SettleTends, SettleUnties
    <3> QED
      BY <2>3, <3>3, <3>4, BecomesUnlooped DEF Becomes
  <2> QED
    BY <1>3, <2>2, <2>3 DEF PromptEnds, ReadMore
<1>4. CASE QuestionEnds(a)
  <2>1. PICK u : u = EndQuestion(team, a)
    OBVIOUS
  <2>2. team.question[a] # NoOne /\ team' = Returned(u)
    BY <1>4, <2>1 DEF QuestionEnds, Becomes
  <2>3. Tends(u, NoOne)
    BY <2>1, <2>2, EndQuestionSteady
  <2>4. Unties(team, u)
    BY <1>0, <2>1, <2>2, EndQuestionEases, EasesUnties
  <2> QED
    BY <2>2, <2>3, <2>4, BecomesUnlooped
<1>5. CASE RestBegins(a)
  <2>1. PICK R : R = team.resting \cup {a}
    OBVIOUS
  <2>2. PICK u : u = [team EXCEPT !.resting = R]
    OBVIOUS
  <2>3. Good(u, NoOne)
    BY <1>0, <1>5, <2>1, <2>2, LendsGood DEF RestBegins, Acting
  <2>4. R \in SUBSET Agents
    BY <1>0, <2>1 DEF Teams
  <2>5. Tends(u, NoOne)
    BY <2>2, <2>3, <2>4, RestTends
  <2>6. PICK p : p = Pump(u)
    OBVIOUS
  <2>7. Tends(p, NoOne) /\ Unties(u, p)
    BY <2>5, <2>6, PumpSteady, PumpUnties
  <2>8. Unties(team, u)
    BY <1>1, <2>2, <2>4
  <2>9. team' = Returned(p)
    BY <1>5, <2>1, <2>2, <2>6 DEF RestBegins, Becomes
  <2> QED
    BY <2>7, <2>8, <2>9, UntiesMore, BecomesUnlooped
<1>6. CASE RestEnds(a)
  <2>1. PICK R : R = team.resting \ {a}
    OBVIOUS
  <2>2. PICK u : u = [team EXCEPT !.resting = R]
    OBVIOUS
  <2>3. PICK v : v = IF team.state[a] # "running" \/ Fits(u) THEN u ELSE GoOnWhenFree(u, a, "rest")
    OBVIOUS
  <2>4. a \in team.resting /\ team' = Returned(v)
    BY <1>6, <2>1, <2>2, <2>3 DEF RestEnds, Becomes
  <2>5. R \in SUBSET Agents /\ \A b \in Agents : b \in R <=> (b \in team.resting /\ b # a)
    BY <1>0, <2>1 DEF Teams
  <2>6. Tends(v, NoOne)
    BY <2>2, <2>3, <2>4, <2>5, WakesTends
  <2>7. u \in Teams /\ u.state = team.state
    BY <1>0, <2>2, <2>5 DEF Teams
  <2>8. Unties(team, u)
    BY <1>1, <2>2, <2>5
  <2>9. Unties(u, v)
    <3>1. PICK how \in {"on", "rest"} : how = "rest"
      OBVIOUS
    <3>2. CASE v = u
      BY <3>2, UntiesMore
    <3>3. CASE v # u
      <4>1. v = GoOnWhenFree(u, a, how) /\ u.state[a] \in {"running", "asking"}
        BY <2>3, <2>7, <3>1, <3>3
      <4> QED
        BY <2>7, <4>1, GoOnWhenFreeEases, EasesUnties
    <3> QED
      BY <3>2, <3>3
  <2> QED
    BY <2>4, <2>6, <2>8, <2>9, UntiesMore, BecomesUnlooped
<1> QED
  BY <1>2, <1>3, <1>4, <1>5, <1>6

\* Launches, done or failed, close no ring.
LEMMA LaunchesUntie ==
  ASSUME Tends(team, NoOne), Locals(team), Unlooped(team), NEW a \in Agents,
         LaunchDone(a) \/ LaunchFails(a)
  PROVE  Unlooped(team')
<1>0. Neat(team, a) /\ Tidy(team, a) /\ team \in Teams
  BY DEF Neat, Locals, Tends, Good
<1>1. CASE LaunchDone(a)
  <2>1. PICK u : u = Run(Launched(team, a), a)
    OBVIOUS
  <2>2. a \in team.opening /\ team' = Returned(u)
    BY <1>1, <2>1 DEF LaunchDone, Becomes, Launched
  <2>3. Tends(u, NoOne) /\ Unties(team, u)
    BY <2>1, <2>2, LaunchTends, LaunchUnties
  <2> QED
    BY <2>2, <2>3, BecomesUnlooped
<1>2. CASE LaunchFails(a)
  <2>1. PICK v : v = Closed(team, a)
    OBVIOUS
  <2>2. a \in team.opening /\ ~Ending(team, a)
    BY <1>2 DEF LaunchFails
  <2>3. /\ Tends(v, NoOne) /\ Idles(v, a) /\ v.going[a] = "no"
        /\ v.resume[a] = team.resume[a] /\ ~Ended(v, a) /\ a \notin v.prompting
    BY <1>0, <2>1, <2>2, ClosedStrikes
  <2>4. /\ v.state[a] = "starting" /\ ~Ending(v, a) /\ v.continuing = team.continuing
    <3>1. v.state = team.state /\ v.stop = team.stop /\ v.continuing = team.continuing
      BY <1>0, <2>1 DEF Closed, Teams
    <3>2. team.state[a] = "starting"
      BY <2>2 DEF Tends, Good, Sound, Opens
    <3> QED
      BY <2>2, <3>1, <3>2 DEF Ending
  <2>5. Unlooped(v)
    <3>1. Unties(team, v)
      BY <1>0, <2>1, AsidesUntie
    <3> QED
      BY <3>1, BecomesUnlooped
  <2>6. \/ a \in team.continuing /\ team' = Returned(FallBack(v, a))
        \/ team' = Returned(Settled(FailRun(v, a)))
        \/ team' = Returned(ResumeFailed(v, a))
        \/ team.resume[a] = {} /\ team' = Returned(Settled(Fail(v, a)))
    BY <1>2, <2>1 DEF LaunchFails, Closed, Becomes
  <2>7. CASE a \in team.continuing /\ team' = Returned(FallBack(v, a))
    <3>1. Tends(FallBack(v, a), NoOne) /\ Unties(v, FallBack(v, a))
      BY <2>3, <2>4, <2>7, FallBackTends, FallBackUnties
    <3> QED
      BY <2>5, <2>7, <3>1, BecomesUnlooped
  <2>8. CASE team' = Returned(ResumeFailed(v, a))
    <3>1. Tends(ResumeFailed(v, a), NoOne) /\ Unties(v, ResumeFailed(v, a))
      BY <2>3, <2>4, ResumeFailedTends, ResumeFailedUnties
    <3> QED
      BY <2>5, <2>8, <3>1, BecomesUnlooped
  <2>9. CASE team' = Returned(Settled(FailRun(v, a)))
    <3>1. Tends(FailRun(v, a), NoOne) /\ Unties(v, FailRun(v, a))
      BY <2>3, <2>4, FailRunStrikes, FailRunUnties
    <3> QED
      BY <2>5, <2>9, <3>1, BecomesUnlooped
  <2>10. CASE team.resume[a] = {} /\ team' = Returned(Settled(Fail(v, a)))
    <3>1. Tends(Fail(v, a), NoOne) /\ Unties(v, Fail(v, a))
      BY <2>3, <2>4, <2>10, FailStrikes, FailUnties
    <3> QED
      BY <2>5, <2>10, <3>1, BecomesUnlooped
  <2> QED
    BY <2>6, <2>7, <2>8, <2>9, <2>10
<1> QED
  BY <1>1, <1>2

\* Neither do prompts that fail.
LEMMA FailuresUntie ==
  ASSUME Tends(team, NoOne), Unlooped(team), NEW a \in Agents, PromptFails(a)
  PROVE  Unlooped(team')
<1>1. Acting(team, a) /\ ~Ending(team, a) /\ Good(team, NoOne)
  BY DEF PromptFails, Tends
<1>2. Idles(team, a) /\ team.going[a] = "no"
  BY <1>1, ActingIdles, ActingPosted
<1>3. team.state[a] \in {"running", "asking"} /\ ~Ended(team, a)
  BY <1>1 DEF Acting, Prompted, Ended, EndedStates
<1>4. CASE team' = Returned(FallBack(team, a))
  <2>1. PICK u : u = FallBack(team, a)
    OBVIOUS
  <2>2. Tends(u, NoOne) /\ Unties(team, u)
    BY <1>2, <1>3, <2>1, FallBackTends, FallBackUnties
  <2> QED
    BY <1>4, <2>1, <2>2, BecomesUnlooped
<1>5. CASE team' = Returned(Settled(FailRun(team, a)))
  <2>1. PICK u : u = FailRun(team, a)
    OBVIOUS
  <2>2. Tends(u, NoOne) /\ Unties(team, u)
    BY <1>1, <1>2, <1>3, <2>1, FailRunStrikes, FailRunUnties
  <2> QED
    BY <1>5, <2>1, <2>2, BecomesUnlooped
<1> QED
  BY <1>4, <1>5 DEF PromptFails, Becomes

\* Neither do stops,
LEMMA StopsUntie ==
  ASSUME Tends(team, NoOne), Unlooped(team), NEW a \in Agents, NEW by \in Actors \cup {NoOne},
         StopAgent(by, a)
  PROVE  Unlooped(team')
<1>1. PICK p : p = Stop(team, a, by)
  OBVIOUS
<1>2. Tends(p, NoOne)
  BY <1>1, StopStrikes DEF StopAgent
<1>3. Unties(team, p)
  BY <1>1, StopUnties
<1>4. PICK s : s = Settled(p)
  OBVIOUS
<1>5. Tends(s, NoOne) /\ Unties(p, s) /\ s \in Teams
  BY <1>2, <1>4, SettledSpares, SettledUnties DEF Tends, Good
<1>6. PICK c : c = CallWaits(s, by, a)
  OBVIOUS
<1>7. Tends(c, NoOne) /\ Unties(s, c)
  <2>1. CASE by \in Agents /\ Ending(s, a)
    <3>1. c = CallsStop(s, by, a)
      BY <1>6, <2>1 DEF CallWaits, CallsStop
    <3>2. c \in Teams /\ Same(s, c)
      BY <1>5, <2>1, <3>1, ReadSame
    <3>3. Alike(s, c)
      BY <1>5, <3>1 DEF CallsStop, Teams, Alike, AlikeOf, Ending
    <3>4. /\ c.state = s.state /\ c.parent = s.parent /\ c.after = s.after /\ c.owed = s.owed
          /\ c.ran = s.ran /\ c.going = s.going /\ c.prompting = s.prompting
          /\ c.continuing = s.continuing /\ c.reentered = s.reentered
      BY <1>5, <3>1 DEF CallsStop, Teams
    <3>5. Tends(c, NoOne)
      BY <1>5, <3>2, <3>3, AlikeSteady
    <3> QED
      BY <3>4, <3>5, AsideUnties
  <2>2. CASE ~(by \in Agents /\ Ending(s, a))
    BY <1>5, <1>6, <2>2, UntiesMore DEF CallWaits
  <2> QED
    BY <2>1, <2>2
<1>8. Unties(team, c)
  BY <1>3, <1>5, <1>7, UntiesMore
<1>9. team' = Returned(c)
  BY <1>1, <1>4, <1>6 DEF StopAgent, Becomes
<1> QED
  BY <1>7, <1>8, <1>9, BecomesUnlooped

\* and aborts that settle.
LEMMA AbortsUntie ==
  ASSUME Tends(team, NoOne), Unlooped(team), NEW a \in Agents, Aborted(a)
  PROVE  Unlooped(team')
<1>1. PICK e : e = EndStop(team, a)
  OBVIOUS
<1>2. Tends(e, NoOne) /\ Unties(team, e)
  BY <1>1, EndStopSpares, EndStopUnties DEF Aborted
<1>3. team' = Returned(Settled(e))
  BY <1>1 DEF Aborted, Becomes
<1> QED
  BY <1>2, <1>3, BecomesUnlooped

\* Nobody waits for anyone at first.
LEMMA StartsUnlooped == Init => Unlooped(team)
<1> SUFFICES ASSUME Init PROVE Unlooped(team)
  OBVIOUS
<1>1. /\ team.state = [a \in Agents |-> "none"] /\ team.parent = [a \in Agents |-> NoOne]
      /\ team.owed = [a \in Agents |-> {}] /\ team.after = [a \in Agents |-> {}]
      /\ team.going = [a \in Agents |-> "no"] /\ team.prompting = {} /\ team.continuing = {}
  BY DEF Init, NoAgents
<1>2. Ranked(team)
  <2> SUFFICES ASSUME NEW a \in Agents PROVE RanOf(team, a) /\ ElseOf(team, a)
    BY DEF Ranked
  <2>1. RanOf(team, a)
    BY <1>1 DEF RanOf
  <2>2. ElseOf(team, a)
    BY <1>1, NumbersOf DEF ElseOf
  <2> QED
    BY <2>1, <2>2
<1>3. ASSUME NEW a \in Agents PROVE Blockers(team, a) = {}
  <2> SUFFICES ASSUME NEW b \in Blockers(team, a) PROVE FALSE
    OBVIOUS
  <2>1. Live(team, b) /\ ((b \in Agents /\ team.parent[b] = a) \/ b \in {})
    BY <1>1, BlockersOf DEF Unran
  <2> QED
    BY <1>1, <2>1, NumbersOf
<1>4. Loopless(team)
  BY <1>3 DEF Loopless
<1> QED
  BY <1>2, <1>4 DEF Unlooped

\* No step of the team closes a ring, action by action.
LEMMA StepsUntie ==
  Tends(team, NoOne) /\ Snug(team) /\ Unlooped(team) /\ [Next]_vars => Unlooped(team)'
<1> SUFFICES ASSUME Tends(team, NoOne), Snug(team), Unlooped(team), [Next]_vars
             PROVE  Unlooped(team')
  BY DEF Unlooped, Ranked, RanOf, ElseOf, Loopless, Blockers, WaitsOf, LiveChildren, OwedLive,
         Children, WaitingFor, Known, Live
<1>1. ASSUME NEW by \in Actors, Spawn(by) PROVE Unlooped(team')
  BY <1>1, CallsUntie
<1>2. ASSUME NEW from \in Actors, NEW to \in Actors, Message(from, to) PROVE Unlooped(team')
  BY <1>2, CallsUntie
<1>3. ASSUME NEW a \in Agents,
             \/ SessionReads(a) \/ PromptEnds(a) \/ IdleRelease(a) \/ QuestionEnds(a)
             \/ RestBegins(a) \/ RestEnds(a)
      PROVE  Unlooped(team')
  BY <1>3, PromptsUntie
<1>4. ASSUME NEW a \in Agents, PromptFails(a) PROVE Unlooped(team')
  BY <1>4, FailuresUntie
<1>5. ASSUME NEW a \in Agents, LaunchDone(a) \/ LaunchFails(a) PROVE Unlooped(team')
  BY <1>5, LaunchesUntie DEF Snug
<1>6. ASSUME NEW a \in Agents, NEW by \in Actors \cup {NoOne}, StopAgent(by, a)
      PROVE  Unlooped(team')
  BY <1>6, StopsUntie
<1>7. ASSUME NEW a \in Agents, Aborted(a) PROVE Unlooped(team')
  BY <1>7, AbortsUntie
<1>8. CASE UNCHANGED vars
  BY <1>8 DEF vars
<1> QED
  BY <1>1, <1>2, <1>3, <1>4, <1>5, <1>6, <1>7, <1>8 DEF Next

\* So nobody waits for one that waits for it.
LEMMA UnloopedEnds == Unlooped(team) => NoWaitLoop
<1> SUFFICES ASSUME Unlooped(team), ~team.reentered, NEW a \in Agents, NEW b \in Blockers(team, a)
             PROVE  ~DependsOn(team, b, a)
  BY DEF NoWaitLoop
<1> QED
  BY LooplessDepends DEF Unlooped

\* No agent waits for one that waits for it, over its children, the answers owed to it and the
\* agents its first run follows, unless an agent that had ended was resumed (routing.ts askPeer,
\* validation.ts, slots.ts), for any numbers of agents, slots and messages.
THEOREM NoWaitLoopHolds == MCSpec => []NoWaitLoop
<1>1. MCInit => Tends(team, NoOne) /\ Snug(team) /\ Unlooped(team)
  BY StartsTends, StartsUnlooped DEF MCInit
<1>2. Tends(team, NoOne) /\ Snug(team) /\ Unlooped(team) /\ [MCNext]_<<part, vars, leaseVars>>
        => Tends(team, NoOne)' /\ Snug(team)' /\ Unlooped(team)'
  <2> SUFFICES ASSUME Tends(team, NoOne), Snug(team), Unlooped(team),
                      [MCNext]_<<part, vars, leaseVars>>
               PROVE  Tends(team, NoOne)' /\ Snug(team)' /\ Unlooped(team)'
    OBVIOUS
  <2>1. [Next]_vars
    BY DEF MCNext
  <2> QED
    BY <2>1, StepsTend, StepsUntie
<1>3. Unlooped(team) => NoWaitLoop
  BY UnloopedEnds
<1> QED
  BY <1>1, <1>2, <1>3, PTL DEF MCSpec
=============================================================================
