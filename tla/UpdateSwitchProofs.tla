-------------------------- MODULE UpdateSwitchProofs --------------------------
(***************************************************************************)
(* Proofs about UpdateSwitch, for any packages, releases and texts and any   *)
(* number of commands, edits, deaths and losses.                             *)
(***************************************************************************)
EXTENDS UpdateSwitch, TLAPS

(***************************************************************************)
(* The inductive invariant                                                 *)
(***************************************************************************)

\* No command went by an old state.json, none began without the record of an entry, no switch
\* went by a state.json without the enable record.
Fine == ~raced /\ ~forgot /\ ~bare

\* The steps of switchTo, and those after state.json is written.
SwitchSteps == {"record", "undo", "link", "settings"}
AfterRecord == {"undo", "link", "settings"}
Runs(cmd) == job # None /\ job.cmd = cmd
Switches == job # None /\ job.cmd # "disable" /\ job.at \in SwitchSteps
\* A cycle or enable that goes by the state.json it read before.
Plans ==
    \/ At("cycle", "plan") \/ At("cycle", "repairLink") \/ At("cycle", "repairSettings")
    \/ At("enable", "first")

\* A state.json of an updater that is off is empty, and has an original for each entry
\* that its sets manage.
Sound(st) ==
    /\ ~st.enabled => st.managed = NothingManaged /\ st.current = None /\ st.previous = None
    /\ st.current # None => \A k \in Keys : st.current[k] # None => st.managed[k] # None
    /\ st.previous # None => \A k \in Keys : st.previous[k] # None => st.managed[k] # None

SoundStates ==
    Fine =>
        /\ Sound(state)
        /\ asked.enable # None => Sound(asked.enable)
        /\ Plans => Sound(job.from)

\* What a command has at its step.  The state.json it read before is there or was lost.
JobData ==
    /\ Runs("cycle") => job.at \in {"plan", "repairLink", "repairSettings"} \cup SwitchSteps
    /\ Runs("rollback") => job.at \in SwitchSteps \cup {"mark"} /\ job.from \in Sets
    /\ Runs("enable") => job.at \in SwitchSteps \cup {"first", "launcher", "config"}
    /\ Runs("disable") =>
          job.at \in {"launcher", "settings", "config", "clear", "removeUndo"} /\ job.from \in Managed
    /\ Runs("rollback") => job.set \in Sets
    /\ Switches => job.set \in Sets
    /\ Switches /\ job.at = "record" => job.packages \in Managed
    /\ Plans => job.from \in States /\ (~raced => state \in {job.from, EmptyState})
    /\ Plans /\ job.cmd = "cycle" => job.from.current # None /\ state \in {job.from, EmptyState}

\* How far state.json is at each step.
JobState ==
    /\ Switches /\ job.at \in AfterRecord =>
          state.current \in {job.set, None} /\ (state.enabled => state.current = job.set)
    /\ At("disable", "removeUndo") => ~state.enabled

\* A set that is to be recorded has entries that the command saw or that were managed before.
Planned ==
    Fine /\ state.enabled /\ Switches /\ job.at = "record" => \A k \in Keys : job.set[k] # None =>
        /\ job.packages[k] # None \/ state.managed[k] # None
        /\ job.packages[k] \in Rel => state.managed[k] # None

\* Originals are texts.
Originals ==
    Fine =>
        /\ state.managed \in [Keys -> Texts \cup {None}]
        /\ undo # None => undo \in [Keys -> Texts \cup {None}]
        /\ Switches /\ job.at = "undo" => job.packages \in [Keys -> Texts \cup {None}]
        /\ Plans => job.from.managed \in [Keys -> Texts \cup {None}]

\* state.json has the text of each store entry,
InState ==
    Fine /\ state.enabled => \A k \in Keys : settings[k] \in Rel => state.managed[k] # None
\* the copy has it too,
InCopy ==
    Fine /\ ~torn => \A k \in Keys : settings[k] \in Rel => undo # None /\ undo[k] # None
\* and they agree, other than between the two writes, also with what a command read before,
Agree ==
    Fine /\ ~torn =>
        /\ state.enabled /\ ~(Switches /\ job.at = "undo") =>
              \A k \in Keys : state.managed[k] # None => undo # None /\ undo[k] = state.managed[k]
        /\ Plans =>
              \A k \in Keys : job.from.managed[k] # None => undo # None /\ undo[k] = job.from.managed[k]
\* and do so once the copy is written, whatever died or was lost before.
Has(managed) ==
    /\ managed \in Managed
    /\ state.enabled => managed = state.managed
    /\ \A k \in Keys : job.set[k] # None \/ settings[k] \in Rel => managed[k] # None
Copies ==
    Fine /\ Switches =>
        /\ job.at = "undo" => Has(job.packages)
        /\ job.at \in {"link", "settings"} => Has(undo)

\* disable goes by what state.json and the copy said until settings.json is restored,
\* and then no store entry is left.
Restores ==
    Fine /\ ~torn =>
        /\ At("disable", "launcher") \/ At("disable", "settings") =>
              \A k \in Keys : settings[k] \in Rel => job.from[k] \in Texts
        /\ At("disable", "config") \/ At("disable", "clear") \/ At("disable", "removeUndo") =>
              \A k \in Keys : settings[k] \notin Rel

WayInv == SoundStates /\ JobData /\ JobState /\ Planned /\ Originals /\ InState /\ InCopy /\ Agree
          /\ Copies /\ Restores

(* What is loaded *)

\* Each store entry belongs to the current set, also of the state.json that a command read
\* before, or to the one that will be recorded.
Covers(st) == st.current # None => \A k \in Keys : settings[k] \in Rel => st.current[k] # None
InSet == ~raced /\ ~loose => Covers(state) /\ (Plans => Covers(job.from))
WillBeInSet ==
    ~raced /\ Switches /\ job.at = "record" =>
        /\ job.cmd = "cycle" /\ ~loose =>
              \A k \in Keys : settings[k] \in Rel => job.set[k] # None
        /\ job.cmd = "enable" =>
              \A k \in Keys : settings[k] \in Rel => job.packages[k] \in Rel

(* What was rolled back *)

\* A release that was left behind is marked, or the rollback is about to mark it; none is left
\* behind under a rollback whose store was lost after its first write.
LeftIsBad ==
    ~raced /\ spent["death"] = 0 =>
        /\ left \subseteq state.bad \cup
              (IF Runs("rollback") /\ job.at # "record" THEN RolledBack(job.set, job.from) ELSE {})
        /\ Runs("rollback") /\ job.at # "record" /\ job.lost => left = {}
\* What a cycle is about to switch to is not marked, other than what it has.
PlansNoBad ==
    At("cycle", "record") =>
        \A x \in All : job.set[x] # None /\ <<x, job.set[x]>> \in state.bad =>
            state.current # None /\ job.set[x] = state.current[x]

(***************************************************************************)
(* What the fields of records are after a step                             *)
(***************************************************************************)

\* A command that goes on keeps what it has.
LEMMA Going ==
  ASSUME job \in Jobs, NEW at \in Steps, Goes(at) \/ GoesInStore(at)
  PROVE /\ job' \in Jobs /\ job' # None
        /\ job'.cmd = job.cmd /\ job'.at = at /\ job'.set = job.set
        /\ job'.packages = job.packages /\ job'.from = job.from
        /\ job'.lost => job.lost
<1>1. job' = [job EXCEPT !.at = at] \/ job' = [job EXCEPT !.at = at, !.lost = FALSE]
  BY DEF Goes, GoesInStore
<1>2. job' \in Jobs
  BY <1>1 DEF Jobs
<1>3. QED
  BY <1>1, <1>2, NoneAssumption DEF Jobs

\* A command begins.
LEMMA Beginning ==
  ASSUME NEW cmd \in {"cycle", "rollback", "enable", "disable"}, NEW at \in Steps,
         NEW from \in Sets \cup Managed \cup States \cup {None}, Begins(cmd, at, from)
  PROVE /\ job' \in Jobs /\ job' # None
        /\ job'.cmd = cmd /\ job'.at = at /\ job'.from = from
<1>1. job' = [cmd |-> cmd, at |-> at, set |-> None, packages |-> None, from |-> from,
              lost |-> FALSE]
  BY DEF Begins
<1>2. job' \in Jobs
  BY <1>1 DEF Jobs
<1>3. QED
  BY <1>1, <1>2, NoneAssumption

\* A command has a set to switch to.
LEMMA ToSwitch ==
  ASSUME job \in Jobs, settings \in Managed, NEW set \in Sets, SwitchesTo(set)
  PROVE /\ job' \in Jobs /\ job' # None
        /\ job'.cmd = job.cmd /\ job'.at = "record" /\ job'.set = set /\ job'.packages = settings
<1>1. job' = [cmd |-> job.cmd, at |-> "record", set |-> set, packages |-> settings, from |-> None,
              lost |-> FALSE]
  BY DEF SwitchesTo
<1>2. job' \in Jobs
  BY <1>1 DEF Jobs, Steps
<1>3. QED
  BY <1>1, <1>2, NoneAssumption

\* Marks of releases change nothing else of state.json.
LEMMA Marking ==
  ASSUME NEW st \in States, NEW bad \in SUBSET (All \X Rel), NEW new, new = [st EXCEPT !.bad = bad]
  PROVE /\ new \in States
        /\ new.enabled = st.enabled /\ new.current = st.current /\ new.previous = st.previous
        /\ new.managed = st.managed /\ new.bad = bad
BY DEF States

\* The state.json of an updater that is off.
LEMMA Emptying ==
  ASSUME NEW bad \in SUBSET (All \X Rel), NEW new, new = [EmptyState EXCEPT !.bad = bad]
  PROVE /\ new \in States
        /\ ~new.enabled /\ new.current = None /\ new.previous = None
        /\ new.managed = NothingManaged /\ new.bad = bad
<1>1. NothingManaged \in Managed
  BY DEF NothingManaged, Managed, Entries
<1>2. QED
  BY <1>1 DEF States, EmptyState

\* The state.json of a new store.
LEMMA Empty ==
  /\ EmptyState \in States /\ ~EmptyState.enabled
  /\ EmptyState.current = None /\ EmptyState.previous = None
  /\ EmptyState.managed = NothingManaged /\ EmptyState.bad = {}
<1>1. NothingManaged \in Managed
  BY DEF NothingManaged, Managed, Entries
<1>2. QED
  BY <1>1 DEF States, EmptyState

(***************************************************************************)
(* Types                                                                   *)
(***************************************************************************)

\* What the operators on sets and settings return.
LEMMA SetsAndEntries ==
  /\ \A packages \in Managed, set \in Sets : ApplySet(packages, set) \in Managed
  /\ \A packages, managed \in Managed : RestoreOriginals(packages, managed) \in Managed
  /\ \A packages, managed \in Managed, set \in Sets : NewlyManaged(packages, set, managed) \in Managed
  /\ \A set \in Sets : set[Pi] \in Rel
  /\ \A to, from \in Sets : RolledBack(to, from) \subseteq All \X Rel
<1>1. \A packages \in Managed, set \in Sets : ApplySet(packages, set) \in Managed
  BY DEF ApplySet, Managed, Sets, Entries, All
<1>2. \A packages, managed \in Managed : RestoreOriginals(packages, managed) \in Managed
  BY DEF RestoreOriginals, Managed
<1>3. \A packages, managed \in Managed, set \in Sets : NewlyManaged(packages, set, managed) \in Managed
  BY DEF NewlyManaged, Managed
<1>4. \A set \in Sets : set[Pi] \in Rel
  BY DEF Sets, All
<1>5. \A to, from \in Sets : RolledBack(to, from) \subseteq All \X Rel
  BY DEF RolledBack, ChangedKeys, Sets
<1>6. QED
  BY <1>1, <1>2, <1>3, <1>4, <1>5

\* undoSource is originals or nothing.
LEMMA UndoType == TypeOK => UndoSource \in Managed \cup {None}
BY DEF TypeOK, UndoSource, States, Managed

\* Types hold at the start.
LEMMA TypeInit == Init => TypeOK
<1> SUFFICES ASSUME Init PROVE TypeOK
  OBVIOUS
<1>1. state \in States /\ settings \in Managed
  BY Empty DEF Init, Managed, Entries
<1>2. asked \in [enable : States \cup {None}, disable : Managed \cup {None}]
  BY DEF Init, NothingAsked
<1>3. spent \in [Events -> Nat]
  BY DEF Init
<1>4. QED
  BY <1>1, <1>2, <1>3 DEF Init, TypeOK

\* Each action keeps the types.
LEMMA TypeStep == TypeOK /\ JobData /\ [Next]_vars => TypeOK'
<1> SUFFICES ASSUME TypeOK, JobData, [Next]_vars PROVE TypeOK'
  OBVIOUS
<1> USE NoneAssumption DEF machine, ghosts
<1>0. /\ job # None => job \in Jobs
      /\ state.current # None => state.current \in Sets
      /\ state.previous # None => state.previous \in Sets
      /\ asked.enable # None => asked.enable \in States
      /\ asked.disable # None => asked.disable \in Managed
      /\ Plans /\ job.cmd = "cycle" => job.from.current \in Sets
  BY DEF TypeOK, States, JobData
<1>a. ASSUME NEW event \in Events, NEW bound, Happens(event, bound) PROVE spent' \in [Events -> Nat]
  BY <1>a DEF Happens, TypeOK
<1>b. ASSUME UserCommand PROVE spent' \in [Events -> Nat]
  BY <1>a, <1>b DEF UserCommand, Events, TypeOK
<1>1. CASE CycleBegin
  <2>1. job' \in Jobs
    BY <1>1, Beginning DEF CycleBegin, FirstStep, Steps, TypeOK
  <2>2. QED
    BY <1>1, <2>1 DEF CycleBegin, TypeOK
<1>2. CASE RepairLink
  <2>1. job' \in Jobs
    BY <1>0, <1>2, Going DEF RepairLink, At, Steps
  <2>2. link' \in Rel
    BY <1>0, <1>2, SetsAndEntries DEF RepairLink, Plans, At
  <2>3. QED
    BY <1>2, <2>1, <2>2 DEF RepairLink, TypeOK
<1>3. CASE RepairSettings
  <2>1. job' \in Jobs
    BY <1>0, <1>3, Going DEF RepairSettings, At, Steps
  <2>2. settings' \in Managed
    BY <1>0, <1>3, SetsAndEntries DEF RepairSettings, Plans, At, TypeOK
  <2>3. QED
    BY <1>3, <2>1, <2>2 DEF RepairSettings, TypeOK
<1>4. CASE CyclePasses
  <2>1. job' \in Jobs
    BY <1>0, <1>4, ToSwitch DEF CyclePasses, At, Candidates, TypeOK
  <2>2. spent' \in [Events -> Nat]
    BY <1>4, <1>a DEF CyclePasses, InstallsFail, Events, TypeOK
  <2>3. QED
    BY <1>4, <2>1, <2>2 DEF CyclePasses, TypeOK
<1>5. CASE CycleFails
  <2>1. PICK candidate \in Candidates(settings, {}), set \in Sets :
           LET base == Base(candidate)
               changes == {x \in ChangedKeys(base, candidate) : candidate[x] # None}
           IN  /\ \E culprits \in SUBSET {x \in changes : set[x] = base[x]} :
                     state' = [state EXCEPT !.bad = @ \cup {<<x, candidate[x]>> : x \in culprits}]
               /\ IF set = base THEN Ends ELSE SwitchesTo(set)
    BY <1>5 DEF CycleFails
  <2>2. PICK culprits \in SUBSET {x \in All : candidate[x] # None} :
           state' = [state EXCEPT !.bad = state.bad \cup {<<x, candidate[x]>> : x \in culprits}]
    BY <2>1 DEF ChangedKeys
  <2>3. candidate \in Sets
    BY DEF Candidates
  <2>4. state.bad \cup {<<x, candidate[x]>> : x \in culprits} \in SUBSET (All \X Rel)
    BY <2>3 DEF Sets, TypeOK, States
  <2>5. state' \in States
    BY <2>2, <2>4, Marking DEF TypeOK
  <2>6. job' \in Jobs \cup {None}
    BY <1>0, <1>5, <2>1, ToSwitch DEF CycleFails, At, Ends, TypeOK
  <2>7. QED
    BY <1>5, <2>5, <2>6 DEF CycleFails, TypeOK
<1>6. CASE CycleKeeps
  BY <1>6 DEF CycleKeeps, Ends, TypeOK
<1>7. CASE Record
  <2>1. job.set \in Sets /\ job.packages \in Managed /\ job \in Jobs /\ job.from \in
           Sets \cup Managed \cup States \cup {None}
    BY <1>0, <1>7 DEF Record, Switching, Switches, JobData, SwitchSteps, Jobs
  <2>2. state' \in States
    <3>1. NewlyManaged(job.packages, job.set, state.managed) \in Managed
      BY <2>1, SetsAndEntries DEF TypeOK, States
    <3>2. QED
      BY <1>7, <2>1, <3>1 DEF Record, TypeOK, States
  <2>3. job' \in Jobs
    <3>1. NewlyManaged(job.packages, job.set, state.managed) \in Managed
      BY <2>1, SetsAndEntries DEF TypeOK, States
    <3>2. QED
      BY <1>7, <2>1, <3>1 DEF Record, Jobs, Steps
  <2>4. left' \subseteq All \X Rel
    <3>1. CASE job.cmd = "rollback"
      BY <1>7, <2>1, <3>1 DEF Record, JobData, Runs, ChangedKeys, TypeOK, Sets, Switching
    <3>2. CASE job.cmd # "rollback"
      BY <1>7, <3>2 DEF Record, TypeOK
    <3>3. QED
      BY <3>1, <3>2
  <2>5. loose' \in BOOLEAN
    BY <1>7 DEF Record, TypeOK, Switching
  <2>6. QED
    BY <1>7, <2>2, <2>3, <2>4, <2>5 DEF Record, TypeOK
<1>8. CASE CopyUndo
  <2>1. job' \in Jobs
    BY <1>0, <1>8, Going DEF CopyUndo, Switching, Steps
  <2>2. undo' \in Managed \cup {None}
    BY <1>0, <1>8 DEF CopyUndo, Copied, Switching, Jobs, TypeOK
  <2>3. QED
    BY <1>8, <2>1, <2>2 DEF CopyUndo, TypeOK
<1>9. CASE FlipLink
  <2>1. job' \in Jobs
    BY <1>0, <1>9, Going DEF FlipLink, Switching, Steps
  <2>2. link' \in Rel
    BY <1>9, SetsAndEntries DEF FlipLink, JobData, Switching, Switches, SwitchSteps
  <2>3. QED
    BY <1>9, <2>1, <2>2 DEF FlipLink, TypeOK
<1>10. CASE RewriteSettings
  <2>1. job' \in Jobs \cup {None}
    BY <1>0, <1>10, Going DEF RewriteSettings, Switching, Steps, Ends
  <2>2. settings' \in Managed
    BY <1>10, SetsAndEntries DEF RewriteSettings, JobData, Switching, Switches, SwitchSteps, TypeOK
  <2>3. QED
    BY <1>10, <2>1, <2>2 DEF RewriteSettings, TypeOK
<1>11. CASE RollbackBegin
  <2>1. job' \in Jobs
    BY <1>0, <1>11 DEF RollbackBegin, HasPrevious, Jobs, Steps, TypeOK
  <2>2. QED
    BY <1>11, <1>b, <2>1 DEF RollbackBegin, TypeOK
<1>12. CASE RollbackMarks
  <2>1. state.bad \cup RolledBack(job.set, job.from) \in SUBSET (All \X Rel)
    BY <1>12, SetsAndEntries DEF RollbackMarks, At, JobData, Runs, TypeOK, States
  <2>2. state' \in States
    BY <1>12, <2>1, Marking DEF RollbackMarks, TypeOK
  <2>3. QED
    BY <1>12, <2>2 DEF RollbackMarks, Ends, TypeOK
<1>13. CASE Retry
  <2>1. state' \in States
    BY <1>13, Marking DEF Retry, TypeOK
  <2>2. QED
    BY <1>13, <1>b, <2>1 DEF Retry, TypeOK
<1>14. CASE EnableAsks
  <2>1. asked' \in [enable : States \cup {None}, disable : Managed \cup {None}]
    BY <1>14 DEF EnableAsks, TypeOK
  <2>2. QED
    BY <1>14, <1>b, <2>1 DEF EnableAsks, TypeOK
<1>15. CASE EnableLocks
  <2>1. asked' \in [enable : States \cup {None}, disable : Managed \cup {None}]
    BY <1>15 DEF EnableLocks, TypeOK
  <2>2. job' \in Jobs
    BY <1>0, <1>15, Beginning DEF EnableLocks, Steps
  <2>3. QED
    BY <1>15, <2>1, <2>2 DEF EnableLocks, TypeOK
<1>16. CASE EnableWrites
  <2>1. job.from \in States
    BY <1>16 DEF EnableWrites, JobData, Plans
  <2>2. state' \in States
    BY <1>16, <2>1 DEF EnableWrites, States
  <2>3. job' \in Jobs
    BY <1>0, <1>16, ToSwitch DEF EnableWrites, At, TypeOK
  <2>4. QED
    BY <1>16, <2>2, <2>3 DEF EnableWrites, TypeOK
<1>17. CASE EnableFails
  BY <1>17 DEF EnableFails, Ends, TypeOK
<1>18. CASE InstallLauncher
  <2>1. job' \in Jobs
    BY <1>0, <1>18, Going DEF InstallLauncher, At, Steps
  <2>2. QED
    BY <1>18, <2>1 DEF InstallLauncher, TypeOK
<1>19. CASE EnableConfig
  BY <1>19 DEF EnableConfig, Ends, TypeOK
<1>20. CASE DisableAsks
  <2>1. asked' \in [enable : States \cup {None}, disable : Managed \cup {None}]
    BY <1>20, UndoType DEF DisableAsks, TypeOK
  <2>2. QED
    BY <1>20, <1>b, <2>1 DEF DisableAsks, TypeOK
<1>21. CASE DisableLocks
  <2>1. asked' \in [enable : States \cup {None}, disable : Managed \cup {None}]
    BY <1>21 DEF DisableLocks, TypeOK
  <2>2. job' \in Jobs
    BY <1>0, <1>21, Beginning DEF DisableLocks, Steps
  <2>3. QED
    BY <1>21, <2>1, <2>2 DEF DisableLocks, TypeOK
<1>22. CASE GivesUp
  BY <1>22 DEF GivesUp, TypeOK
<1>23. CASE RestoreLauncher
  <2>1. job' \in Jobs
    BY <1>0, <1>23, Going DEF RestoreLauncher, At, Steps
  <2>2. QED
    BY <1>23, <2>1 DEF RestoreLauncher, TypeOK
<1>24. CASE RestoreSettings
  <2>1. job' \in Jobs
    BY <1>0, <1>24, Going DEF RestoreSettings, At, Steps
  <2>2. settings' \in Managed
    BY <1>24, SetsAndEntries DEF RestoreSettings, At, JobData, Runs, TypeOK
  <2>3. QED
    BY <1>24, <2>1, <2>2 DEF RestoreSettings, TypeOK
<1>25. CASE DisableConfig
  <2>1. job' \in Jobs
    BY <1>0, <1>25, Going DEF DisableConfig, At, Steps
  <2>2. QED
    BY <1>25, <2>1 DEF DisableConfig, TypeOK
<1>26. CASE ClearEnableState
  <2>1. job' \in Jobs
    BY <1>0, <1>26, Going DEF ClearEnableState, At, Steps
  <2>2. state' \in States
    BY <1>26, Emptying DEF ClearEnableState, TypeOK, States
  <2>3. QED
    BY <1>26, <2>1, <2>2 DEF ClearEnableState, TypeOK
<1>27. CASE RemoveUndo
  BY <1>27 DEF RemoveUndo, Ends, TypeOK
<1>28. ASSUME NEW k \in Keys, UserEdits(k) PROVE TypeOK'
  <2>1. settings' \in Managed
    BY <1>28 DEF UserEdits, TypeOK, Managed, Entries
  <2>2. spent' \in [Events -> Nat]
    BY <1>28, <1>a DEF UserEdits, Events
  <2>3. QED
    BY <1>28, <2>1, <2>2 DEF UserEdits, TypeOK
<1>29. CASE Dies
  <2>1. spent' \in [Events -> Nat]
    BY <1>29, <1>a DEF Dies, Events
  <2>2. QED
    BY <1>29, <2>1 DEF Dies, Ends, TypeOK
<1>30. CASE LoseStore
  <2>1. spent' \in [Events -> Nat]
    BY <1>30, <1>a DEF LoseStore, Events
  <2>2. job' \in Jobs \cup {None}
    BY <1>0, <1>30 DEF LoseStore, Free, Jobs
  <2>3. QED
    BY <1>30, <2>1, <2>2, Empty DEF LoseStore, TypeOK
<1>31. CASE OverwriteLauncher
  <2>1. spent' \in [Events -> Nat]
    BY <1>31, <1>a DEF OverwriteLauncher, Events
  <2>2. QED
    BY <1>31, <2>1 DEF OverwriteLauncher, TypeOK
<1>32. CASE FindsNoStore
  BY <1>32 DEF FindsNoStore, Ends, TypeOK
<1>33. CASE UNCHANGED vars
  BY <1>33 DEF vars, TypeOK
<1>34. QED
  BY <1>1, <1>2, <1>3, <1>4, <1>5, <1>6, <1>7, <1>8, <1>9, <1>10, <1>11, <1>12, <1>13, <1>14,
     <1>15, <1>16, <1>17, <1>18, <1>19, <1>20, <1>21, <1>22, <1>23, <1>24, <1>25, <1>26, <1>27,
     <1>28, <1>29, <1>30, <1>31, <1>32, <1>33
     DEF Next, Cycle, Switch, Rollback, Enable, Disable

(***************************************************************************)
(* Which actions write what                                                *)
(***************************************************************************)

\* state.json is written by these.
LEMMA StateFrame ==
  [Next]_vars => \/ state' = state
                 \/ CycleFails \/ Record \/ RollbackMarks \/ Retry \/ EnableWrites \/ ClearEnableState
                 \/ LoseStore
BY DEF Next, Cycle, Switch, Rollback, Enable, Disable, vars, machine,
       CycleBegin, RepairLink, RepairSettings, CyclePasses, CycleKeeps, CopyUndo, FlipLink,
       RewriteSettings, RollbackBegin, EnableAsks, EnableLocks, EnableFails, InstallLauncher,
       EnableConfig, DisableAsks, DisableLocks, GivesUp, RestoreLauncher, RestoreSettings,
       DisableConfig, RemoveUndo, UserEdits, Dies, FindsNoStore, OverwriteLauncher

\* The copy is written by these.
LEMMA UndoFrame == [Next]_vars => undo' = undo \/ CopyUndo \/ RemoveUndo
BY DEF Next, Cycle, Switch, Rollback, Enable, Disable, vars, machine,
       CycleBegin, RepairLink, RepairSettings, CyclePasses, CycleFails, CycleKeeps, Record, FlipLink,
       RewriteSettings, RollbackBegin, RollbackMarks, Retry, EnableAsks, EnableLocks, EnableWrites,
       EnableFails, InstallLauncher, EnableConfig, DisableAsks, DisableLocks, GivesUp,
       RestoreLauncher, RestoreSettings, DisableConfig, ClearEnableState, UserEdits, Dies, LoseStore,
       FindsNoStore, OverwriteLauncher

\* settings.json is written by these.
LEMMA SettingsFrame ==
  [Next]_vars => \/ settings' = settings
                 \/ RepairSettings \/ RewriteSettings \/ RestoreSettings \/ \E k \in Keys : UserEdits(k)
BY DEF Next, Cycle, Switch, Rollback, Enable, Disable, vars, machine,
       CycleBegin, RepairLink, CyclePasses, CycleFails, CycleKeeps, Record, CopyUndo, FlipLink,
       RollbackBegin, RollbackMarks, Retry, EnableAsks, EnableLocks, EnableWrites, EnableFails,
       InstallLauncher, EnableConfig, DisableAsks, DisableLocks, GivesUp, RestoreLauncher,
       DisableConfig, ClearEnableState, RemoveUndo, Dies, LoseStore, FindsNoStore, OverwriteLauncher

\* What enable and disable have read changes with these.
LEMMA AskedFrame ==
  [Next]_vars => \/ asked' = asked
                 \/ EnableAsks \/ EnableLocks \/ DisableAsks \/ DisableLocks \/ GivesUp
BY DEF Next, Cycle, Switch, Rollback, Enable, Disable, vars, machine,
       CycleBegin, RepairLink, RepairSettings, CyclePasses, CycleFails, CycleKeeps, Record, CopyUndo,
       FlipLink, RewriteSettings, RollbackBegin, RollbackMarks, Retry, EnableWrites, EnableFails,
       InstallLauncher, EnableConfig, RestoreLauncher, RestoreSettings, DisableConfig,
       ClearEnableState, RemoveUndo, UserEdits, Dies, LoseStore, FindsNoStore, OverwriteLauncher

\* The ghosts change with these.
LEMMA GhostFrame ==
  [Next]_vars =>
    /\ raced' = raced \/ EnableLocks \/ DisableLocks
    /\ forgot' = forgot \/ EnableWrites
    /\ bare' = bare \/ Record
    /\ torn' = torn \/ CopyUndo \/ Dies
    /\ loose' = loose \/ Record
    /\ left' = left \/ Record \/ Retry \/ LoseStore
BY DEF Next, Cycle, Switch, Rollback, Enable, Disable, vars, machine, ghosts,
       CycleBegin, RepairLink, RepairSettings, CyclePasses, CycleFails, CycleKeeps, CopyUndo, FlipLink,
       RewriteSettings, RollbackBegin, RollbackMarks, Retry, EnableAsks, EnableLocks, EnableFails,
       InstallLauncher, EnableConfig, DisableAsks, DisableLocks, GivesUp, RestoreLauncher,
       RestoreSettings, DisableConfig, ClearEnableState, RemoveUndo, UserEdits, Dies, LoseStore,
       FindsNoStore, OverwriteLauncher, EnableWrites, Record

\* Nothing that the command which runs goes by changes, other than settings.json.
Waits ==
    job' = job /\ (job # None => UNCHANGED <<state, undo, raced, forgot, bare, torn, loose, left>>)

\* The command that runs goes on, ends or begins with these.
LEMMA JobFrame ==
  [Next]_vars => \/ Waits \/ job' = None
                 \/ LoseStore
                 \/ CycleBegin \/ RepairLink \/ RepairSettings \/ CyclePasses \/ CycleFails
                 \/ Record \/ CopyUndo \/ FlipLink \/ RewriteSettings
                 \/ RollbackBegin
                 \/ EnableLocks \/ EnableWrites \/ InstallLauncher
                 \/ DisableLocks \/ RestoreLauncher \/ RestoreSettings \/ DisableConfig
                 \/ ClearEnableState
BY DEF Next, Cycle, Switch, Rollback, Enable, Disable, vars, machine, ghosts, Waits, Ends, Free,
       CycleKeeps, RollbackMarks, Retry, EnableAsks, EnableFails, EnableConfig, DisableAsks, GivesUp,
       RemoveUndo, UserEdits, Dies, LoseStore, FindsNoStore, OverwriteLauncher

(* What the writes of state.json leave *)

SameRecord ==
    /\ state'.enabled = state.enabled /\ state'.managed = state.managed
    /\ state'.current = state.current /\ state'.previous = state.previous
Emptied ==
    ~state'.enabled /\ state'.managed = NothingManaged /\ state'.current = None /\ state'.previous = None

\* What the first write of switchTo leaves.
LEMMA Recording ==
  ASSUME TypeOK, JobData, Record
  PROVE /\ job.set \in Sets /\ job.packages \in Managed /\ job # None
        /\ state'.enabled = state.enabled /\ state'.bad = state.bad
        /\ state'.previous = state.current /\ state'.current = job.set
        /\ state'.managed = NewlyManaged(job.packages, job.set, state.managed)
        /\ state'.managed \in Managed
        /\ job' # None /\ job'.at = "undo"
        /\ job'.cmd = job.cmd /\ job'.set = job.set /\ job'.from = job.from /\ ~job'.lost
        /\ job'.packages = IF state.enabled THEN state'.managed ELSE None
<1>1. job \in Jobs /\ job.set \in Sets /\ job.packages \in Managed
  BY DEF Record, Switching, Switches, JobData, SwitchSteps, TypeOK
<1> DEFINE managed == NewlyManaged(job.packages, job.set, state.managed)
<1>2. managed \in Managed
  BY <1>1, SetsAndEntries DEF TypeOK, States
<1>3. /\ state'.enabled = state.enabled /\ state'.bad = state.bad
      /\ state'.previous = state.current /\ state'.current = job.set
      /\ state'.managed = managed
  BY DEF Record, TypeOK, States
<1>4. job' = [job EXCEPT !.at = "undo", !.lost = FALSE,
                         !.packages = IF state.enabled THEN managed ELSE None]
  BY DEF Record
<1>5. job' \in Jobs
  BY <1>1, <1>2, <1>4 DEF Jobs, Steps
<1>6. job' # None
  BY <1>5, NoneAssumption
<1>7. /\ job'.at = "undo" /\ job'.cmd = job.cmd /\ job'.set = job.set /\ job'.from = job.from
      /\ ~job'.lost /\ job'.packages = IF state.enabled THEN managed ELSE None
  BY <1>1, <1>4 DEF Jobs
<1>8. QED
  BY <1>1, <1>2, <1>3, <1>6, <1>7, NoneAssumption

\* What enable writes before it switches.
LEMMA Enabling ==
  ASSUME TypeOK, JobData, EnableWrites
  PROVE /\ At("enable", "first") /\ Plans
        /\ job.from \in States /\ (~raced => state \in {job.from, EmptyState})
        /\ state'.enabled /\ state'.managed = job.from.managed /\ state'.bad = job.from.bad
        /\ state'.current = job.from.current /\ state'.previous = job.from.previous
<1>1. At("enable", "first") /\ Plans
  BY DEF EnableWrites, Plans
<1>2. job.from \in States /\ (~raced => state \in {job.from, EmptyState})
  BY <1>1 DEF JobData
<1>3. QED
  BY <1>1, <1>2 DEF EnableWrites, States

\* What a lost store leaves of the command that runs.
LEMMA Losing ==
  ASSUME TypeOK, LoseStore
  PROVE /\ Emptied /\ state' = EmptyState /\ state'.bad = {} /\ left' = {}
        /\ UNCHANGED <<undo, settings, asked, torn, raced, forgot, bare, loose>>
        /\ job = None => job' = None
        /\ job # None =>
              /\ job' # None /\ job'.cmd = job.cmd /\ job'.at = job.at /\ job'.set = job.set
              /\ job'.packages = job.packages /\ job'.from = job.from
<1>1. Emptied /\ state' = EmptyState /\ state'.bad = {} /\ left' = {}
  BY Empty DEF LoseStore, Emptied
<1>2. job = None => job' = None
  BY DEF LoseStore, Free
<1>3. ASSUME job # None
      PROVE /\ job' # None /\ job'.cmd = job.cmd /\ job'.at = job.at /\ job'.set = job.set
            /\ job'.packages = job.packages /\ job'.from = job.from
  <2>1. job \in Jobs /\ job' = [job EXCEPT !.lost = TRUE]
    BY <1>3 DEF TypeOK, LoseStore, Free
  <2>2. job' \in Jobs
    BY <2>1 DEF Jobs
  <2>3. QED
    BY <2>1, <2>2, NoneAssumption DEF Jobs
<1>4. QED
  BY <1>1, <1>2, <1>3 DEF LoseStore

\* Other than in these two, a write of state.json marks releases or empties it.
LEMMA StateWrites ==
  TypeOK /\ JobData /\ [Next]_vars => SameRecord \/ Emptied \/ Record \/ EnableWrites
<1> SUFFICES ASSUME TypeOK, JobData, [Next]_vars PROVE SameRecord \/ Emptied \/ Record \/ EnableWrites
  OBVIOUS
<1>1. CASE state' = state
  BY <1>1 DEF SameRecord
<1>2. CASE CycleFails
  <2>1. PICK B : state' = [state EXCEPT !.bad = state.bad \cup B]
    BY <1>2 DEF CycleFails
  <2>2. QED
    BY <2>1 DEF SameRecord, TypeOK, States
<1>3. CASE RollbackMarks
  BY <1>3 DEF RollbackMarks, SameRecord, TypeOK, States
<1>4. CASE Retry
  BY <1>4 DEF Retry, SameRecord, TypeOK, States
<1>5. CASE ClearEnableState
  BY <1>5, Emptying DEF ClearEnableState, Emptied, TypeOK, States
<1>6. CASE LoseStore
  BY <1>6, Empty DEF LoseStore, Emptied
<1>7. QED
  BY <1>1, <1>2, <1>3, <1>4, <1>5, <1>6, StateFrame

\* Where each action takes the command that runs.
LEMMA JobMoves ==
  ASSUME TypeOK
  PROVE /\ CycleBegin =>
              job'.cmd = "cycle" /\ job'.at \in {"plan", "repairLink"} /\ job'.from = state
        /\ RepairLink =>
              job'.cmd = "cycle" /\ job'.at = "repairSettings" /\ job'.from = job.from
        /\ RepairSettings => job'.cmd = "cycle" /\ job'.at = "plan" /\ job'.from = job.from
        /\ CyclePasses =>
              /\ job'.cmd = "cycle" /\ job'.at = "record" /\ job'.set \in Sets
              /\ job'.packages = settings
        /\ CycleFails =>
              /\ job' # None => job'.cmd = "cycle" /\ job'.at = "record" /\ job'.set \in Sets
              /\ job' # None => job'.packages = settings
        /\ CopyUndo =>
              /\ job # None /\ job.cmd \in {"cycle", "rollback", "enable"}
              /\ job.at = "undo" /\ job'.at = "link"
              /\ job'.cmd = job.cmd /\ job'.set = job.set /\ job'.from = job.from
        /\ FlipLink =>
              /\ job # None /\ job.cmd \in {"cycle", "rollback", "enable"}
              /\ job.at = "link" /\ job'.at = "settings"
              /\ job'.cmd = job.cmd /\ job'.set = job.set /\ job'.from = job.from
        /\ RewriteSettings =>
              /\ job # None /\ job.cmd \in {"cycle", "rollback", "enable"} /\ job.at = "settings"
              /\ job' # None /\ job.cmd = "rollback" => job'.at = "mark"
              /\ job' # None /\ job.cmd = "enable" => job'.at = "launcher"
              /\ job' # None => job.cmd # "cycle"
              /\ job' # None => job'.cmd = job.cmd /\ job'.set = job.set /\ job'.from = job.from
        /\ EnableLocks => job'.cmd = "enable" /\ job'.at = "first" /\ job'.from = asked.enable
        /\ EnableWrites =>
              /\ job'.cmd = "enable" /\ job'.at = "record" /\ job'.set \in Sets
              /\ job'.packages = settings
        /\ InstallLauncher => job'.cmd = "enable" /\ job'.at = "config"
        /\ DisableLocks =>
              /\ job'.cmd = "disable" /\ job'.at = "launcher" /\ job'.from = asked.disable
        /\ RestoreLauncher =>
              /\ job'.cmd = "disable" /\ job'.at = "settings" /\ job'.from = job.from
        /\ RestoreSettings => job'.cmd = "disable" /\ job'.at = "config" /\ job'.from = job.from
        /\ DisableConfig => job'.cmd = "disable" /\ job'.at = "clear" /\ job'.from = job.from
        /\ ClearEnableState =>
              /\ job'.cmd = "disable" /\ job'.at = "removeUndo" /\ job'.from = job.from
<1>0. /\ job # None => job \in Jobs
      /\ settings \in Managed
      /\ asked.enable # None => asked.enable \in States
      /\ asked.disable # None => asked.disable \in Managed
  BY DEF TypeOK
<1>1. ASSUME CycleBegin
      PROVE job'.cmd = "cycle" /\ job'.at \in {"plan", "repairLink"} /\ job'.from = state
  BY <1>0, <1>1, Beginning DEF CycleBegin, FirstStep, Steps, TypeOK
<1>2. ASSUME RepairLink
      PROVE job'.cmd = "cycle" /\ job'.at = "repairSettings" /\ job'.from = job.from
  BY <1>0, <1>2, Going DEF RepairLink, At, Steps
<1>3. ASSUME RepairSettings
      PROVE job'.cmd = "cycle" /\ job'.at = "plan" /\ job'.from = job.from
  BY <1>0, <1>3, Going DEF RepairSettings, At, Steps
<1>4. ASSUME CyclePasses
      PROVE /\ job'.cmd = "cycle" /\ job'.at = "record" /\ job'.set \in Sets
            /\ job'.packages = settings
  BY <1>0, <1>4, ToSwitch DEF CyclePasses, Candidates, At
<1>5. ASSUME CycleFails
      PROVE /\ job' # None => job'.cmd = "cycle" /\ job'.at = "record" /\ job'.set \in Sets
            /\ job' # None => job'.packages = settings
  BY <1>0, <1>5, ToSwitch DEF CycleFails, Ends, At
<1>6. ASSUME CopyUndo
      PROVE /\ job # None /\ job.cmd \in {"cycle", "rollback", "enable"}
            /\ job.at = "undo" /\ job'.at = "link"
            /\ job'.cmd = job.cmd /\ job'.set = job.set /\ job'.from = job.from
  BY <1>0, <1>6, Going DEF CopyUndo, Switching, Steps
<1>7. ASSUME FlipLink
      PROVE /\ job # None /\ job.cmd \in {"cycle", "rollback", "enable"}
            /\ job.at = "link" /\ job'.at = "settings"
            /\ job'.cmd = job.cmd /\ job'.set = job.set /\ job'.from = job.from
  BY <1>0, <1>7, Going DEF FlipLink, Switching, Steps
<1>8. ASSUME RewriteSettings
      PROVE /\ job # None /\ job.cmd \in {"cycle", "rollback", "enable"} /\ job.at = "settings"
            /\ job' # None /\ job.cmd = "rollback" => job'.at = "mark"
            /\ job' # None /\ job.cmd = "enable" => job'.at = "launcher"
            /\ job' # None => job.cmd # "cycle"
            /\ job' # None => job'.cmd = job.cmd /\ job'.set = job.set /\ job'.from = job.from
  <2>1. job # None /\ job.cmd \in {"cycle", "rollback", "enable"} /\ job.at = "settings" /\ job \in Jobs
    BY <1>0, <1>8 DEF RewriteSettings, Switching
  <2>2. CASE job.cmd = "rollback"
    <3>1. Goes("mark")
      BY <1>8, <2>2 DEF RewriteSettings
    <3>2. QED
      BY <2>1, <2>2, <3>1, Going DEF Steps
  <2>3. CASE job.cmd = "enable"
    <3>1. Goes("launcher")
      BY <1>8, <2>3 DEF RewriteSettings
    <3>2. QED
      BY <2>1, <2>3, <3>1, Going DEF Steps
  <2>4. CASE job.cmd = "cycle"
    <3>1. Ends
      BY <1>8, <2>4 DEF RewriteSettings
    <3>2. QED
      BY <2>1, <2>4, <3>1 DEF Ends
  <2>5. QED
    BY <2>1, <2>2, <2>3, <2>4
<1>9. ASSUME EnableLocks
      PROVE job'.cmd = "enable" /\ job'.at = "first" /\ job'.from = asked.enable
  BY <1>0, <1>9, Beginning DEF EnableLocks, Steps
<1>10. ASSUME EnableWrites
      PROVE /\ job'.cmd = "enable" /\ job'.at = "record" /\ job'.set \in Sets
            /\ job'.packages = settings
  BY <1>0, <1>10, ToSwitch DEF EnableWrites, At
<1>11. ASSUME InstallLauncher
      PROVE job'.cmd = "enable" /\ job'.at = "config"
  BY <1>0, <1>11, Going DEF InstallLauncher, At, Steps
<1>12. ASSUME DisableLocks
      PROVE job'.cmd = "disable" /\ job'.at = "launcher" /\ job'.from = asked.disable
  BY <1>0, <1>12, Beginning DEF DisableLocks, Steps
<1>13. ASSUME RestoreLauncher
      PROVE job'.cmd = "disable" /\ job'.at = "settings" /\ job'.from = job.from
  BY <1>0, <1>13, Going DEF RestoreLauncher, At, Steps
<1>14. ASSUME RestoreSettings
      PROVE job'.cmd = "disable" /\ job'.at = "config" /\ job'.from = job.from
  BY <1>0, <1>14, Going DEF RestoreSettings, At, Steps
<1>15. ASSUME DisableConfig
      PROVE job'.cmd = "disable" /\ job'.at = "clear" /\ job'.from = job.from
  BY <1>0, <1>15, Going DEF DisableConfig, At, Steps
<1>16. ASSUME ClearEnableState
      PROVE job'.cmd = "disable" /\ job'.at = "removeUndo" /\ job'.from = job.from
  BY <1>0, <1>16, Going DEF ClearEnableState, At, Steps
<1>17. QED
  BY <1>1, <1>2, <1>3, <1>4, <1>5, <1>6, <1>7, <1>8, <1>9, <1>10, <1>11, <1>12, <1>13, <1>14,
     <1>15, <1>16

(***************************************************************************)
(* WayInv is inductive                                                     *)
(***************************************************************************)

\* The invariant holds at the start.
LEMMA WayInit == Init => WayInv
<1> SUFFICES ASSUME Init PROVE WayInv
  OBVIOUS
<1>1. job = None /\ undo = None /\ asked.enable = None
  BY DEF Init, NothingAsked
<1>2. state = EmptyState /\ \A k \in Keys : settings[k] \notin Rel
  BY SwitchAssumption DEF Init
<1>3. state.managed \in [Keys -> Texts \cup {None}]
  BY <1>2, Empty DEF NothingManaged
<1>4. SoundStates
  BY <1>1, <1>2, Empty DEF SoundStates, Sound, Plans, At
<1>5. QED
  BY <1>1, <1>2, <1>3, <1>4, Empty DEF WayInv, JobData, JobState, Planned, Originals, InState,
     InCopy, Agree, Copies, Restores, Runs, Switches, Plans, At

\* Once a command went by an old state.json, began without a record or recorded a switch without
\* one, that stays said.
LEMMA FineStays ==
  TypeOK /\ [Next]_vars /\ Fine' =>
    /\ Fine
    /\ Record => state.enabled
    /\ EnableLocks => asked.enable = state
    /\ DisableLocks => asked.disable = UndoSource
    /\ EnableWrites => \A k \in Keys : settings[k] \in Rel => job.from.managed[k] # None
BY GhostFrame DEF Fine, EnableLocks, DisableLocks, EnableWrites, Record, TypeOK

\* A cycle or enable has read state.json, and goes by it until it has a set.
LEMMA PlansFrom ==
  TypeOK /\ JobData /\ [Next]_vars /\ Plans' =>
    \/ job # None /\ Plans /\ job'.from = job.from
          /\ (state' = state \/ (Emptied /\ state' = EmptyState))
          /\ (job'.cmd = "cycle" => job.cmd = "cycle")
          /\ UNCHANGED <<undo, raced, forgot, bare, torn, loose>>
    \/ CycleBegin /\ job'.from = state
    \/ EnableLocks /\ job'.from = asked.enable
<1> SUFFICES ASSUME TypeOK, JobData, [Next]_vars, Plans'
             PROVE \/ job # None /\ Plans /\ job'.from = job.from
                         /\ (state' = state \/ (Emptied /\ state' = EmptyState))
                         /\ (job'.cmd = "cycle" => job.cmd = "cycle")
                         /\ UNCHANGED <<undo, raced, forgot, bare, torn, loose>>
                   \/ CycleBegin /\ job'.from = state
                   \/ EnableLocks /\ job'.from = asked.enable
  OBVIOUS
<1> USE DEF Plans, At
<1>1. CASE Waits
  BY <1>1 DEF Waits
<1>2. CASE job' = None
  BY <1>2
<1>3. CASE LoseStore
  BY <1>3, Losing
<1>4. CASE CycleBegin
  BY <1>4, JobMoves
<1>5. CASE RepairLink \/ RepairSettings
  BY <1>5, JobMoves DEF RepairLink, RepairSettings, ghosts
<1>6. CASE EnableLocks
  BY <1>6, JobMoves
<1>7. CASE CyclePasses \/ CycleFails \/ EnableWrites
  BY <1>7, JobMoves
<1>8. CASE CopyUndo \/ FlipLink \/ RewriteSettings
  BY <1>8, JobMoves
<1>9. CASE Record
  BY <1>9, Recording
<1>10. CASE RollbackBegin
  BY <1>10 DEF RollbackBegin
<1>11. QED
  BY <1>1, <1>2, <1>3, <1>4, <1>5, <1>6, <1>7, <1>8, <1>9, <1>10, JobFrame, JobMoves

\* Each action keeps the conjuncts of the invariant, one lemma each.
LEMMA SoundStep ==
  TypeOK /\ SoundStates /\ JobData /\ JobState /\ Planned /\ [Next]_vars => SoundStates'
<1> SUFFICES ASSUME TypeOK, SoundStates, JobData, JobState, Planned, [Next]_vars, Fine'
             PROVE /\ Sound(state')
                   /\ asked'.enable # None => Sound(asked'.enable)
                   /\ Plans' => Sound(job'.from)
  BY DEF SoundStates, Sound
<1>0. Fine /\ Sound(state)
  BY FineStays DEF SoundStates
<1>1. Sound(state')
  <2>1. CASE SameRecord
    BY <1>0, <2>1 DEF SameRecord, Sound
  <2>2. CASE Emptied
    BY <2>2 DEF Emptied, Sound
  <2>3. CASE Record
    <3>1. state.enabled
      BY <2>3, FineStays
    <3>2. \A k \in Keys : state.managed[k] # None => state'.managed[k] # None
      BY <2>3, Recording DEF NewlyManaged
    <3>3. \A k \in Keys : job.set[k] # None => state'.managed[k] # None
      BY <1>0, <2>3, <3>1, Recording DEF NewlyManaged, Planned, Switches, Record, Switching, SwitchSteps
    <3>4. QED
      BY <1>0, <2>3, <3>1, <3>2, <3>3, Recording DEF Sound
  <2>4. CASE EnableWrites
    <3>1. Sound(job.from)
      BY <1>0, <2>4, Enabling DEF SoundStates
    <3>2. QED
      BY <2>4, <3>1, Enabling DEF Sound
  <2>5. QED
    BY <2>1, <2>2, <2>3, <2>4, StateWrites
<1>2. asked'.enable # None => Sound(asked'.enable)
  <2>1. CASE asked' = asked
    BY <1>0, <2>1 DEF SoundStates
  <2>2. CASE EnableAsks
    BY <1>0, <2>2 DEF EnableAsks, TypeOK
  <2>3. CASE EnableLocks
    BY <2>3 DEF EnableLocks, TypeOK
  <2>4. CASE DisableAsks
    BY <1>0, <2>4 DEF DisableAsks, SoundStates, TypeOK
  <2>5. CASE DisableLocks
    BY <1>0, <2>5 DEF DisableLocks, SoundStates, TypeOK
  <2>6. CASE GivesUp
    BY <1>0, <2>6 DEF GivesUp, SoundStates, TypeOK
  <2>7. QED
    BY <2>1, <2>2, <2>3, <2>4, <2>5, <2>6, AskedFrame
<1>3. Plans' => Sound(job'.from)
  <2>1. CASE job # None /\ Plans /\ job'.from = job.from
    BY <1>0, <2>1 DEF SoundStates, Sound
  <2>2. CASE CycleBegin /\ job'.from = state
    BY <1>0, <2>2 DEF Sound
  <2>3. CASE EnableLocks /\ job'.from = asked.enable
    BY <1>0, <2>3, FineStays DEF Sound
  <2>4. QED
    BY <2>1, <2>2, <2>3, PlansFrom
<1>4. QED
  BY <1>1, <1>2, <1>3

LEMMA JobDataStep ==
  TypeOK /\ JobData /\ JobState /\ [Next]_vars => JobData'
<1> SUFFICES ASSUME TypeOK, JobData, JobState, [Next]_vars PROVE JobData'
  OBVIOUS
<1> DEFINE Reads ==
      /\ Plans => job.from \in States /\ (~raced => state \in {job.from, EmptyState})
      /\ Plans /\ job.cmd = "cycle" => job.from.current # None /\ state \in {job.from, EmptyState}
<1> DEFINE Has0 ==
      /\ Runs("cycle") => job.at \in {"plan", "repairLink", "repairSettings"} \cup SwitchSteps
      /\ Runs("rollback") => job.at \in SwitchSteps \cup {"mark"} /\ job.from \in Sets
      /\ Runs("enable") => job.at \in SwitchSteps \cup {"first", "launcher", "config"}
      /\ Runs("disable") =>
            job.at \in {"launcher", "settings", "config", "clear", "removeUndo"} /\ job.from \in Managed
      /\ Runs("rollback") => job.set \in Sets
      /\ Switches => job.set \in Sets
      /\ Switches /\ job.at = "record" => job.packages \in Managed
<1>a. Has0
  BY DEF JobData
<1>b. Reads'
  <2> SUFFICES ASSUME Plans'
               PROVE /\ job'.from \in States /\ (~raced' => state' \in {job'.from, EmptyState})
                     /\ job'.cmd = "cycle" =>
                           job'.from.current # None /\ state' \in {job'.from, EmptyState}
    OBVIOUS
  <2>1. CASE job # None /\ Plans /\ job'.from = job.from
               /\ (state' = state \/ (Emptied /\ state' = EmptyState))
               /\ (job'.cmd = "cycle" => job.cmd = "cycle")
               /\ UNCHANGED <<undo, raced, forgot, bare, torn, loose>>
    BY <2>1 DEF JobData
  <2>2. CASE CycleBegin /\ job'.from = state
    BY <2>2 DEF CycleBegin, machine, TypeOK
  <2>3. CASE EnableLocks /\ job'.from = asked.enable
    BY <2>3, JobMoves DEF EnableLocks, machine, TypeOK
  <2>4. QED
    BY <2>1, <2>2, <2>3, PlansFrom
<1>c. Has0'
  <2> USE <1>a DEF Runs, Switches, At, SwitchSteps
  <2>0. settings \in Managed
    BY DEF TypeOK
  <2>1. CASE Waits
    BY <2>1 DEF Waits
  <2>2. CASE job' = None
    BY <2>2
  <2>3. CASE CycleBegin
    BY <2>0, <2>3, JobMoves
  <2>4. CASE RepairLink
    BY <2>0, <2>4, JobMoves
  <2>5. CASE RepairSettings
    BY <2>0, <2>5, JobMoves
  <2>6. CASE CyclePasses
    BY <2>0, <2>6, JobMoves
  <2>7. CASE CycleFails
    BY <2>0, <2>7, JobMoves
  <2>8. CASE CopyUndo
    BY <2>0, <2>8, JobMoves
  <2>9. CASE FlipLink
    BY <2>0, <2>9, JobMoves
  <2>10. CASE RewriteSettings
    BY <2>0, <2>10, JobMoves
  <2>11. CASE InstallLauncher
    BY <2>0, <2>11, JobMoves
  <2>12. CASE RestoreLauncher
    BY <2>12, JobMoves DEF RestoreLauncher
  <2>13. CASE RestoreSettings
    BY <2>13, JobMoves DEF RestoreSettings
  <2>14. CASE DisableConfig
    BY <2>14, JobMoves DEF DisableConfig
  <2>15. CASE ClearEnableState
    BY <2>15, JobMoves DEF ClearEnableState
  <2>16. CASE Record
    BY <2>16, Recording DEF Record, Switching
  <2>17. CASE RollbackBegin
    <3>1. state.previous \in Sets /\ state.current \in Sets
      BY <2>17 DEF RollbackBegin, HasPrevious, TypeOK, States
    <3>2. QED
      BY <2>0, <2>17, <3>1 DEF RollbackBegin
  <2>18. CASE EnableLocks
    BY <2>18, JobMoves
  <2>19. CASE EnableWrites
    BY <2>0, <2>19, JobMoves
  <2>20. CASE DisableLocks
    BY <2>20, JobMoves DEF DisableLocks, TypeOK
  <2>21. CASE LoseStore
    BY <2>21, Losing
  <2>22. QED
    BY <2>1, <2>2, <2>3, <2>4, <2>5, <2>6, <2>7, <2>8, <2>9, <2>10, <2>11, <2>12, <2>13, <2>14,
       <2>15, <2>16, <2>17, <2>18, <2>19, <2>20, <2>21, JobFrame
<1>d. QED
  BY <1>b, <1>c DEF JobData

LEMMA JobStateStep ==
  TypeOK /\ JobData /\ JobState /\ [Next]_vars => JobState'
<1> SUFFICES ASSUME TypeOK, JobData, JobState, [Next]_vars PROVE JobState'
  OBVIOUS
<1> USE DEF JobState, Runs, Switches, At, SwitchSteps, AfterRecord
<1>1. CASE Waits
  BY <1>1 DEF Waits
<1>2. CASE job' = None
  BY <1>2
<1>3. CASE CycleBegin
  BY <1>3, JobMoves
<1>4. CASE RepairLink
  BY <1>4, JobMoves
<1>5. CASE RepairSettings
  BY <1>5, JobMoves
<1>6. CASE CopyUndo
  BY <1>6, JobMoves DEF CopyUndo
<1>7. CASE FlipLink
  BY <1>7, JobMoves DEF FlipLink
<1>8. CASE RewriteSettings
  BY <1>8, JobMoves DEF RewriteSettings
<1>9. CASE InstallLauncher
  BY <1>9, JobMoves DEF InstallLauncher
<1>10. CASE RestoreLauncher
  BY <1>10, JobMoves DEF RestoreLauncher
<1>11. CASE RestoreSettings
  BY <1>11, JobMoves DEF RestoreSettings
<1>12. CASE DisableConfig
  BY <1>12, JobMoves DEF DisableConfig
<1>13. CASE CyclePasses \/ CycleFails
  BY <1>13, JobMoves
<1>14. CASE LoseStore
  BY <1>14, Losing DEF Emptied
<1>15. CASE Record
  BY <1>15, Recording
<1>16. CASE RollbackBegin
  BY <1>16 DEF RollbackBegin
<1>17. CASE EnableLocks
  BY <1>17, JobMoves
<1>18. CASE EnableWrites
  BY <1>18, JobMoves
<1>19. CASE DisableLocks
  BY <1>19, JobMoves
<1>20. CASE ClearEnableState
  BY <1>20, JobMoves, Emptying DEF ClearEnableState, TypeOK, States
<1>21. QED
  BY <1>1, <1>2, <1>3, <1>4, <1>5, <1>6, <1>7, <1>8, <1>9, <1>10, <1>11, <1>12, <1>13, <1>14,
     <1>15, <1>16, <1>17, <1>18, <1>19, <1>20, JobFrame

\* The sets a cycle may switch to, of what it read before.
LEMMA Chosen ==
  ASSUME TypeOK, CyclePasses \/ CycleFails, job' # None, NEW k \in Keys, (job'.set)[k] # None
  PROVE k \in Tracked(settings, job.from)
<1>1. CASE CyclePasses
  <2>1. PICK failed \in SUBSET Keys : \E set \in Candidates(settings, failed) : SwitchesTo(set)
    BY <1>1 DEF CyclePasses
  <2>2. PICK set \in Candidates(settings, failed) : SwitchesTo(set)
    BY <2>1
  <2>3. job'.set = set
    BY <2>2 DEF SwitchesTo
  <2>4. QED
    BY <2>2, <2>3 DEF Candidates
<1>2. CASE CycleFails
  <2>1. PICK candidate \in Candidates(settings, {}), set \in Sets :
           /\ \A x \in All : set[x] \in {Base(candidate)[x], candidate[x]}
           /\ SwitchesTo(set)
    BY <1>2 DEF CycleFails, Ends
  <2>2. job'.set = set /\ set[k] \in {Base(candidate)[k], candidate[k]}
    BY <2>1 DEF SwitchesTo, All
  <2>3. QED
    BY <2>1, <2>2 DEF Candidates, Base, All
<1>3. QED
  BY <1>1, <1>2

LEMMA PlannedStep ==
  TypeOK /\ SoundStates /\ JobData /\ JobState /\ Planned /\ InState /\ [Next]_vars => Planned'
<1> SUFFICES ASSUME TypeOK, SoundStates, JobData, JobState, Planned, InState, [Next]_vars,
                    Fine', state'.enabled, Switches', job'.at = "record",
                    NEW k \in Keys, (job'.set)[k] # None
             PROVE /\ (job'.packages)[k] # None \/ (state'.managed)[k] # None
                   /\ (job'.packages)[k] \in Rel => (state'.managed)[k] # None
  BY DEF Planned
<1> USE SwitchAssumption
<1>0. job' # None /\ job'.cmd # "disable" /\ Fine
  BY FineStays DEF Switches
<1>1. CASE Waits
  BY <1>0, <1>1 DEF Waits, Planned, Switches
<1>2. CASE CyclePasses \/ CycleFails
  <2>1. k \in Tracked(settings, job.from) /\ job'.packages = settings
    BY <1>0, <1>2, Chosen, JobMoves
  <2>2. SameRecord
    BY <1>2, StateWrites DEF CyclePasses, CycleFails, Record, Switching, EnableWrites, At, Emptied
  <2>3. Plans /\ job.from = state
    <3>1. Plans /\ state \in {job.from, EmptyState}
      BY <1>2 DEF CyclePasses, CycleFails, Plans, At, JobData
    <3>2. QED
      BY <2>2, <3>1, Empty DEF SameRecord
  <2>4. Sound(state) /\ state.enabled
    BY <1>0, <2>2 DEF SoundStates, SameRecord
  <2>5. QED
    BY <1>0, <2>1, <2>2, <2>3, <2>4 DEF Tracked, InState, SameRecord, Sound
<1>3. CASE LoseStore
  BY <1>3, Losing DEF Emptied
<1>4. CASE RollbackBegin
  <2>1. /\ job'.set = state.previous /\ job'.packages = settings
        /\ state' = state /\ state.previous # None
    BY <1>4 DEF RollbackBegin, HasPrevious, machine
  <2>2. QED
    BY <1>0, <2>1 DEF SoundStates, Sound
<1>5. CASE EnableWrites
  <2>1. settings[k] \in Texts
    <3>1. PICK set \in Sets : (\A x \in Keys : set[x] # None => settings[x] \in Texts) /\ SwitchesTo(set)
      BY <1>5 DEF EnableWrites
    <3>2. QED
      BY <3>1 DEF SwitchesTo
  <2>2. QED
    BY <1>5, <2>1, JobMoves
<1>6. CASE RewriteSettings
  BY <1>0, <1>6, JobMoves
<1>7. CASE Record
  BY <1>7, Recording
<1>8. QED
  BY <1>0, <1>1, <1>2, <1>3, <1>4, <1>5, <1>6, <1>7, JobFrame, JobMoves

\* Between the two writes a command waits, loses the store, writes the copy or dies.
LEMMA BetweenWrites ==
  Switches /\ job.at = "undo" /\ [Next]_vars => Waits \/ LoseStore \/ CopyUndo \/ Dies
BY DEF Switches, Next, Cycle, Switch, Rollback, Enable, Disable, vars, machine, ghosts, Waits,
       Free, At, Switching, CycleBegin, RepairLink, RepairSettings, CyclePasses, CycleFails,
       CycleKeeps, Record, FlipLink, RewriteSettings, RollbackBegin, RollbackMarks, Retry, EnableAsks,
       EnableLocks, EnableWrites, EnableFails, InstallLauncher, EnableConfig, DisableAsks,
       DisableLocks, GivesUp, RestoreLauncher, RestoreSettings, DisableConfig, ClearEnableState,
       RemoveUndo, UserEdits, FindsNoStore, OverwriteLauncher

\* Only the first write comes before the copy.
LEMMA ToUndo ==
  TypeOK /\ [Next]_vars /\ Switches' /\ job'.at = "undo" => Waits \/ LoseStore \/ Record
<1> SUFFICES ASSUME TypeOK, [Next]_vars, job' # None, job'.cmd # "disable", job'.at = "undo"
             PROVE Waits \/ LoseStore \/ Record
  BY DEF Switches
<1>1. ~RollbackBegin
  BY DEF RollbackBegin
<1>2. ~CopyUndo /\ ~FlipLink /\ ~RewriteSettings
  BY JobMoves
<1>3. QED
  BY <1>1, <1>2, JobFrame, JobMoves

LEMMA OriginalsStep ==
  TypeOK /\ JobData /\ JobState /\ Planned /\ Originals /\ [Next]_vars => Originals'
<1> SUFFICES ASSUME TypeOK, JobData, JobState, Planned, Originals, [Next]_vars, Fine' PROVE
      /\ state'.managed \in [Keys -> Texts \cup {None}]
      /\ undo' # None => undo' \in [Keys -> Texts \cup {None}]
      /\ Switches' /\ job'.at = "undo" => job'.packages \in [Keys -> Texts \cup {None}]
      /\ Plans' => job'.from.managed \in [Keys -> Texts \cup {None}]
  BY DEF Originals
<1>0. Fine /\ state.managed \in [Keys -> Texts \cup {None}]
  BY FineStays DEF Originals
<1>1. state'.managed \in [Keys -> Texts \cup {None}]
  <2>1. CASE SameRecord
    BY <1>0, <2>1 DEF SameRecord
  <2>2. CASE Emptied
    BY <2>2 DEF Emptied, NothingManaged
  <2>3. CASE Record
    <3>1. state'.managed = NewlyManaged(job.packages, job.set, state.managed)
      BY <2>3, Recording
    <3>2. \A k \in Keys : NewlyManaged(job.packages, job.set, state.managed)[k] \in Texts \cup {None}
      <4>1. SUFFICES ASSUME NEW k \in Keys, job.packages[k] # None, job.set[k] # None,
                            state.managed[k] = None
                     PROVE job.packages[k] \in Texts
        BY <1>0 DEF NewlyManaged
      <4>2. job.packages[k] \in Entries
        BY <2>3, Recording DEF Managed
      <4>3. job.packages[k] \notin Rel
        <5>1. state.enabled
          BY <2>3, FineStays
        <5>2. QED
          BY <1>0, <2>3, <4>1, <5>1 DEF Planned, Record, Switching, Switches, SwitchSteps
      <4>4. QED
        BY <4>1, <4>2, <4>3 DEF Entries
    <3>3. QED
      BY <3>1, <3>2 DEF NewlyManaged
  <2>4. CASE EnableWrites
    BY <1>0, <2>4, Enabling DEF Originals
  <2>5. QED
    BY <2>1, <2>2, <2>3, <2>4, StateWrites
<1>2. undo' # None => undo' \in [Keys -> Texts \cup {None}]
  <2>1. CASE undo' = undo
    BY <1>0, <2>1 DEF Originals
  <2>2. CASE CopyUndo
    BY <1>0, <2>2 DEF CopyUndo, Copied, Originals, Switching, Switches, SwitchSteps
  <2>3. CASE RemoveUndo
    BY <2>3 DEF RemoveUndo
  <2>4. QED
    BY <2>1, <2>2, <2>3, UndoFrame
<1>3. Switches' /\ job'.at = "undo" => job'.packages \in [Keys -> Texts \cup {None}]
  <2> SUFFICES ASSUME Switches', job'.at = "undo"
               PROVE job'.packages \in [Keys -> Texts \cup {None}]
    OBVIOUS
  <2>1. CASE Waits \/ LoseStore
    BY <1>0, <2>1, Losing DEF Waits, Originals, Switches
  <2>2. CASE Record
    BY <1>1, <2>2, Recording, FineStays
  <2>3. QED
    BY <2>1, <2>2, ToUndo
<1>4. Plans' => job'.from.managed \in [Keys -> Texts \cup {None}]
  BY <1>0, PlansFrom, FineStays DEF Originals
<1>5. QED
  BY <1>1, <1>2, <1>3, <1>4

\* What settings.json names of the store after a step: what it named, or releases of the
\* set that a cycle repairs or a switch has recorded.
LEMMA StoreEntries ==
  ASSUME TypeOK, JobData, JobState, [Next]_vars, NEW k \in Keys,
         settings'[k] \in Rel, settings[k] \notin Rel
  PROVE /\ state' = state
        /\ \/ /\ RepairSettings /\ Plans /\ state \in {job.from, EmptyState}
              /\ job.from.current # None /\ job.from.current[k] # None
           \/ /\ RewriteSettings /\ Switches /\ job.at = "settings" /\ job.set[k] # None
              /\ state.current \in {job.set, None} /\ (state.enabled => state.current = job.set)
        /\ state.enabled => state.current # None /\ state.current[k] # None
<1> USE SwitchAssumption
<1>1. RepairSettings \/ RewriteSettings
  <2>1. CASE RestoreSettings
    BY <2>1 DEF RestoreSettings, RestoreOriginals
  <2>2. ASSUME NEW x \in Keys, UserEdits(x) PROVE FALSE
    BY <2>2 DEF UserEdits, TypeOK, Managed
  <2>3. QED
    BY <2>1, <2>2, SettingsFrame
<1>2. CASE RepairSettings
  <2>1. Plans /\ state \in {job.from, EmptyState} /\ job.from.current # None
    BY <1>2 DEF RepairSettings, JobData, Plans, At
  <2>2. job.from.current[k] # None
    BY <1>2 DEF RepairSettings, ApplySet
  <2>3. state' = state
    BY <1>2 DEF RepairSettings
  <2>4. QED
    BY <1>2, <2>1, <2>2, <2>3, Empty
<1>3. CASE RewriteSettings
  <2>1. Switches /\ job.at = "settings" /\ job.set \in Sets
    BY <1>3 DEF RewriteSettings, Switching, Switches, SwitchSteps, JobData
  <2>2. job.set[k] # None
    BY <1>3 DEF RewriteSettings, ApplySet
  <2>3. state' = state
    BY <1>3 DEF RewriteSettings
  <2>4. QED
    BY <1>3, <2>1, <2>2, <2>3, NoneAssumption DEF JobState, AfterRecord
<1>4. QED
  BY <1>1, <1>2, <1>3

LEMMA InStateStep ==
  TypeOK /\ SoundStates /\ JobData /\ JobState /\ InState /\ [Next]_vars => InState'
<1> SUFFICES ASSUME TypeOK, SoundStates, JobData, JobState, InState, [Next]_vars, Fine', state'.enabled,
                    NEW k \in Keys, settings'[k] \in Rel
             PROVE (state'.managed)[k] # None
  BY DEF InState
<1>0. Fine
  BY FineStays
<1>1. CASE settings[k] \notin Rel
  BY <1>0, <1>1, StoreEntries DEF SoundStates, Sound
<1>2. CASE settings[k] \in Rel
  <2>1. CASE SameRecord
    BY <1>0, <1>2, <2>1 DEF SameRecord, InState
  <2>2. CASE Emptied
    BY <2>2 DEF Emptied
  <2>3. CASE Record
    BY <1>0, <1>2, <2>3, Recording DEF InState, NewlyManaged
  <2>4. CASE EnableWrites
    BY <1>2, <2>4, Enabling, FineStays
  <2>5. QED
    BY <2>1, <2>2, <2>3, <2>4, StateWrites
<1>3. QED
  BY <1>1, <1>2

\* The invariant is what WayBack says: disable finds the text.
LEMMA WayIsBack ==
  ASSUME TypeOK, Originals, InState, InCopy, Fine, ~torn, NEW k \in Keys, settings[k] \in Rel
  PROVE Undoable(k)
<1> USE SwitchAssumption, NoneAssumption
<1>1. undo # None /\ undo[k] \in Texts /\ undo \in Managed
  BY DEF InCopy, Originals, TypeOK
<1>2. CASE state.enabled
  <2>1. state.managed[k] # None /\ state.managed[k] \in Texts
    BY <1>2 DEF InState, Originals
  <2>2. UndoSource \in Managed
    BY <1>1, <1>2 DEF UndoSource, TypeOK, States, Managed
  <2>3. UndoSource[k] = state.managed[k]
    BY <1>2, <2>1 DEF UndoSource
  <2>4. QED
    BY <2>1, <2>2, <2>3 DEF Undoable
<1>3. CASE ~state.enabled
  BY <1>1, <1>3 DEF UndoSource, Undoable
<1>4. QED
  BY <1>2, <1>3

LEMMA InCopyStep ==
  TypeOK /\ WayInv /\ [Next]_vars => InCopy'
<1> SUFFICES ASSUME TypeOK, WayInv, [Next]_vars, Fine', ~torn', NEW k \in Keys, settings'[k] \in Rel
             PROVE undo' # None /\ undo'[k] # None
  BY DEF InCopy
<1> USE NoneAssumption DEF WayInv
<1>0. Fine
  BY FineStays
<1>1. CASE CopyUndo
  <2>1. Has(job.packages) /\ undo' = Copied /\ settings' = settings
    BY <1>0, <1>1 DEF CopyUndo, Switching, Switches, SwitchSteps, Copies
  <2>2. QED
    BY <2>1 DEF Has, Copied
<1>2. CASE RemoveUndo
  BY <1>0, <1>2 DEF RemoveUndo, ghosts, Restores
<1>3. CASE undo' = undo /\ ~CopyUndo
  <2>1. ~torn
    BY <1>3, GhostFrame DEF Dies
  <2>2. CASE settings[k] \in Rel
    BY <1>0, <1>3, <2>1, <2>2 DEF InCopy
  <2>3. CASE settings[k] \notin Rel
    <3>1. CASE Plans /\ job.from.current # None /\ job.from.current[k] # None
      <4>1. job.from.managed[k] # None
        BY <1>0, <3>1 DEF SoundStates, Sound
      <4>2. QED
        BY <1>0, <1>3, <2>1, <3>1, <4>1 DEF Agree, Originals
    <3>2. CASE Switches /\ job.at = "settings" /\ job.set[k] # None
      BY <1>0, <1>3, <3>2 DEF Copies, Has
    <3>3. QED
      BY <2>3, <3>1, <3>2, StoreEntries
  <2>4. QED
    BY <2>2, <2>3
<1>4. QED
  BY <1>1, <1>2, <1>3, UndoFrame

LEMMA AgreeStep ==
  TypeOK /\ WayInv /\ [Next]_vars => Agree'
<1> SUFFICES ASSUME TypeOK, WayInv, [Next]_vars, Fine', ~torn'
             PROVE /\ state'.enabled /\ ~(Switches' /\ job'.at = "undo") =>
                         \A k \in Keys : (state'.managed)[k] # None =>
                             undo' # None /\ undo'[k] = (state'.managed)[k]
                   /\ Plans' => \A k \in Keys : (job'.from.managed)[k] # None =>
                                   undo' # None /\ undo'[k] = (job'.from.managed)[k]
  BY DEF Agree
<1> USE NoneAssumption DEF WayInv
<1>0. Fine
  BY FineStays
<1>1. ASSUME state'.enabled, ~(Switches' /\ job'.at = "undo"), NEW k \in Keys, (state'.managed)[k] # None
      PROVE undo' # None /\ undo'[k] = (state'.managed)[k]
  <2>1. CASE CopyUndo
    <3>1. Has(job.packages) /\ undo' = Copied /\ state' = state
      BY <1>0, <2>1 DEF CopyUndo, Switching, Switches, SwitchSteps, Copies
    <3>2. QED
      BY <1>1, <3>1 DEF Has, Copied, TypeOK, States
  <2>2. CASE Record
    BY <1>1, <2>2, Recording DEF Record, Switching, Switches, SwitchSteps
  <2>3. CASE EnableWrites
    BY <1>0, <1>1, <2>3, Enabling DEF EnableWrites, Agree
  <2>4. CASE SameRecord /\ ~CopyUndo
    <3>1. state.enabled
      BY <1>1, <2>4 DEF SameRecord
    <3>2. undo' = undo
      BY <2>4, <3>1, UndoFrame DEF RemoveUndo, JobState
    <3>3. ~torn
      BY <2>4, GhostFrame DEF Dies
    <3>4. ~(Switches /\ job.at = "undo")
      <4>1. ASSUME Switches /\ job.at = "undo" PROVE FALSE
        BY <1>1, <2>4, <4>1, BetweenWrites, Losing DEF Waits, Dies, Switches, Emptied
      <4>2. QED
        BY <4>1
    <3>5. QED
      BY <1>0, <1>1, <2>4, <3>1, <3>2, <3>3, <3>4 DEF Agree, SameRecord
  <2>5. QED
    BY <1>1, <2>1, <2>2, <2>3, <2>4, StateWrites DEF Emptied
<1>2. ASSUME Plans', NEW k \in Keys, (job'.from.managed)[k] # None
      PROVE undo' # None /\ undo'[k] = (job'.from.managed)[k]
  <2>1. CASE /\ Plans /\ job'.from = job.from
             /\ UNCHANGED <<undo, raced, forgot, bare, torn, loose>>
    BY <1>0, <1>2, <2>1 DEF Agree
  <2>2. CASE (CycleBegin /\ job'.from = state) \/ (EnableLocks /\ job'.from = asked.enable)
    <3>1. job'.from = state /\ undo' = undo /\ torn' = torn /\ job = None
      BY <2>2, FineStays DEF CycleBegin, EnableLocks, machine, ghosts, Free
    <3>2. state.enabled
      BY <1>0, <1>2, <3>1 DEF SoundStates, Sound, NothingManaged
    <3>3. QED
      BY <1>0, <1>2, <3>1, <3>2 DEF Agree, Switches
  <2>3. QED
    BY <1>2, <2>1, <2>2, PlansFrom
<1>3. QED
  BY <1>1, <1>2

LEMMA CopiesStep ==
  TypeOK /\ WayInv /\ [Next]_vars => Copies'
<1> SUFFICES ASSUME TypeOK, WayInv, [Next]_vars, Fine', Switches'
             PROVE /\ job'.at = "undo" => Has(job.packages)'
                   /\ job'.at \in {"link", "settings"} => Has(undo)'
  BY DEF Copies
<1> USE DEF WayInv
<1>0. Fine /\ job' # None /\ job'.cmd # "disable"
  BY FineStays DEF Switches
<1>1. CASE Waits \/ LoseStore
  <2>1. /\ job # None /\ job'.cmd = job.cmd /\ job'.at = job.at /\ job'.set = job.set
        /\ job'.packages = job.packages /\ undo' = undo
        /\ state' = state \/ ~state'.enabled
    BY <1>0, <1>1, Losing DEF Waits, Emptied
  <2>2. Switches
    BY <2>1 DEF Switches
  <2>3. \A k \in Keys : settings'[k] \in Rel => settings[k] \in Rel \/ RepairSettings \/ RewriteSettings
    BY StoreEntries
  <2>4. ~RepairSettings
    BY <2>2 DEF RepairSettings, At, Switches, SwitchSteps
  <2>5. ~RewriteSettings
    BY <1>0, <2>1, JobMoves
  <2>6. QED
    BY <1>0, <2>1, <2>2, <2>3, <2>4, <2>5 DEF Copies, Has
<1>2. CASE CopyUndo
  <2>1. Has(job.packages) /\ undo' = Copied /\ settings' = settings /\ state' = state
    BY <1>0, <1>2 DEF CopyUndo, Switching, Switches, SwitchSteps, Copies
  <2>2. job'.at = "link" /\ job'.set = job.set
    BY <1>2, JobMoves
  <2>3. undo' = job.packages
    BY <2>1, NoneAssumption DEF Has, Copied
  <2>4. QED
    BY <2>1, <2>2, <2>3 DEF Has
<1>3. CASE FlipLink
  <2>1. Has(undo) /\ undo' = undo /\ settings' = settings /\ state' = state
    BY <1>0, <1>3 DEF FlipLink, Switching, Switches, SwitchSteps, Copies
  <2>2. job'.at = "settings" /\ job'.set = job.set
    BY <1>3, JobMoves
  <2>3. QED
    BY <2>1, <2>2 DEF Has
<1>4. CASE Record
  <2>1. state.enabled /\ settings' = settings
    BY <1>4, FineStays DEF Record
  <2>2. /\ job'.at = "undo" /\ job'.packages = state'.managed /\ job'.set = job.set
        /\ state'.managed \in Managed
        /\ state'.managed = NewlyManaged(job.packages, job.set, state.managed)
    BY <1>4, <2>1, Recording
  <2>3. \A k \in Keys : job.set[k] # None => state'.managed[k] # None
    BY <1>0, <1>4, <2>1, <2>2 DEF NewlyManaged, Planned, Record, Switching, Switches, SwitchSteps
  <2>4. \A k \in Keys : settings[k] \in Rel => state'.managed[k] # None
    BY <1>0, <2>1, <2>2 DEF NewlyManaged, InState
  <2>5. QED
    BY <2>1, <2>2, <2>3, <2>4 DEF Has
<1>5. CASE RollbackBegin
  BY <1>5 DEF RollbackBegin
<1>6. CASE RewriteSettings
  BY <1>0, <1>6, JobMoves
<1>7. QED
  BY <1>0, <1>1, <1>2, <1>3, <1>4, <1>5, <1>6, JobFrame, JobMoves

LEMMA RestoresStep ==
  TypeOK /\ WayInv /\ [Next]_vars => Restores'
<1> SUFFICES ASSUME TypeOK, WayInv, [Next]_vars, Fine', ~torn'
             PROVE /\ (At("disable", "launcher") \/ At("disable", "settings"))' =>
                         \A k \in Keys : settings'[k] \in Rel => (job'.from)[k] \in Texts
                   /\ (At("disable", "config") \/ At("disable", "clear")
                           \/ At("disable", "removeUndo"))' =>
                         \A k \in Keys : settings'[k] \notin Rel
  BY DEF Restores
<1> USE DEF WayInv, Restores, At
<1>0. Fine
  BY FineStays
<1>1. CASE Waits \/ LoseStore
  <2>1. job = None => job' = None
    BY <1>1, Losing DEF Waits
  <2>2. ASSUME job # None, job.cmd = "disable"
        PROVE /\ torn' = torn /\ job'.cmd = job.cmd /\ job'.at = job.at /\ job'.from = job.from
              /\ \A k \in Keys : settings'[k] \in Rel => settings[k] \in Rel
    <3>1. torn' = torn /\ job'.cmd = job.cmd /\ job'.at = job.at /\ job'.from = job.from
      BY <1>1, <2>2, Losing DEF Waits
    <3>2. ~RepairSettings /\ ~RewriteSettings
      BY <2>2 DEF RepairSettings, RewriteSettings, Switching
    <3>3. QED
      BY <3>1, <3>2, StoreEntries
  <2>3. job' # None /\ job'.cmd = "disable" => job # None /\ job.cmd = "disable"
    BY <1>1, <2>1, Losing DEF Waits
  <2>4. QED
    BY <1>0, <2>2, <2>3
<1>2. CASE job' = None
  BY <1>2
<1>3. CASE DisableLocks
  <2>1. asked.disable = UndoSource /\ torn' = torn /\ settings' = settings
    BY <1>3, FineStays DEF DisableLocks, machine
  <2>2. \A k \in Keys : settings[k] \in Rel => UndoSource[k] \in Texts
    BY <1>0, <2>1, WayIsBack DEF Undoable
  <2>3. QED
    BY <1>3, <2>1, <2>2, JobMoves
<1>4. CASE RestoreLauncher
  BY <1>0, <1>4, JobMoves DEF RestoreLauncher, ghosts
<1>5. CASE RestoreSettings
  <2>1. job'.cmd = "disable" /\ job'.at = "config" /\ torn' = torn
    BY <1>5, JobMoves DEF RestoreSettings, ghosts
  <2>2. \A k \in Keys : settings[k] \in Rel => job.from[k] \in Texts
    BY <1>0, <1>5, <2>1 DEF RestoreSettings
  <2>3. \A k \in Keys : settings'[k] \notin Rel
    BY <1>5, <2>2, SwitchAssumption DEF RestoreSettings, RestoreOriginals
  <2>4. QED
    BY <2>1, <2>3
<1>6. CASE DisableConfig
  BY <1>0, <1>6, JobMoves DEF DisableConfig, ghosts
<1>7. CASE ClearEnableState
  BY <1>0, <1>7, JobMoves DEF ClearEnableState, ghosts
<1>8. CASE Record
  BY <1>8, Recording DEF Record, Switching
<1>9. CASE RollbackBegin
  BY <1>9 DEF RollbackBegin
<1>10. CASE CopyUndo \/ FlipLink \/ RewriteSettings
  BY <1>10, JobMoves
<1>11. QED
  BY <1>1, <1>2, <1>3, <1>4, <1>5, <1>6, <1>7, <1>8, <1>9, <1>10, JobFrame, JobMoves

\* Types and the invariant hold in every state.
THEOREM WayInvariant == Spec => [](TypeOK /\ WayInv)
<1>1. Init => TypeOK /\ WayInv
  BY TypeInit, WayInit
<1>2. TypeOK /\ WayInv /\ [Next]_vars => (TypeOK /\ WayInv)'
  BY TypeStep, SoundStep, JobDataStep, JobStateStep, PlannedStep, OriginalsStep, InStateStep,
     InCopyStep, AgreeStep, CopiesStep, RestoresStep DEF WayInv
<1>3. QED
  BY <1>1, <1>2, PTL DEF Spec

\* At every moment, whatever died or was lost, disable finds the text the user wrote for each
\* entry that names a store folder (undo.ts), for any packages, sets and number of commands.
THEOREM WayBackHolds == Spec => []WayBack
<1>1. TypeOK /\ WayInv => WayBack
  BY WayIsBack DEF WayInv, WayBack, Fine
<1>2. QED
  BY <1>1, WayInvariant, PTL

(***************************************************************************)
(* What is loaded                                                          *)
(***************************************************************************)

\* A cycle in which all installs succeed keeps each store entry of the set it read.
LEMMA CycleKeepsEntries ==
  ASSUME MaxFailures = 0, TypeOK, JobData, CyclePasses \/ CycleFails, job' # None,
         NEW k \in Keys, settings[k] \in Rel, job.from.current[k] # None
  PROVE (job'.set)[k] # None
<1>0. job.from.current # None /\ k \in Tracked(settings, job.from) /\ k \in All
  BY DEF CyclePasses, CycleFails, JobData, Plans, At, Tracked, All
<1>1. CASE CyclePasses
  <2>1. PICK failed \in SUBSET Keys :
           InstallsFail(failed) /\ \E set \in Candidates(settings, failed) : SwitchesTo(set)
    BY <1>1 DEF CyclePasses
  <2>2. failed = {}
    <3>1. ~Happens("failure", MaxFailures)
      BY DEF Happens, TypeOK, Events
    <3>2. QED
      BY <2>1, <3>1 DEF InstallsFail
  <2>3. PICK set \in Candidates(settings, failed) : SwitchesTo(set)
    BY <2>1
  <2>4. set[k] # None
    BY <1>0, <2>2 DEF Candidates
  <2>5. QED
    BY <2>3, <2>4 DEF SwitchesTo
<1>2. CASE CycleFails
  <2>1. PICK candidate \in Candidates(settings, {}), set \in Sets :
           /\ \A x \in All : set[x] \in {Base(candidate)[x], candidate[x]}
           /\ SwitchesTo(set)
    BY <1>2 DEF CycleFails, Ends
  <2>2. candidate[k] # None
    BY <1>0 DEF Candidates
  <2>3. set[k] # None
    BY <1>0, <2>1, <2>2 DEF Base
  <2>4. QED
    BY <2>1, <2>3 DEF SwitchesTo
<1>3. QED
  BY <1>1, <1>2

\* Each action keeps the store entries in the set.
LEMMA InSetStep ==
  TypeOK /\ WayInv /\ InSet /\ WillBeInSet /\ [Next]_vars => InSet'
<1> SUFFICES ASSUME TypeOK, WayInv, InSet, WillBeInSet, [Next]_vars, ~raced', ~loose',
                    NEW k \in Keys, settings'[k] \in Rel
             PROVE /\ state'.current # None => (state'.current)[k] # None
                   /\ Plans' => (job'.from.current # None => (job'.from.current)[k] # None)
  BY DEF InSet, Covers
<1> USE DEF WayInv
<1>0. ~raced
  BY GhostFrame DEF EnableLocks, DisableLocks
<1>1. CASE settings[k] \notin Rel
  <2>1. state.current # None => state.current[k] # None
    BY <1>1, StoreEntries, Empty
  <2>2. state' = state /\ (RepairSettings \/ RewriteSettings)
    BY <1>1, StoreEntries
  <2>3. Plans' => (job'.from.current # None => (job'.from.current)[k] # None)
    <3>1. CASE RepairSettings
      <4>1. job.from.current[k] # None
        BY <1>1, <3>1, StoreEntries DEF RewriteSettings, Switching, RepairSettings, At
      <4>2. QED
        BY <3>1, <4>1, JobMoves
    <3>2. CASE RewriteSettings
      BY <3>2, JobMoves DEF Plans, At
    <3>3. QED
      BY <2>2, <3>1, <3>2
  <2>4. QED
    BY <2>1, <2>2, <2>3
<1>2. CASE settings[k] \in Rel
  <2>1. state'.current # None => (state'.current)[k] # None
    <3>1. CASE SameRecord /\ ~Record
      BY <1>0, <1>2, <3>1, GhostFrame DEF SameRecord, InSet, Covers
    <3>2. CASE Record
      BY <1>0, <1>2, <3>2, Recording DEF Record, Switching, Switches, SwitchSteps, WillBeInSet
    <3>3. CASE EnableWrites
      BY <1>0, <1>2, <3>3, Enabling DEF EnableWrites, InSet, Covers
    <3>4. QED
      BY <3>1, <3>2, <3>3, StateWrites DEF Emptied
  <2>2. Plans' => (job'.from.current # None => (job'.from.current)[k] # None)
    <3>1. CASE /\ Plans /\ job'.from = job.from
               /\ UNCHANGED <<undo, raced, forgot, bare, torn, loose>>
      BY <1>0, <1>2, <3>1 DEF InSet, Covers
    <3>2. CASE CycleBegin /\ job'.from = state
      BY <1>0, <1>2, <3>2 DEF CycleBegin, ghosts, InSet, Covers
    <3>3. CASE EnableLocks /\ job'.from = asked.enable
      BY <1>0, <1>2, <3>3 DEF EnableLocks, InSet, Covers, TypeOK
    <3>4. QED
      BY <3>1, <3>2, <3>3, PlansFrom
  <2>3. QED
    BY <2>1, <2>2
<1>3. QED
  BY <1>1, <1>2

\* A set that is to be recorded has the store entries.
LEMMA WillBeInSetStep ==
  ASSUME MaxFailures = 0
  PROVE TypeOK /\ WayInv /\ InSet /\ WillBeInSet /\ [Next]_vars => WillBeInSet'
<1> SUFFICES ASSUME TypeOK, WayInv, InSet, WillBeInSet, [Next]_vars, ~raced', Switches',
                    job'.at = "record", NEW k \in Keys, settings'[k] \in Rel
             PROVE /\ job'.cmd = "cycle" /\ ~loose' => (job'.set)[k] # None
                   /\ job'.cmd = "enable" => (job'.packages)[k] \in Rel
  BY DEF WillBeInSet
<1> USE DEF WayInv
<1>0. ~raced /\ job' # None /\ job'.cmd # "disable"
  <2>1. ~raced
    BY GhostFrame DEF EnableLocks, DisableLocks
  <2>2. QED
    BY <2>1 DEF Switches
<1>1. CASE Waits \/ LoseStore
  <2>1. /\ job # None /\ job'.cmd = job.cmd /\ job'.at = job.at /\ job'.set = job.set
        /\ job'.packages = job.packages /\ UNCHANGED <<loose, raced>>
    BY <1>0, <1>1, Losing DEF Waits
  <2>2. ~RepairSettings
    BY <2>1 DEF RepairSettings, At
  <2>3. ~RewriteSettings
    BY <2>1 DEF RewriteSettings, Switching
  <2>4. settings[k] \in Rel
    BY <2>2, <2>3, StoreEntries
  <2>5. QED
    BY <1>0, <2>1, <2>4 DEF WillBeInSet, Switches
<1>2. CASE CyclePasses \/ CycleFails
  <2>1. loose' = loose /\ settings' = settings /\ Plans /\ job.from.current # None
    BY <1>2 DEF CyclePasses, CycleFails, machine, ghosts, JobData, Plans, At
  <2>2. ~loose => job.from.current[k] # None
    BY <1>0, <2>1 DEF InSet, Covers
  <2>3. job'.cmd = "cycle"
    BY <1>0, <1>2, JobMoves
  <2>4. QED
    BY <1>0, <1>2, <2>1, <2>2, <2>3, CycleKeepsEntries
<1>3. CASE RollbackBegin
  BY <1>3 DEF RollbackBegin
<1>4. CASE EnableWrites
  BY <1>4, JobMoves DEF EnableWrites
<1>5. CASE Record
  BY <1>5, Recording
<1>6. CASE RewriteSettings
  BY <1>0, <1>6, JobMoves
<1>7. QED
  BY <1>0, <1>1, <1>2, <1>3, <1>4, <1>5, <1>6, JobFrame, JobMoves

\* When no command runs and nothing is to be repaired, every store entry is the one of the
\* tested set, for any packages and sets and any number of commands, deaths and lost stores;
\* other than after an install that failed (cycle.ts:249), the case that
\* update_failed_install shows.
THEOREM RunsTheSetHolds == ASSUME MaxFailures = 0 PROVE Spec => []RunsTheSet
<1>1. Init => InSet /\ WillBeInSet
  BY Empty DEF Init, InSet, Covers, WillBeInSet, Switches, Plans, At
<1>2. TypeOK /\ WayInv /\ InSet /\ WillBeInSet /\ [Next]_vars => (InSet /\ WillBeInSet)'
  BY InSetStep, WillBeInSetStep
<1>3. InSet => RunsTheSet
  BY SwitchAssumption DEF InSet, Covers, RunsTheSet, Matches, ApplySet
<1>4. QED
  BY <1>1, <1>2, <1>3, WayInvariant, PTL DEF Spec

(***************************************************************************)
(* What was rolled back                                                    *)
(***************************************************************************)

\* After its first write a rollback waits, goes on, marks what it left or ends before.
LEMMA RollbackGoes ==
  JobData /\ Runs("rollback") /\ job.at # "record" /\ [Next]_vars =>
    Waits \/ CopyUndo \/ FlipLink \/ RewriteSettings \/ RollbackMarks \/ LoseStore \/ FindsNoStore \/ Dies
BY DEF Runs, Next, Cycle, Switch, Rollback, Enable, Disable, vars, machine, ghosts, Waits, Free, At,
       Switching, CycleBegin, RepairLink, RepairSettings, CyclePasses, CycleFails, CycleKeeps, Record,
       RollbackBegin, Retry, EnableAsks, EnableLocks, EnableWrites, EnableFails, InstallLauncher,
       EnableConfig, DisableAsks, DisableLocks, GivesUp, RestoreLauncher, RestoreSettings,
       DisableConfig, ClearEnableState, RemoveUndo, UserEdits, OverwriteLauncher

\* Deaths are counted.
LEMMA DeathsGrow ==
  TypeOK /\ [Next]_vars /\ spent'["death"] = 0 => spent["death"] = 0 /\ ~Dies
<1> SUFFICES ASSUME TypeOK, [Next]_vars PROVE
      spent'["death"] = 0 => spent["death"] = 0 /\ ~Dies
  OBVIOUS
<1>1. "death" \in Events /\ spent["death"] \in Nat
  BY DEF TypeOK, Events
<1>2. Dies => spent'["death"] = spent["death"] + 1
  BY <1>1 DEF Dies, Happens, TypeOK
<1>3. \/ spent' = spent \/ Dies
      \/ \E event \in Events \ {"death"} : spent' = [spent EXCEPT ![event] = @ + 1]
  BY DEF Events, Next, Cycle, Switch, Rollback, Enable, Disable, vars, UserCommand, Happens,
     InstallsFail,
     CycleBegin, RepairLink, RepairSettings, CyclePasses, CycleFails, CycleKeeps, Record, CopyUndo,
     FlipLink, RewriteSettings, RollbackBegin, RollbackMarks, Retry, EnableAsks, EnableLocks,
     EnableWrites, EnableFails, InstallLauncher, EnableConfig, DisableAsks, DisableLocks, GivesUp,
     RestoreLauncher, RestoreSettings, DisableConfig, ClearEnableState, RemoveUndo, UserEdits,
     LoseStore, FindsNoStore, OverwriteLauncher
<1>4. QED
  BY <1>1, <1>2, <1>3 DEF TypeOK

\* A mark goes only with retry and the store.
LEMMA MarksStay ==
  ASSUME TypeOK, JobData, [Next]_vars, ~raced
  PROVE state.bad \subseteq state'.bad \/ Retry \/ LoseStore
<1>1. CASE CycleFails
  <2>1. PICK B : state' = [state EXCEPT !.bad = state.bad \cup B]
    BY <1>1 DEF CycleFails
  <2>2. QED
    BY <2>1 DEF TypeOK, States
<1>2. CASE Record
  BY <1>2, Recording
<1>3. CASE RollbackMarks
  BY <1>3 DEF RollbackMarks, TypeOK, States
<1>4. CASE EnableWrites
  BY <1>4, Enabling, Empty
<1>5. CASE ClearEnableState
  BY <1>5, Emptying DEF ClearEnableState, TypeOK, States
<1>6. QED
  BY <1>1, <1>2, <1>3, <1>4, <1>5, StateFrame

\* Each action keeps what was left behind marked.
LEMMA LeftIsBadStep ==
  TypeOK /\ WayInv /\ LeftIsBad /\ [Next]_vars => LeftIsBad'
<1> DEFINE Marks == Runs("rollback") /\ job.at # "record"
<1> DEFINE ToMark == IF Marks THEN RolledBack(job.set, job.from) ELSE {}
<1> SUFFICES ASSUME TypeOK, WayInv, LeftIsBad, [Next]_vars, ~raced', spent'["death"] = 0
             PROVE /\ left' \subseteq state'.bad \cup ToMark'
                   /\ Marks' /\ job'.lost => left' = {}
  BY DEF LeftIsBad
<1> USE DEF WayInv
<1>0. ~raced /\ ~Dies /\ left \subseteq state.bad \cup ToMark /\ (Marks /\ job.lost => left = {})
  <2>1. ~raced
    BY GhostFrame DEF EnableLocks, DisableLocks
  <2>2. QED
    BY <2>1, DeathsGrow DEF LeftIsBad
<1>1. CASE Record
  <2>1. /\ state'.bad = state.bad /\ job # None /\ job' # None /\ job'.at = "undo"
        /\ job'.cmd = job.cmd /\ job'.set = job.set /\ job'.from = job.from /\ ~job'.lost
    BY <1>1, Recording
  <2>2. left \subseteq state.bad
    BY <1>0, <1>1 DEF Record, Switching
  <2>3. CASE job.cmd = "rollback"
    <3>1. left' = left \cup RolledBack(job.set, job.from)
      BY <1>1, <2>3 DEF Record, RolledBack, ChangedKeys
    <3>2. ToMark' = RolledBack(job.set, job.from)
      BY <2>1, <2>3 DEF Runs, RolledBack, ChangedKeys
    <3>3. QED
      BY <2>1, <2>2, <3>1, <3>2
  <2>4. CASE job.cmd # "rollback"
    BY <1>1, <2>1, <2>2, <2>4 DEF Record
  <2>5. QED
    BY <2>3, <2>4
<1>2. CASE Retry \/ LoseStore
  BY <1>2 DEF Retry, LoseStore
<1>3. CASE ~Record /\ ~Retry /\ ~LoseStore
  <2>1. left' = left /\ state.bad \subseteq state'.bad
    BY <1>0, <1>3, MarksStay, GhostFrame
  <2>2. CASE Marks
    <3>1. CASE RollbackMarks
      <4>1. state'.bad = state.bad \cup RolledBack(job.set, job.from) /\ job' = None
        BY <3>1 DEF RollbackMarks, Ends, TypeOK, States
      <4>2. QED
        BY <1>0, <2>1, <4>1 DEF Runs
    <3>2. CASE Waits
      BY <1>0, <2>1, <2>2, <3>2 DEF Waits, Runs
    <3>3. CASE CopyUndo \/ FlipLink \/ RewriteSettings
      <4>1. job' # None /\ (job'.lost => job.lost)
        BY <2>2, <3>3, NoneAssumption, Going DEF CopyUndo, FlipLink, RewriteSettings, Runs, TypeOK,
           Steps
      <4>2. job'.cmd = "rollback" /\ job'.at # "record" /\ job'.set = job.set /\ job'.from = job.from
        BY <2>2, <3>3, <4>1, JobMoves DEF Runs
      <4>3. ToMark' = ToMark
        BY <2>2, <4>1, <4>2 DEF Runs, RolledBack, ChangedKeys
      <4>4. QED
        BY <1>0, <2>1, <2>2, <4>1, <4>3
    <3>4. CASE FindsNoStore
      <4>1. left = {} /\ job' = None
        BY <1>0, <2>2, <3>4 DEF FindsNoStore, Ends
      <4>2. QED
        BY <2>1, <4>1
    <3>5. QED
      BY <1>0, <1>3, <2>2, <3>1, <3>2, <3>3, <3>4, RollbackGoes
  <2>3. CASE ~Marks
    <3>1. left' \subseteq state'.bad
      BY <1>0, <2>1, <2>3
    <3>2. ASSUME Marks', job'.lost PROVE FALSE
      <4>1. job' # None /\ job'.cmd = "rollback" /\ job'.at # "record"
        BY <3>2 DEF Runs
      <4>2. CASE Waits
        BY <2>3, <4>1, <4>2 DEF Waits, Runs
      <4>3. CASE CopyUndo \/ FlipLink \/ RewriteSettings
        BY <2>3, <4>1, <4>3, JobMoves DEF Runs
      <4>4. CASE RollbackBegin
        BY <4>1, <4>4 DEF RollbackBegin
      <4>5. QED
        BY <1>3, <4>1, <4>2, <4>3, <4>4, JobFrame, JobMoves
    <3>3. QED
      BY <3>1, <3>2
  <2>4. QED
    BY <2>2, <2>3
<1>4. QED
  BY <1>1, <1>2, <1>3

\* No action plans what is marked.
LEMMA PlansNoBadStep ==
  TypeOK /\ WayInv /\ PlansNoBad /\ [Next]_vars => PlansNoBad'
<1> SUFFICES ASSUME TypeOK, WayInv, PlansNoBad, [Next]_vars, job' # None, job'.cmd = "cycle",
                    job'.at = "record", NEW x \in All, (job'.set)[x] # None,
                    <<x, (job'.set)[x]>> \in state'.bad
             PROVE state'.current # None /\ (job'.set)[x] = (state'.current)[x]
  BY DEF PlansNoBad, At
<1> USE DEF WayInv
<1>1. CASE Waits
  BY <1>1 DEF Waits, PlansNoBad, At
<1>2. CASE LoseStore
  BY <1>2, Losing
<1>3. CASE CyclePasses
  <2>1. PICK failed \in SUBSET Keys : \E set \in Candidates(settings, failed) : SwitchesTo(set)
    BY <1>3 DEF CyclePasses
  <2>2. PICK set \in Candidates(settings, failed) : SwitchesTo(set)
    BY <2>1
  <2>3. job'.set = set /\ state' = state
    BY <1>3, <2>2 DEF SwitchesTo, CyclePasses, machine
  <2>4. job.from.current # None /\ state \in {job.from, EmptyState}
    BY <1>3 DEF CyclePasses, JobData, Plans, At
  <2>5. set[x] # None => Wanted(x, set[x])
    BY <2>2 DEF Candidates
  <2>6. state = job.from /\ set[x] = job.from.current[x]
    BY <2>3, <2>4, <2>5, Empty DEF Wanted
  <2>7. QED
    BY <2>3, <2>4, <2>6
<1>4. CASE CycleFails
  <2>1. PICK candidate \in Candidates(settings, {}), set \in Sets :
           LET base == Base(candidate)
               changes == {y \in ChangedKeys(base, candidate) : candidate[y] # None}
           IN  /\ \A y \in All : set[y] \in {base[y], candidate[y]}
               /\ \E culprits \in SUBSET {y \in changes : set[y] = base[y]} :
                     state' = [state EXCEPT !.bad = @ \cup {<<y, candidate[y]>> : y \in culprits}]
               /\ IF set = base THEN Ends ELSE SwitchesTo(set)
    BY <1>4 DEF CycleFails
  <2>2. PICK culprits \in SUBSET {y \in All : /\ candidate[y] # Base(candidate)[y]
                                             /\ set[y] = Base(candidate)[y]} :
           state' = [state EXCEPT !.bad = state.bad \cup {<<y, candidate[y]>> : y \in culprits}]
    BY <2>1 DEF ChangedKeys
  <2>3. job'.set = set
    BY <2>1 DEF Ends, SwitchesTo
  <2>4. /\ state'.bad = state.bad \cup {<<y, candidate[y]>> : y \in culprits}
        /\ state'.current = state.current
    BY <2>2 DEF TypeOK, States
  <2>5. <<x, set[x]>> \notin {<<y, candidate[y]>> : y \in culprits}
    OBVIOUS
  <2>6. <<x, set[x]>> \in state.bad /\ set[x] # None
    BY <2>3, <2>4, <2>5
  <2>7. job.from.current # None /\ state \in {job.from, EmptyState}
    BY <1>4 DEF CycleFails, JobData, Plans, At
  <2>8. state = job.from
    BY <2>6, <2>7, Empty
  <2>9. set[x] \in {job.from.current[x], candidate[x]}
    BY <2>1, <2>6 DEF Base
  <2>10. set[x] = candidate[x] => set[x] = job.from.current[x]
    BY <2>6, <2>8 DEF Candidates, Wanted
  <2>11. QED
    BY <2>3, <2>4, <2>7, <2>8, <2>9, <2>10
<1>5. CASE Record
  BY <1>5, Recording
<1>6. CASE RollbackBegin
  BY <1>6 DEF RollbackBegin
<1>7. CASE RewriteSettings
  BY <1>7, JobMoves
<1>8. QED
  BY <1>1, <1>2, <1>3, <1>4, <1>5, <1>6, <1>7, JobFrame, JobMoves

\* No cycle takes a release again that the user rolled back, until retry (commands.ts), for any
\* packages, sets and number of commands, unless a command died half way.
THEOREM RolledBackStaysOutHolds == Spec => RolledBackStaysOut
<1> DEFINE Safe == ~raced /\ spent["death"] = 0 /\ At("cycle", "record") =>
                     \A x \in All : <<x, job.set[x]>> \in left =>
                         state.current # None /\ job.set[x] = state.current[x]
<1>1. Init => LeftIsBad /\ PlansNoBad
  BY DEF Init, LeftIsBad, PlansNoBad, At, Runs
<1>2. TypeOK /\ WayInv /\ LeftIsBad /\ PlansNoBad /\ [Next]_vars => (LeftIsBad /\ PlansNoBad)'
  BY LeftIsBadStep, PlansNoBadStep
<1>3. TypeOK /\ LeftIsBad /\ PlansNoBad => Safe
  <2> SUFFICES ASSUME TypeOK, LeftIsBad, PlansNoBad, ~raced, spent["death"] = 0, At("cycle", "record"),
                      NEW x \in All, <<x, job.set[x]>> \in left
               PROVE state.current # None /\ job.set[x] = state.current[x]
    OBVIOUS
  <2>1. left \subseteq state.bad
    BY DEF LeftIsBad, Runs, At
  <2>2. job.set[x] # None
    BY SwitchAssumption DEF TypeOK
  <2>3. QED
    BY <2>1, <2>2 DEF PlansNoBad
<1>4. Safe => [~raced /\ spent["death"] = 0 /\ At("cycle", "record") /\ state'.current # state.current =>
                 \A x \in All : <<x, job.set[x]>> \in left =>
                     state.current # None /\ job.set[x] = state.current[x]]_vars
  OBVIOUS
<1>5. QED
  BY <1>1, <1>2, <1>3, <1>4, WayInvariant, PTL DEF Spec, RolledBackStaysOut
=============================================================================
