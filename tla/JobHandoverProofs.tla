-------------------------- MODULE JobHandoverProofs --------------------------
(***************************************************************************)
(* For any number of processes, sweepers, jobs and crashes, a background job  *)
(* has one owner, is not left without one, and no group but its own is       *)
(* signalled on a look that is followed by the signal at once.              *)
(***************************************************************************)
EXTENDS JobHandover, TLAPS

\* The places that can hold a job: runtimes, the record at the path, claims of sweepers.
OnePlace ==
    /\ \A p, q \in Procs : p # q => held[p] \cap held[q] = {}
    /\ \A p \in Procs : held[p] \cap InRecord(file) = {}
    /\ \A p \in Procs, s \in Sweepers : held[p] \cap InRecord(sweep[s]) = {}
    /\ \A s \in Sweepers : InRecord(file) \cap InRecord(sweep[s]) = {}
    /\ \A s, t \in Sweepers : s # t => InRecord(sweep[s]) \cap InRecord(sweep[t]) = {}

\* A job that was not started is nowhere.
NoneYet ==
    \A j \in Jobs : group[j] = "none" =>
        /\ \A p \in Procs : j \notin held[p]
        /\ j \notin InRecord(file)
        /\ \A s \in Sweepers : j \notin InRecord(sweep[s])

\* Only a process that has the session open holds jobs, and it counts the groups of
\* those whose leader has ended.
OnlyUp ==
    /\ \A p \in Procs : p \notin up => held[p] = {}
    /\ \A j \in ending : group[j] # "live" /\ \E p \in Procs : j \in held[p]

\* A child that was not seen to end still has its pid, and what is in a record is no child.
ChildPid ==
    /\ \A p \in Procs : \A j \in held[p] : group[j] = "other" => j \in adopted \/ j \in ending
    /\ InRecord(file) \subseteq adopted
    /\ \A s \in Sweepers : InRecord(sweep[s]) \subseteq adopted

IInv == TypeOK /\ OnePlace /\ NoneYet /\ OnlyUp /\ ChildPid /\ NeverStranded /\ NoForeignSignal

------------------------------------------------------------------------------
(* Facts about records, and one lemma for each part of IInv *)

\* What a record holds.
LEMMA InRecords ==
    /\ InRecord(NoRecord) = {} /\ InRecord(Saw) = {}
    /\ \A r \in Records : InRecord(r) = r.kept /\ r.kept \subseteq Jobs /\ r.old \in BOOLEAN
    /\ NoRecord \notin Records /\ Saw \notin Records
BY HandoverAssumption DEF InRecord, Records

\* A record that is written, or that grows old, holds what its writer held.
LEMMA FileWritten ==
    ASSUME TypeOK
    PROVE  /\ \A p \in Procs : HandOver(p) => file' \in Records /\ InRecord(file') = held[p]
           /\ Age => file' \in Records /\ InRecord(file') = InRecord(file)
<1>1. ASSUME NEW p \in Procs, HandOver(p)
      PROVE  file' \in Records /\ InRecord(file') = held[p]
    <2>1. file' = [kept |-> held[p], old |-> FALSE] /\ held[p] \subseteq Jobs
        BY <1>1 DEF HandOver, Forgets, Signal, TypeOK, jobFacts
    <2>2. file' \in Records /\ file'.kept = held[p]
        BY <2>1 DEF Records
    <2> QED BY <2>2, InRecords
<1>2. ASSUME Age
      PROVE  file' \in Records /\ InRecord(file') = InRecord(file)
    <2>1. file \in Records /\ file' = [file EXCEPT !.old = TRUE]
        BY <1>2 DEF Age, TypeOK
    <2>2. file' \in Records /\ file'.kept = file.kept
        BY <2>1 DEF Records
    <2> QED BY <2>1, <2>2, InRecords
<1> QED BY <1>1, <1>2

\* Every action keeps the types.
LEMMA TypeStep ==
    ASSUME TypeOK, [Next]_vars
    PROVE  TypeOK'
<1>1. ASSUME NEW p \in Procs, Open(p) PROVE TypeOK'
    BY <1>1, HandoverAssumption DEF Open, RunsOn, TypeOK, Signal, Records, InRecord, jobFacts
<1>2. ASSUME NEW p \in Procs, Quit(p) PROVE TypeOK'
    BY <1>2, HandoverAssumption DEF Quit, Forgets, TypeOK, Signal, Records, InRecord, jobFacts
<1>3. ASSUME NEW p \in Procs, HandOver(p) PROVE TypeOK'
    BY <1>3, HandoverAssumption DEF HandOver, Forgets, Signal, TypeOK, Records, InRecord, jobFacts
<1>4. ASSUME NEW p \in Procs, Crash(p) PROVE TypeOK'
    BY <1>4, HandoverAssumption DEF Crash, Forgets, TypeOK, Records, InRecord, jobFacts
<1>5. ASSUME NEW p \in Procs, NEW j \in Jobs, StartJob(p, j) PROVE TypeOK'
    BY <1>5, HandoverAssumption DEF StartJob, TypeOK, ghosts, jobFacts, Records, InRecord
<1>6. ASSUME NEW p \in Procs, NEW j \in Jobs, SeeEnd(p, j) PROVE TypeOK'
    BY <1>6, HandoverAssumption DEF SeeEnd, TypeOK, ghosts, jobFacts, Records, InRecord
<1>7. ASSUME NEW p \in Procs, NEW j \in Jobs, StopRest(p, j) PROVE TypeOK'
    BY <1>7, HandoverAssumption DEF StopRest, Signal, TypeOK, Records, InRecord, jobFacts
<1>8. ASSUME NEW s \in Sweepers, SweepReads(s) PROVE TypeOK'
    BY <1>8, HandoverAssumption DEF SweepReads, TypeOK, ghosts, jobFacts, Records, InRecord
<1>9. ASSUME NEW s \in Sweepers, SweepClaims(s) PROVE TypeOK'
    BY <1>9, HandoverAssumption DEF SweepClaims, TypeOK, ghosts, jobFacts, Records, InRecord
<1>10. ASSUME NEW s \in Sweepers, SweepStops(s) PROVE TypeOK'
    BY <1>10, HandoverAssumption DEF SweepStops, TypeOK, Signal, Records, InRecord, jobFacts
<1>11. ASSUME NEW s \in Sweepers, SweepPutsBack(s) PROVE TypeOK'
    BY <1>11, HandoverAssumption DEF SweepPutsBack, TypeOK, Records, InRecord, jobFacts
<1>12. ASSUME NEW s \in Sweepers, SweeperDies(s) PROVE TypeOK'
    BY <1>12, HandoverAssumption DEF SweeperDies, TypeOK, Records, InRecord, jobFacts
<1>13. ASSUME NEW j \in Jobs, LeaderEnds(j) PROVE TypeOK'
    BY <1>13, HandoverAssumption DEF LeaderEnds, TypeOK, ghosts, jobFacts, Records, InRecord
<1>14. ASSUME NEW j \in Jobs, LeftEnd(j) PROVE TypeOK'
    BY <1>14, HandoverAssumption DEF LeftEnd, TypeOK, ghosts, jobFacts, Records, InRecord
<1>15. ASSUME NEW j \in Jobs, ReusePid(j) PROVE TypeOK'
    BY <1>15, HandoverAssumption DEF ReusePid, TypeOK, ghosts, jobFacts, Records, InRecord
<1>16. ASSUME Age PROVE TypeOK'
    BY <1>16, HandoverAssumption DEF Age, TypeOK, ghosts, jobFacts, Records, InRecord
<1>17. CASE UNCHANGED vars
    BY <1>17, HandoverAssumption DEF vars, jobFacts, TypeOK, ghosts, Records, InRecord
<1>18. ASSUME NEW p \in Procs, OpenRefused(p) PROVE TypeOK'
    BY <1>18, HandoverAssumption DEF OpenRefused, TypeOK, Signal, Records, InRecord, jobFacts
<1>19. ASSUME NEW p \in Procs, NEW j \in Jobs, Kill(p, j) PROVE TypeOK'
    BY <1>19, HandoverAssumption DEF Kill, TypeOK, Signal, Records, InRecord, jobFacts
<1>20. ASSUME NEW p \in Procs, NEW j \in Jobs, Reclean(p, j) PROVE TypeOK'
    BY <1>20, HandoverAssumption DEF Reclean, TypeOK, Signal, Records, InRecord, jobFacts
<1>21. ASSUME NEW s \in Sweepers, SweepRefuses(s) PROVE TypeOK'
    BY <1>21, HandoverAssumption DEF SweepRefuses, TypeOK, Signal, Records, InRecord, jobFacts
<1> QED BY <1>1, <1>2, <1>3, <1>4, <1>5, <1>6, <1>7, <1>8, <1>9, <1>10, <1>11, <1>12, <1>13, <1>14,
           <1>15, <1>16, <1>17, <1>18, <1>19, <1>20, <1>21 DEF Next

\* Jobs move between places, none is copied: the rename and the link see to it.
LEMMA ApartStep ==
    ASSUME TypeOK, OnePlace, NoneYet, [Next]_vars
    PROVE  OnePlace'
<1>1. ASSUME NEW p \in Procs, Open(p) PROVE OnePlace'
    BY <1>1, InRecords DEF Open, RunsOn, TypeOK, OnePlace, NoneYet, jobFacts
<1>2. ASSUME NEW p \in Procs, Quit(p) PROVE OnePlace'
    BY <1>2, InRecords DEF Quit, Forgets, TypeOK, OnePlace, NoneYet, jobFacts
<1>3. ASSUME NEW p \in Procs, HandOver(p) PROVE OnePlace'
    <2>1. InRecord(file') = held[p]
        BY <1>3, FileWritten
    <2>2. /\ \A q \in Procs : held'[q] = IF q = p THEN {} ELSE held[q]
          /\ sweep' = sweep
        BY <1>3 DEF HandOver, Forgets, TypeOK
    <2> QED BY <2>1, <2>2 DEF OnePlace
<1>4. ASSUME NEW p \in Procs, Crash(p) PROVE OnePlace'
    BY <1>4, InRecords DEF Crash, Forgets, TypeOK, OnePlace, NoneYet, jobFacts
<1>5. ASSUME NEW p \in Procs, NEW j \in Jobs, StartJob(p, j) PROVE OnePlace'
    BY <1>5, InRecords DEF StartJob, TypeOK, OnePlace, NoneYet, ghosts, jobFacts
<1>6. ASSUME NEW p \in Procs, NEW j \in Jobs, SeeEnd(p, j) PROVE OnePlace'
    BY <1>6, InRecords DEF SeeEnd, TypeOK, OnePlace, NoneYet, ghosts, jobFacts
<1>7. ASSUME NEW p \in Procs, NEW j \in Jobs, StopRest(p, j) PROVE OnePlace'
    BY <1>7, InRecords DEF StopRest, Signal, TypeOK, OnePlace, NoneYet, jobFacts
<1>8. ASSUME NEW s \in Sweepers, SweepReads(s) PROVE OnePlace'
    BY <1>8, InRecords DEF SweepReads, TypeOK, OnePlace, NoneYet, ghosts, jobFacts
<1>9. ASSUME NEW s \in Sweepers, SweepClaims(s) PROVE OnePlace'
    BY <1>9, InRecords DEF SweepClaims, TypeOK, OnePlace, NoneYet, ghosts, jobFacts
<1>10. ASSUME NEW s \in Sweepers, SweepStops(s) PROVE OnePlace'
    BY <1>10, InRecords DEF SweepStops, TypeOK, OnePlace, NoneYet, jobFacts
<1>11. ASSUME NEW s \in Sweepers, SweepPutsBack(s) PROVE OnePlace'
    BY <1>11, InRecords DEF SweepPutsBack, TypeOK, OnePlace, NoneYet, jobFacts
<1>12. ASSUME NEW s \in Sweepers, SweeperDies(s) PROVE OnePlace'
    BY <1>12, InRecords DEF SweeperDies, TypeOK, OnePlace, NoneYet, jobFacts
<1>13. ASSUME NEW j \in Jobs, LeaderEnds(j) PROVE OnePlace'
    BY <1>13, InRecords DEF LeaderEnds, TypeOK, OnePlace, NoneYet, ghosts, jobFacts
<1>14. ASSUME NEW j \in Jobs, LeftEnd(j) PROVE OnePlace'
    BY <1>14, InRecords DEF LeftEnd, TypeOK, OnePlace, NoneYet, ghosts, jobFacts
<1>15. ASSUME NEW j \in Jobs, ReusePid(j) PROVE OnePlace'
    BY <1>15, InRecords DEF ReusePid, TypeOK, OnePlace, NoneYet, ghosts, jobFacts
<1>16. ASSUME Age PROVE OnePlace'
    BY <1>16, InRecords, FileWritten DEF Age, TypeOK, OnePlace, NoneYet, ghosts, jobFacts
<1>17. CASE UNCHANGED vars
    BY <1>17, InRecords DEF vars, jobFacts, TypeOK, OnePlace, NoneYet, ghosts
<1>18. ASSUME NEW p \in Procs, OpenRefused(p) PROVE OnePlace'
    BY <1>18, InRecords DEF OpenRefused, TypeOK, OnePlace, NoneYet, jobFacts
<1>19. ASSUME NEW p \in Procs, NEW j \in Jobs, Kill(p, j) PROVE OnePlace'
    BY <1>19, InRecords DEF Kill, TypeOK, OnePlace, NoneYet, jobFacts
<1>20. ASSUME NEW p \in Procs, NEW j \in Jobs, Reclean(p, j) PROVE OnePlace'
    BY <1>20, InRecords DEF Reclean, TypeOK, OnePlace, NoneYet, jobFacts
<1>21. ASSUME NEW s \in Sweepers, SweepRefuses(s) PROVE OnePlace'
    BY <1>21, InRecords DEF SweepRefuses, TypeOK, OnePlace, NoneYet, jobFacts
<1> QED BY <1>1, <1>2, <1>3, <1>4, <1>5, <1>6, <1>7, <1>8, <1>9, <1>10, <1>11, <1>12, <1>13, <1>14,
           <1>15, <1>16, <1>17, <1>18, <1>19, <1>20, <1>21 DEF Next

\* Records and claims hold jobs that were started.
LEMMA UnstartedStep ==
    ASSUME TypeOK, NoneYet, [Next]_vars
    PROVE  NoneYet'
<1>1. ASSUME NEW p \in Procs, Open(p) PROVE NoneYet'
    BY <1>1, InRecords DEF Open, RunsOn, TypeOK, NoneYet, Signal, jobFacts
<1>2. ASSUME NEW p \in Procs, Quit(p) PROVE NoneYet'
    BY <1>2, InRecords DEF Quit, Forgets, TypeOK, NoneYet, Signal, jobFacts
<1>3. ASSUME NEW p \in Procs, HandOver(p) PROVE NoneYet'
    <2>1. InRecord(file') = held[p]
        BY <1>3, FileWritten
    <2>2. /\ \A q \in Procs : held'[q] = IF q = p THEN {} ELSE held[q]
          /\ sweep' = sweep
        BY <1>3 DEF HandOver, Forgets, TypeOK
    <2>3. \A j \in Jobs : group'[j] = "none" => group[j] = "none"
        BY <1>3 DEF HandOver, Signal, TypeOK
    <2> QED BY <2>1, <2>2, <2>3 DEF NoneYet
<1>4. ASSUME NEW p \in Procs, Crash(p) PROVE NoneYet'
    BY <1>4, InRecords DEF Crash, Forgets, TypeOK, NoneYet, jobFacts
<1>5. ASSUME NEW p \in Procs, NEW j \in Jobs, StartJob(p, j) PROVE NoneYet'
    BY <1>5, InRecords DEF StartJob, TypeOK, NoneYet, ghosts, jobFacts
<1>6. ASSUME NEW p \in Procs, NEW j \in Jobs, SeeEnd(p, j) PROVE NoneYet'
    BY <1>6, InRecords DEF SeeEnd, TypeOK, NoneYet, ghosts, jobFacts
<1>7. ASSUME NEW p \in Procs, NEW j \in Jobs, StopRest(p, j) PROVE NoneYet'
    BY <1>7, InRecords DEF StopRest, Signal, TypeOK, NoneYet, jobFacts
<1>8. ASSUME NEW s \in Sweepers, SweepReads(s) PROVE NoneYet'
    BY <1>8, InRecords DEF SweepReads, TypeOK, NoneYet, ghosts, jobFacts
<1>9. ASSUME NEW s \in Sweepers, SweepClaims(s) PROVE NoneYet'
    BY <1>9, InRecords DEF SweepClaims, TypeOK, NoneYet, ghosts, jobFacts
<1>10. ASSUME NEW s \in Sweepers, SweepStops(s) PROVE NoneYet'
    BY <1>10, InRecords DEF SweepStops, TypeOK, NoneYet, Signal, jobFacts
<1>11. ASSUME NEW s \in Sweepers, SweepPutsBack(s) PROVE NoneYet'
    BY <1>11, InRecords DEF SweepPutsBack, TypeOK, NoneYet, jobFacts
<1>12. ASSUME NEW s \in Sweepers, SweeperDies(s) PROVE NoneYet'
    BY <1>12, InRecords DEF SweeperDies, TypeOK, NoneYet, jobFacts
<1>13. ASSUME NEW j \in Jobs, LeaderEnds(j) PROVE NoneYet'
    BY <1>13, InRecords DEF LeaderEnds, TypeOK, NoneYet, ghosts, jobFacts
<1>14. ASSUME NEW j \in Jobs, LeftEnd(j) PROVE NoneYet'
    BY <1>14, InRecords DEF LeftEnd, TypeOK, NoneYet, ghosts, jobFacts
<1>15. ASSUME NEW j \in Jobs, ReusePid(j) PROVE NoneYet'
    BY <1>15, InRecords DEF ReusePid, TypeOK, NoneYet, ghosts, jobFacts
<1>16. ASSUME Age PROVE NoneYet'
    BY <1>16, InRecords, FileWritten DEF Age, TypeOK, NoneYet, ghosts, jobFacts
<1>17. CASE UNCHANGED vars
    BY <1>17, InRecords DEF vars, jobFacts, TypeOK, NoneYet, ghosts
<1>18. ASSUME NEW p \in Procs, OpenRefused(p) PROVE NoneYet'
    BY <1>18, InRecords DEF OpenRefused, TypeOK, NoneYet, Signal, jobFacts
<1>19. ASSUME NEW p \in Procs, NEW j \in Jobs, Kill(p, j) PROVE NoneYet'
    BY <1>19, InRecords DEF Kill, TypeOK, NoneYet, Signal, jobFacts
<1>20. ASSUME NEW p \in Procs, NEW j \in Jobs, Reclean(p, j) PROVE NoneYet'
    BY <1>20, InRecords DEF Reclean, TypeOK, NoneYet, Signal, jobFacts
<1>21. ASSUME NEW s \in Sweepers, SweepRefuses(s) PROVE NoneYet'
    BY <1>21, InRecords DEF SweepRefuses, TypeOK, NoneYet, Signal, jobFacts
<1> QED BY <1>1, <1>2, <1>3, <1>4, <1>5, <1>6, <1>7, <1>8, <1>9, <1>10, <1>11, <1>12, <1>13, <1>14,
           <1>15, <1>16, <1>17, <1>18, <1>19, <1>20, <1>21 DEF Next

\* A process that ends lets go of its jobs.
LEMMA OnlyUpStep ==
    ASSUME TypeOK, OnePlace, NoneYet, OnlyUp, [Next]_vars
    PROVE  OnlyUp'
<1>1. ASSUME NEW p \in Procs, Open(p) PROVE OnlyUp'
    BY <1>1, InRecords DEF Open, RunsOn, TypeOK, OnePlace, NoneYet, OnlyUp, Signal, jobFacts
<1>2. ASSUME NEW p \in Procs, Quit(p) PROVE OnlyUp'
    BY <1>2, InRecords DEF Quit, Forgets, TypeOK, OnePlace, NoneYet, OnlyUp, Signal, jobFacts
<1>3. ASSUME NEW p \in Procs, HandOver(p) PROVE OnlyUp'
    BY <1>3, InRecords, FileWritten
       DEF HandOver, Forgets, Signal, TypeOK, OnePlace, NoneYet, OnlyUp, jobFacts
<1>4. ASSUME NEW p \in Procs, Crash(p) PROVE OnlyUp'
    BY <1>4, InRecords DEF Crash, Forgets, TypeOK, OnePlace, NoneYet, OnlyUp, jobFacts
<1>5. ASSUME NEW p \in Procs, NEW j \in Jobs, StartJob(p, j) PROVE OnlyUp'
    BY <1>5, InRecords DEF StartJob, TypeOK, OnePlace, NoneYet, OnlyUp, ghosts, jobFacts
<1>6. ASSUME NEW p \in Procs, NEW j \in Jobs, SeeEnd(p, j) PROVE OnlyUp'
    BY <1>6, InRecords DEF SeeEnd, TypeOK, OnePlace, NoneYet, OnlyUp, ghosts, jobFacts
<1>7. ASSUME NEW p \in Procs, NEW j \in Jobs, StopRest(p, j) PROVE OnlyUp'
    BY <1>7, InRecords DEF StopRest, Signal, TypeOK, OnePlace, NoneYet, OnlyUp, jobFacts
<1>8. ASSUME NEW s \in Sweepers, SweepReads(s) PROVE OnlyUp'
    BY <1>8, InRecords DEF SweepReads, TypeOK, OnePlace, NoneYet, OnlyUp, ghosts, jobFacts
<1>9. ASSUME NEW s \in Sweepers, SweepClaims(s) PROVE OnlyUp'
    BY <1>9, InRecords DEF SweepClaims, TypeOK, OnePlace, NoneYet, OnlyUp, ghosts, jobFacts
<1>10. ASSUME NEW s \in Sweepers, SweepStops(s) PROVE OnlyUp'
    BY <1>10, InRecords DEF SweepStops, TypeOK, OnePlace, NoneYet, OnlyUp, Signal, jobFacts
<1>11. ASSUME NEW s \in Sweepers, SweepPutsBack(s) PROVE OnlyUp'
    BY <1>11, InRecords DEF SweepPutsBack, TypeOK, OnePlace, NoneYet, OnlyUp, jobFacts
<1>12. ASSUME NEW s \in Sweepers, SweeperDies(s) PROVE OnlyUp'
    BY <1>12, InRecords DEF SweeperDies, TypeOK, OnePlace, NoneYet, OnlyUp, jobFacts
<1>13. ASSUME NEW j \in Jobs, LeaderEnds(j) PROVE OnlyUp'
    BY <1>13, InRecords DEF LeaderEnds, TypeOK, OnePlace, NoneYet, OnlyUp, ghosts, jobFacts
<1>14. ASSUME NEW j \in Jobs, LeftEnd(j) PROVE OnlyUp'
    BY <1>14, InRecords DEF LeftEnd, TypeOK, OnePlace, NoneYet, OnlyUp, ghosts, jobFacts
<1>15. ASSUME NEW j \in Jobs, ReusePid(j) PROVE OnlyUp'
    BY <1>15, InRecords DEF ReusePid, TypeOK, OnePlace, NoneYet, OnlyUp, ghosts, jobFacts
<1>16. ASSUME Age PROVE OnlyUp'
    BY <1>16, InRecords, FileWritten DEF Age, TypeOK, OnePlace, NoneYet, OnlyUp, ghosts, jobFacts
<1>17. CASE UNCHANGED vars
    BY <1>17, InRecords DEF vars, jobFacts, TypeOK, OnePlace, NoneYet, OnlyUp, ghosts
<1>18. ASSUME NEW p \in Procs, OpenRefused(p) PROVE OnlyUp'
    BY <1>18, InRecords DEF OpenRefused, TypeOK, OnePlace, NoneYet, OnlyUp, Signal, jobFacts
<1>19. ASSUME NEW p \in Procs, NEW j \in Jobs, Kill(p, j) PROVE OnlyUp'
    BY <1>19, InRecords DEF Kill, TypeOK, OnePlace, NoneYet, OnlyUp, Signal, jobFacts
<1>20. ASSUME NEW p \in Procs, NEW j \in Jobs, Reclean(p, j) PROVE OnlyUp'
    BY <1>20, InRecords DEF Reclean, TypeOK, OnePlace, NoneYet, OnlyUp, Signal, jobFacts
<1>21. ASSUME NEW s \in Sweepers, SweepRefuses(s) PROVE OnlyUp'
    BY <1>21, InRecords DEF SweepRefuses, TypeOK, OnePlace, NoneYet, OnlyUp, Signal, jobFacts
<1> QED BY <1>1, <1>2, <1>3, <1>4, <1>5, <1>6, <1>7, <1>8, <1>9, <1>10, <1>11, <1>12, <1>13, <1>14,
           <1>15, <1>16, <1>17, <1>18, <1>19, <1>20, <1>21 DEF Next

\* A child's pid is not reused while its parent has not seen it end.
LEMMA ChildPidStep ==
    ASSUME TypeOK, OnePlace, NoneYet, OnlyUp, ChildPid, [Next]_vars
    PROVE  ChildPid'
<1>1. ASSUME NEW p \in Procs, Open(p) PROVE ChildPid'
    BY <1>1, InRecords
       DEF Open, RunsOn, TypeOK, OnePlace, NoneYet, OnlyUp, ChildPid, Signal, IsSame, jobFacts
<1>2. ASSUME NEW p \in Procs, Quit(p) PROVE ChildPid'
    BY <1>2, InRecords
       DEF Quit, Forgets, TypeOK, OnePlace, NoneYet, OnlyUp, ChildPid, Signal, IsSame, jobFacts
<1>3. ASSUME NEW p \in Procs, HandOver(p) PROVE ChildPid'
    <2>1. InRecord(file') = held[p]
        BY <1>3, FileWritten
    <2>2. /\ adopted' = adopted \cup held[p] /\ ending' = ending \ held[p]
          /\ \A q \in Procs : held'[q] = IF q = p THEN {} ELSE held[q]
          /\ sweep' = sweep
        BY <1>3 DEF HandOver, Forgets, TypeOK
    <2>3. \A j \in Jobs : group'[j] = "other" => group[j] = "other"
        BY <1>3 DEF HandOver, Signal, TypeOK
    <2>4. \A q \in Procs : held[q] \subseteq Jobs
        BY DEF TypeOK
    <2> QED BY <2>1, <2>2, <2>3, <2>4 DEF ChildPid, OnePlace
<1>4. ASSUME NEW p \in Procs, Crash(p) PROVE ChildPid'
    BY <1>4, InRecords DEF Crash, Forgets, TypeOK, OnePlace, NoneYet, OnlyUp, ChildPid, jobFacts
<1>5. ASSUME NEW p \in Procs, NEW j \in Jobs, StartJob(p, j) PROVE ChildPid'
    BY <1>5, InRecords DEF StartJob, TypeOK, OnePlace, NoneYet, OnlyUp, ChildPid, ghosts, jobFacts
<1>6. ASSUME NEW p \in Procs, NEW j \in Jobs, SeeEnd(p, j) PROVE ChildPid'
    BY <1>6, InRecords DEF SeeEnd, TypeOK, OnePlace, NoneYet, OnlyUp, ChildPid, ghosts, jobFacts
<1>7. ASSUME NEW p \in Procs, NEW j \in Jobs, StopRest(p, j) PROVE ChildPid'
    BY <1>7, InRecords DEF StopRest, Signal, TypeOK, OnePlace, NoneYet, OnlyUp, ChildPid, jobFacts
<1>8. ASSUME NEW s \in Sweepers, SweepReads(s) PROVE ChildPid'
    BY <1>8, InRecords
       DEF SweepReads, TypeOK, OnePlace, NoneYet, OnlyUp, ChildPid, ghosts, jobFacts
<1>9. ASSUME NEW s \in Sweepers, SweepClaims(s) PROVE ChildPid'
    BY <1>9, InRecords
       DEF SweepClaims, TypeOK, OnePlace, NoneYet, OnlyUp, ChildPid, ghosts, jobFacts
<1>10. ASSUME NEW s \in Sweepers, SweepStops(s) PROVE ChildPid'
    BY <1>10, InRecords
       DEF SweepStops, TypeOK, OnePlace, NoneYet, OnlyUp, ChildPid, Signal, IsSame, jobFacts
<1>11. ASSUME NEW s \in Sweepers, SweepPutsBack(s) PROVE ChildPid'
    BY <1>11, InRecords DEF SweepPutsBack, TypeOK, OnePlace, NoneYet, OnlyUp, ChildPid, jobFacts
<1>12. ASSUME NEW s \in Sweepers, SweeperDies(s) PROVE ChildPid'
    BY <1>12, InRecords DEF SweeperDies, TypeOK, OnePlace, NoneYet, OnlyUp, ChildPid, jobFacts
<1>13. ASSUME NEW j \in Jobs, LeaderEnds(j) PROVE ChildPid'
    BY <1>13, InRecords
       DEF LeaderEnds, TypeOK, OnePlace, NoneYet, OnlyUp, ChildPid, ghosts, jobFacts
<1>14. ASSUME NEW j \in Jobs, LeftEnd(j) PROVE ChildPid'
    BY <1>14, InRecords DEF LeftEnd, TypeOK, OnePlace, NoneYet, OnlyUp, ChildPid, ghosts, jobFacts
<1>15. ASSUME NEW j \in Jobs, ReusePid(j) PROVE ChildPid'
    BY <1>15, InRecords
       DEF ReusePid, TypeOK, OnePlace, NoneYet, OnlyUp, ChildPid, ghosts, jobFacts
<1>16. ASSUME Age PROVE ChildPid'
    BY <1>16, InRecords, FileWritten
       DEF Age, TypeOK, OnePlace, NoneYet, OnlyUp, ChildPid, ghosts, jobFacts
<1>17. CASE UNCHANGED vars
    BY <1>17, InRecords DEF vars, jobFacts, TypeOK, OnePlace, NoneYet, OnlyUp, ChildPid, ghosts
<1>18. ASSUME NEW p \in Procs, OpenRefused(p) PROVE ChildPid'
    BY <1>18, InRecords
       DEF OpenRefused, TypeOK, OnePlace, NoneYet, OnlyUp, ChildPid, Signal, IsSame, jobFacts
<1>19. ASSUME NEW p \in Procs, NEW j \in Jobs, Kill(p, j) PROVE ChildPid'
    BY <1>19, InRecords
       DEF Kill, TypeOK, OnePlace, NoneYet, OnlyUp, ChildPid, Signal, IsSame, jobFacts
<1>20. ASSUME NEW p \in Procs, NEW j \in Jobs, Reclean(p, j) PROVE ChildPid'
    BY <1>20, InRecords
       DEF Reclean, TypeOK, OnePlace, NoneYet, OnlyUp, ChildPid, Signal, IsSame, jobFacts
<1>21. ASSUME NEW s \in Sweepers, SweepRefuses(s) PROVE ChildPid'
    BY <1>21, InRecords
       DEF SweepRefuses, TypeOK, OnePlace, NoneYet, OnlyUp, ChildPid, Signal, IsSame, jobFacts
<1> QED BY <1>1, <1>2, <1>3, <1>4, <1>5, <1>6, <1>7, <1>8, <1>9, <1>10, <1>11, <1>12, <1>13, <1>14,
           <1>15, <1>16, <1>17, <1>18, <1>19, <1>20, <1>21 DEF Next

\* A running job leaves a place only for another one, or stops, or is counted as lost.
LEMMA NeverStrandedStep ==
    ASSUME TypeOK, OnlyUp, NeverStranded, [Next]_vars
    PROVE  NeverStranded'
<1>1. ASSUME NEW p \in Procs, Open(p) PROVE NeverStranded'
    BY <1>1, InRecords DEF Open, RunsOn, TypeOK, OnlyUp, NeverStranded, Signal, IsSame, jobFacts
<1>2. ASSUME NEW p \in Procs, Quit(p) PROVE NeverStranded'
    BY <1>2, InRecords
       DEF Quit, Forgets, TypeOK, OnlyUp, NeverStranded, Signal, IsSame, MayStop, StillOurs,
           jobFacts
<1>3. ASSUME NEW p \in Procs, HandOver(p) PROVE NeverStranded'
    <2>1. InRecord(file') = held[p]
        BY <1>3, FileWritten
    <2>2. /\ \A q \in Procs : held'[q] = IF q = p THEN {} ELSE held[q]
          /\ \A j \in Jobs : group'[j] = "live" => group[j] = "live"
          /\ sweep' = sweep
        BY <1>3 DEF HandOver, Forgets, Signal, TypeOK
    <2>3. lost' = lost \cup InRecord(file) /\ letGo' = letGo
        BY <1>3 DEF HandOver
    <2> QED BY <2>1, <2>2, <2>3 DEF NeverStranded
<1>4. ASSUME NEW p \in Procs, Crash(p) PROVE NeverStranded'
    BY <1>4, InRecords DEF Crash, Forgets, TypeOK, OnlyUp, NeverStranded, jobFacts
<1>5. ASSUME NEW p \in Procs, NEW j \in Jobs, StartJob(p, j) PROVE NeverStranded'
    BY <1>5, InRecords DEF StartJob, TypeOK, OnlyUp, NeverStranded, ghosts, jobFacts
<1>6. ASSUME NEW p \in Procs, NEW j \in Jobs, SeeEnd(p, j) PROVE NeverStranded'
    BY <1>6, InRecords DEF SeeEnd, TypeOK, OnlyUp, NeverStranded, ghosts, jobFacts
<1>7. ASSUME NEW p \in Procs, NEW j \in Jobs, StopRest(p, j) PROVE NeverStranded'
    BY <1>7, InRecords DEF StopRest, Signal, TypeOK, OnlyUp, NeverStranded, jobFacts
<1>8. ASSUME NEW s \in Sweepers, SweepReads(s) PROVE NeverStranded'
    BY <1>8, InRecords DEF SweepReads, TypeOK, OnlyUp, NeverStranded, ghosts, jobFacts
<1>9. ASSUME NEW s \in Sweepers, SweepClaims(s) PROVE NeverStranded'
    BY <1>9, InRecords DEF SweepClaims, TypeOK, OnlyUp, NeverStranded, ghosts, jobFacts
<1>10. ASSUME NEW s \in Sweepers, SweepStops(s) PROVE NeverStranded'
    BY <1>10, InRecords DEF SweepStops, TypeOK, OnlyUp, NeverStranded, Signal, IsSame, jobFacts
<1>11. ASSUME NEW s \in Sweepers, SweepPutsBack(s) PROVE NeverStranded'
    BY <1>11, InRecords DEF SweepPutsBack, TypeOK, OnlyUp, NeverStranded, jobFacts
<1>12. ASSUME NEW s \in Sweepers, SweeperDies(s) PROVE NeverStranded'
    BY <1>12, InRecords DEF SweeperDies, TypeOK, OnlyUp, NeverStranded, jobFacts
<1>13. ASSUME NEW j \in Jobs, LeaderEnds(j) PROVE NeverStranded'
    BY <1>13, InRecords DEF LeaderEnds, TypeOK, OnlyUp, NeverStranded, ghosts, jobFacts
<1>14. ASSUME NEW j \in Jobs, LeftEnd(j) PROVE NeverStranded'
    BY <1>14, InRecords DEF LeftEnd, TypeOK, OnlyUp, NeverStranded, ghosts, jobFacts
<1>15. ASSUME NEW j \in Jobs, ReusePid(j) PROVE NeverStranded'
    BY <1>15, InRecords DEF ReusePid, TypeOK, OnlyUp, NeverStranded, ghosts, jobFacts
<1>16. ASSUME Age PROVE NeverStranded'
    BY <1>16, InRecords, FileWritten DEF Age, TypeOK, OnlyUp, NeverStranded, ghosts, jobFacts
<1>17. CASE UNCHANGED vars
    BY <1>17, InRecords DEF vars, jobFacts, TypeOK, OnlyUp, NeverStranded, ghosts
<1>18. ASSUME NEW p \in Procs, OpenRefused(p) PROVE NeverStranded'
    BY <1>18, InRecords
       DEF OpenRefused, TypeOK, OnlyUp, NeverStranded, Signal, IsSame, MayStop, StillOurs,
           jobFacts
<1>19. ASSUME NEW p \in Procs, NEW j \in Jobs, Kill(p, j) PROVE NeverStranded'
    BY <1>19, InRecords
       DEF Kill, TypeOK, OnlyUp, NeverStranded, Signal, IsSame, MayStop, StillOurs, jobFacts
<1>20. ASSUME NEW p \in Procs, NEW j \in Jobs, Reclean(p, j) PROVE NeverStranded'
    BY <1>20, InRecords
       DEF Reclean, TypeOK, OnlyUp, NeverStranded, Signal, IsSame, MayStop, StillOurs, jobFacts
<1>21. ASSUME NEW s \in Sweepers, SweepRefuses(s) PROVE NeverStranded'
    BY <1>21, InRecords
       DEF SweepRefuses, TypeOK, OnlyUp, NeverStranded, Signal, IsSame, MayStop, StillOurs,
           jobFacts
<1> QED BY <1>1, <1>2, <1>3, <1>4, <1>5, <1>6, <1>7, <1>8, <1>9, <1>10, <1>11, <1>12, <1>13, <1>14,
           <1>15, <1>16, <1>17, <1>18, <1>19, <1>20, <1>21 DEF Next

\* The looks before a signal are enough.
LEMMA NoForeignSignalStep ==
    ASSUME TypeOK, OnlyUp, ChildPid, NoForeignSignal, [Next]_vars
    PROVE  NoForeignSignal'
<1>1. ASSUME NEW p \in Procs, Open(p) PROVE NoForeignSignal'
    BY <1>1, InRecords
       DEF Open, RunsOn, TypeOK, OnlyUp, ChildPid, NoForeignSignal, Signal, IsSame, jobFacts
<1>2. ASSUME NEW p \in Procs, Quit(p) PROVE NoForeignSignal'
    BY <1>2, InRecords
       DEF Quit, Forgets, TypeOK, OnlyUp, ChildPid, NoForeignSignal, Signal, IsSame,
       MayStop, StillOurs, jobFacts
<1>3. ASSUME NEW p \in Procs, HandOver(p) PROVE NoForeignSignal'
    BY <1>3, InRecords, FileWritten
       DEF HandOver, Forgets, Signal, TypeOK, OnlyUp, ChildPid, NoForeignSignal, jobFacts
<1>4. ASSUME NEW p \in Procs, Crash(p) PROVE NoForeignSignal'
    BY <1>4, InRecords DEF Crash, Forgets, TypeOK, OnlyUp, ChildPid, NoForeignSignal, jobFacts
<1>5. ASSUME NEW p \in Procs, NEW j \in Jobs, StartJob(p, j) PROVE NoForeignSignal'
    BY <1>5, InRecords DEF StartJob, TypeOK, OnlyUp, ChildPid, NoForeignSignal, ghosts, jobFacts
<1>6. ASSUME NEW p \in Procs, NEW j \in Jobs, SeeEnd(p, j) PROVE NoForeignSignal'
    BY <1>6, InRecords DEF SeeEnd, TypeOK, OnlyUp, ChildPid, NoForeignSignal, ghosts, jobFacts
<1>7. ASSUME NEW p \in Procs, NEW j \in Jobs, StopRest(p, j) PROVE NoForeignSignal'
    BY <1>7, InRecords DEF StopRest, Signal, TypeOK, OnlyUp, ChildPid, NoForeignSignal, jobFacts
<1>8. ASSUME NEW s \in Sweepers, SweepReads(s) PROVE NoForeignSignal'
    BY <1>8, InRecords DEF SweepReads, TypeOK, OnlyUp, ChildPid, NoForeignSignal, ghosts, jobFacts
<1>9. ASSUME NEW s \in Sweepers, SweepClaims(s) PROVE NoForeignSignal'
    BY <1>9, InRecords
       DEF SweepClaims, TypeOK, OnlyUp, ChildPid, NoForeignSignal, ghosts, jobFacts
<1>10. ASSUME NEW s \in Sweepers, SweepStops(s) PROVE NoForeignSignal'
    BY <1>10, InRecords
       DEF SweepStops, TypeOK, OnlyUp, ChildPid, NoForeignSignal, Signal, IsSame, jobFacts
<1>11. ASSUME NEW s \in Sweepers, SweepPutsBack(s) PROVE NoForeignSignal'
    BY <1>11, InRecords DEF SweepPutsBack, TypeOK, OnlyUp, ChildPid, NoForeignSignal, jobFacts
<1>12. ASSUME NEW s \in Sweepers, SweeperDies(s) PROVE NoForeignSignal'
    BY <1>12, InRecords DEF SweeperDies, TypeOK, OnlyUp, ChildPid, NoForeignSignal, jobFacts
<1>13. ASSUME NEW j \in Jobs, LeaderEnds(j) PROVE NoForeignSignal'
    BY <1>13, InRecords
       DEF LeaderEnds, TypeOK, OnlyUp, ChildPid, NoForeignSignal, ghosts, jobFacts
<1>14. ASSUME NEW j \in Jobs, LeftEnd(j) PROVE NoForeignSignal'
    BY <1>14, InRecords DEF LeftEnd, TypeOK, OnlyUp, ChildPid, NoForeignSignal, ghosts, jobFacts
<1>15. ASSUME NEW j \in Jobs, ReusePid(j) PROVE NoForeignSignal'
    BY <1>15, InRecords DEF ReusePid, TypeOK, OnlyUp, ChildPid, NoForeignSignal, ghosts, jobFacts
<1>16. ASSUME Age PROVE NoForeignSignal'
    BY <1>16, InRecords, FileWritten
       DEF Age, TypeOK, OnlyUp, ChildPid, NoForeignSignal, ghosts, jobFacts
<1>17. CASE UNCHANGED vars
    BY <1>17, InRecords DEF vars, jobFacts, TypeOK, OnlyUp, ChildPid, NoForeignSignal, ghosts
<1>18. ASSUME NEW p \in Procs, OpenRefused(p) PROVE NoForeignSignal'
    BY <1>18, InRecords
       DEF OpenRefused, TypeOK, OnlyUp, ChildPid, NoForeignSignal, Signal, IsSame, MayStop,
           StillOurs, jobFacts
<1>19. ASSUME NEW p \in Procs, NEW j \in Jobs, Kill(p, j) PROVE NoForeignSignal'
    BY <1>19, InRecords
       DEF Kill, TypeOK, OnlyUp, ChildPid, NoForeignSignal, Signal, IsSame, MayStop, StillOurs,
           jobFacts
<1>20. ASSUME NEW p \in Procs, NEW j \in Jobs, Reclean(p, j) PROVE NoForeignSignal'
    BY <1>20, InRecords
       DEF Reclean, TypeOK, OnlyUp, ChildPid, NoForeignSignal, Signal, IsSame, MayStop,
           StillOurs, jobFacts
<1>21. ASSUME NEW s \in Sweepers, SweepRefuses(s) PROVE NoForeignSignal'
    BY <1>21, InRecords
       DEF SweepRefuses, TypeOK, OnlyUp, ChildPid, NoForeignSignal, Signal, IsSame, MayStop,
           StillOurs, jobFacts
<1> QED BY <1>1, <1>2, <1>3, <1>4, <1>5, <1>6, <1>7, <1>8, <1>9, <1>10, <1>11, <1>12, <1>13, <1>14,
           <1>15, <1>16, <1>17, <1>18, <1>19, <1>20, <1>21 DEF Next

------------------------------------------------------------------------------
(* The theorems *)

\* IInv holds at the start: nothing was started, nothing is on disk.
LEMMA InitIInv == Init => IInv
BY InRecords, HandoverAssumption
   DEF Init, IInv, TypeOK, OnePlace, NoneYet, OnlyUp, ChildPid, NeverStranded, NoForeignSignal

\* Every step of the specification keeps it.
LEMMA NextIInv == IInv /\ [Next]_vars => IInv'
BY TypeStep, ApartStep, UnstartedStep, OnlyUpStep, ChildPidStep, NeverStrandedStep,
   NoForeignSignalStep DEF IInv

\* IInv is an invariant.
THEOREM Invariance == Spec => []IInv
BY InitIInv, NextIInv, PTL DEF Spec

\* Two processes never own one job: of those that open the session at once, one has
\* the record; a sweep that puts a record back puts it where nobody has its jobs.
THEOREM OneOwnerHolds == Spec => []OneOwner
<1>1. IInv => OneOwner
    BY DEF IInv, OnePlace, OneOwner
<1> QED BY <1>1, Invariance, PTL

\* A running job has an owner or a record, unless a crash or a second record lost it.
THEOREM NobodyStranded == Spec => []NeverStranded
<1>1. IInv => NeverStranded
    BY DEF IInv
<1> QED BY <1>1, Invariance, PTL

\* No group of another program is signalled on a fresh look.
THEOREM SignalsOwn == Spec => []NoForeignSignal
<1>1. IInv => NoForeignSignal
    BY DEF IInv
<1> QED BY <1>1, Invariance, PTL
=============================================================================
