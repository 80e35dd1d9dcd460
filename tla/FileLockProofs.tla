--------------------------- MODULE FileLockProofs ---------------------------
(***************************************************************************)
(* Proofs about FileLock, for any set of processes, with and without hard  *)
(* links and staleMs.                                                      *)
(***************************************************************************)
EXTENDS FileLock, TLAPS

(***************************************************************************)
(* The inductive invariant                                                 *)
(***************************************************************************)

\* Who has created a file, and who is looking at one.
Creator(p) == pc[p] \in {"write", "undo", "held", "relRead", "relUnlink"}
Looking(p) == pc[p] \in {"read", "recheck", "unlink"}

Roles ==
    \A p \in Procs :
        /\ mine[p] # NoIno => Creator(p)
        /\ seen[p].ino # NoIno => Looking(p)

\* The file at the path is its creator's: it has the creator's pid, it is
\* empty until that process wrote it, and its age tells when it expires.
OwnFile ==
    \A p \in Procs : IsOwn(p) =>
        /\ lock.pid = p
        /\ pc[p] \in {"write", "undo"} <=> lock.mtime = 0
        /\ TakenOverAt(lock, lock.age) => p \in expired

\* A file is only written and only gets older after it was looked at.
SeenBefore ==
    \A p \in Procs : lock # NoFile /\ seen[p].ino = lock.ino =>
        /\ seen[p].mtime <= lock.mtime
        /\ seen[p].mtime = lock.mtime => seen[p].age <= lock.age

\* p has a lock, or is writing its pid into one, that nobody may take over yet.
ValidCreator(p) == pc[p] \in {"write", "held"} /\ p \notin expired

\* A file that was judged stale and is still the same has no valid creator.
JudgedDead ==
    \A q \in Procs : pc[q] \in {"recheck", "unlink"} /\ IsSeen(q) =>
        \A p \in Procs : ValidCreator(p) => ~IsOwn(p)

\* Outside of the three windows, a valid creator's file is at the path.
HoldersOwn ==
    ~windowHit /\ ~lateRelease /\ ~lateUndo => \A p \in Procs : ValidCreator(p) => IsOwn(p)

IInv == TypeOK /\ Roles /\ OwnFile /\ SeenBefore /\ JudgedDead /\ HoldersOwn

\* The conjuncts of the inductive invariant, one lemma each, one step per action.
LEMMA TypeStep == TypeOK /\ [Next]_vars => TypeOK'
<1> SUFFICES ASSUME TypeOK, [Next]_vars PROVE TypeOK'
  OBVIOUS
<1> USE LockAssumption DEF TypeOK, Files, Stats, NoStats, PCs, ghosts, Goto
<1>1. ASSUME NEW p \in Procs, Begin(p) PROVE TypeOK'
  BY <1>1 DEF Begin
<1>2. ASSUME NEW p \in Procs, PublishCreates(p) PROVE TypeOK'
  BY <1>2 DEF PublishCreates, Create, Remembered
<1>3. ASSUME NEW p \in Procs, PublishExists(p) PROVE TypeOK'
  BY <1>3 DEF PublishExists
<1>4. ASSUME NEW p \in Procs, WritePid(p) PROVE TypeOK'
  <2>1. lock' \in Files \cup {NoFile}
    <3>1. CASE IsOwn(p)
      BY <1>4, <3>1 DEF WritePid, IsOwn
    <3>2. CASE ~IsOwn(p)
      BY <1>4, <3>2 DEF WritePid
    <3>3. QED
      BY <3>1, <3>2
  <2>2. QED
    BY <1>4, <2>1 DEF WritePid
<1>4a. ASSUME NEW p \in Procs, WriteFails(p) PROVE TypeOK'
  BY <1>4a DEF WriteFails
<1>4b. ASSUME NEW p \in Procs, UnlinkUnwritten(p) PROVE TypeOK'
  BY <1>4b DEF UnlinkUnwritten, Released
<1>5. ASSUME NEW p \in Procs, StatGone(p) PROVE TypeOK'
  BY <1>5 DEF StatGone, NextAttempt
<1>6. ASSUME NEW p \in Procs, StatHolder(p) PROVE TypeOK'
  BY <1>6 DEF StatHolder
<1>7. ASSUME NEW p \in Procs, ReadGone(p) PROVE TypeOK'
  BY <1>7 DEF ReadGone, NextAttempt
<1>8. ASSUME NEW p \in Procs, ReadStale(p) PROVE TypeOK'
  BY <1>8 DEF ReadStale
<1>9. ASSUME NEW p \in Procs, ReadHeld(p) PROVE TypeOK'
  BY <1>9 DEF ReadHeld
<1>10. ASSUME NEW p \in Procs, RecheckSame(p) PROVE TypeOK'
  BY <1>10 DEF RecheckSame
<1>11. ASSUME NEW p \in Procs, RecheckOther(p) PROVE TypeOK'
  BY <1>11 DEF RecheckOther, NextAttempt
<1>12. ASSUME NEW p \in Procs, UnlinkStale(p) PROVE TypeOK'
  BY <1>12 DEF UnlinkStale, NextAttempt
<1>13. ASSUME NEW p \in Procs, BeginRelease(p) PROVE TypeOK'
  BY <1>13 DEF BeginRelease
<1>14. ASSUME NEW p \in Procs, ReadOwnToken(p) PROVE TypeOK'
  BY <1>14 DEF ReadOwnToken
<1>15. ASSUME NEW p \in Procs, ReadOtherToken(p) PROVE TypeOK'
  BY <1>15 DEF ReadOtherToken, Released
<1>16. ASSUME NEW p \in Procs, UnlinkOwn(p) PROVE TypeOK'
  BY <1>16 DEF UnlinkOwn, Released
<1>16a. ASSUME NEW p \in Procs, CallFails(p) PROVE TypeOK'
  BY <1>16a DEF CallFails, Released
<1>17. ASSUME NEW p \in Procs, Crash(p) PROVE TypeOK'
  BY <1>17 DEF Crash
<1>18. ASSUME NEW p \in Procs, ReusePid(p) PROVE TypeOK'
  BY <1>18 DEF ReusePid
<1>19. CASE Age
  BY <1>19 DEF Age
<1>20. CASE UNCHANGED vars
  BY <1>20 DEF vars
<1>21. QED
  BY <1>1, <1>2, <1>3, <1>4, <1>4a, <1>4b, <1>5, <1>6, <1>7, <1>8, <1>9, <1>10, <1>11, <1>12,
     <1>13, <1>14, <1>15, <1>16, <1>16a, <1>17, <1>18, <1>19, <1>20 DEF Next, TryLock,
     Release

LEMMA RolesStep == TypeOK /\ Roles /\ [Next]_vars => Roles'
<1> SUFFICES ASSUME TypeOK, Roles, [Next]_vars PROVE Roles'
  OBVIOUS
<1> USE LockAssumption DEF TypeOK, Files, Stats, NoStats, PCs, ghosts, Goto, Roles, Creator, Looking
<1>1. ASSUME NEW p \in Procs, Begin(p) PROVE Roles'
  BY <1>1 DEF Begin
<1>2. ASSUME NEW p \in Procs, PublishCreates(p) PROVE Roles'
  BY <1>2 DEF PublishCreates, Create, Remembered
<1>3. ASSUME NEW p \in Procs, PublishExists(p) PROVE Roles'
  BY <1>3 DEF PublishExists
<1>4. ASSUME NEW p \in Procs, WritePid(p) PROVE Roles'
  BY <1>4 DEF WritePid
<1>4a. ASSUME NEW p \in Procs, WriteFails(p) PROVE Roles'
  BY <1>4a DEF WriteFails
<1>4b. ASSUME NEW p \in Procs, UnlinkUnwritten(p) PROVE Roles'
  BY <1>4b DEF UnlinkUnwritten, Released
<1>5. ASSUME NEW p \in Procs, StatGone(p) PROVE Roles'
  BY <1>5 DEF StatGone, NextAttempt
<1>6. ASSUME NEW p \in Procs, StatHolder(p) PROVE Roles'
  BY <1>6 DEF StatHolder
<1>7. ASSUME NEW p \in Procs, ReadGone(p) PROVE Roles'
  BY <1>7 DEF ReadGone, NextAttempt
<1>8. ASSUME NEW p \in Procs, ReadStale(p) PROVE Roles'
  BY <1>8 DEF ReadStale
<1>9. ASSUME NEW p \in Procs, ReadHeld(p) PROVE Roles'
  BY <1>9 DEF ReadHeld
<1>10. ASSUME NEW p \in Procs, RecheckSame(p) PROVE Roles'
  BY <1>10 DEF RecheckSame
<1>11. ASSUME NEW p \in Procs, RecheckOther(p) PROVE Roles'
  BY <1>11 DEF RecheckOther, NextAttempt
<1>12. ASSUME NEW p \in Procs, UnlinkStale(p) PROVE Roles'
  BY <1>12 DEF UnlinkStale, NextAttempt
<1>13. ASSUME NEW p \in Procs, BeginRelease(p) PROVE Roles'
  BY <1>13 DEF BeginRelease
<1>14. ASSUME NEW p \in Procs, ReadOwnToken(p) PROVE Roles'
  BY <1>14 DEF ReadOwnToken
<1>15. ASSUME NEW p \in Procs, ReadOtherToken(p) PROVE Roles'
  BY <1>15 DEF ReadOtherToken, Released
<1>16. ASSUME NEW p \in Procs, UnlinkOwn(p) PROVE Roles'
  BY <1>16 DEF UnlinkOwn, Released
<1>16a. ASSUME NEW p \in Procs, CallFails(p) PROVE Roles'
  BY <1>16a DEF CallFails, Released
<1>17. ASSUME NEW p \in Procs, Crash(p) PROVE Roles'
  BY <1>17 DEF Crash
<1>18. ASSUME NEW p \in Procs, ReusePid(p) PROVE Roles'
  BY <1>18 DEF ReusePid
<1>19. CASE Age
  BY <1>19 DEF Age
<1>20. CASE UNCHANGED vars
  BY <1>20 DEF vars
<1>21. QED
  BY <1>1, <1>2, <1>3, <1>4, <1>4a, <1>4b, <1>5, <1>6, <1>7, <1>8, <1>9, <1>10, <1>11, <1>12,
     <1>13, <1>14, <1>15, <1>16, <1>16a, <1>17, <1>18, <1>19, <1>20 DEF Next, TryLock,
     Release

LEMMA OwnFileStep == TypeOK /\ Roles /\ OwnFile /\ [Next]_vars => OwnFile'
<1> SUFFICES ASSUME TypeOK, Roles, OwnFile, [Next]_vars PROVE OwnFile'
  OBVIOUS
<1> USE LockAssumption DEF TypeOK, Files, Stats, NoStats, PCs, ghosts, Goto, Roles, Creator,
        OwnFile, IsOwn, TakenOverAt
<1>1. ASSUME NEW p \in Procs, Begin(p) PROVE OwnFile'
  BY <1>1 DEF Begin
<1>2. ASSUME NEW p \in Procs, PublishCreates(p) PROVE OwnFile'
  BY <1>2 DEF PublishCreates, Create, Remembered
<1>3. ASSUME NEW p \in Procs, PublishExists(p) PROVE OwnFile'
  BY <1>3 DEF PublishExists
<1>4. ASSUME NEW p \in Procs, WritePid(p) PROVE OwnFile'
  BY <1>4 DEF WritePid
<1>4a. ASSUME NEW p \in Procs, WriteFails(p) PROVE OwnFile'
  BY <1>4a DEF WriteFails
<1>4b. ASSUME NEW p \in Procs, UnlinkUnwritten(p) PROVE OwnFile'
  BY <1>4b DEF UnlinkUnwritten, Released
<1>5. ASSUME NEW p \in Procs, StatGone(p) PROVE OwnFile'
  BY <1>5 DEF StatGone, NextAttempt
<1>6. ASSUME NEW p \in Procs, StatHolder(p) PROVE OwnFile'
  BY <1>6 DEF StatHolder
<1>7. ASSUME NEW p \in Procs, ReadGone(p) PROVE OwnFile'
  BY <1>7 DEF ReadGone, NextAttempt
<1>8. ASSUME NEW p \in Procs, ReadStale(p) PROVE OwnFile'
  BY <1>8 DEF ReadStale
<1>9. ASSUME NEW p \in Procs, ReadHeld(p) PROVE OwnFile'
  BY <1>9 DEF ReadHeld
<1>10. ASSUME NEW p \in Procs, RecheckSame(p) PROVE OwnFile'
  BY <1>10 DEF RecheckSame
<1>11. ASSUME NEW p \in Procs, RecheckOther(p) PROVE OwnFile'
  BY <1>11 DEF RecheckOther, NextAttempt
<1>12. ASSUME NEW p \in Procs, UnlinkStale(p) PROVE OwnFile'
  BY <1>12 DEF UnlinkStale, NextAttempt
<1>13. ASSUME NEW p \in Procs, BeginRelease(p) PROVE OwnFile'
  BY <1>13 DEF BeginRelease
<1>14. ASSUME NEW p \in Procs, ReadOwnToken(p) PROVE OwnFile'
  BY <1>14 DEF ReadOwnToken
<1>15. ASSUME NEW p \in Procs, ReadOtherToken(p) PROVE OwnFile'
  BY <1>15 DEF ReadOtherToken, Released
<1>16. ASSUME NEW p \in Procs, UnlinkOwn(p) PROVE OwnFile'
  BY <1>16 DEF UnlinkOwn, Released
<1>16a. ASSUME NEW p \in Procs, CallFails(p) PROVE OwnFile'
  BY <1>16a DEF CallFails, Released
<1>17. ASSUME NEW p \in Procs, Crash(p) PROVE OwnFile'
  BY <1>17 DEF Crash
<1>18. ASSUME NEW p \in Procs, ReusePid(p) PROVE OwnFile'
  BY <1>18 DEF ReusePid
<1>19. CASE Age
  BY <1>19 DEF Age
<1>20. CASE UNCHANGED vars
  BY <1>20 DEF vars
<1>21. QED
  BY <1>1, <1>2, <1>3, <1>4, <1>4a, <1>4b, <1>5, <1>6, <1>7, <1>8, <1>9, <1>10, <1>11, <1>12,
     <1>13, <1>14, <1>15, <1>16, <1>16a, <1>17, <1>18, <1>19, <1>20 DEF Next, TryLock,
     Release

LEMMA SeenStep == TypeOK /\ Roles /\ OwnFile /\ SeenBefore /\ [Next]_vars => SeenBefore'
<1> SUFFICES ASSUME TypeOK, Roles, OwnFile, SeenBefore, [Next]_vars PROVE SeenBefore'
  OBVIOUS
<1> USE LockAssumption DEF TypeOK, Files, Stats, NoStats, PCs, ghosts, Goto, Roles, OwnFile, IsOwn,
        SeenBefore
<1>1. ASSUME NEW p \in Procs, Begin(p) PROVE SeenBefore'
  BY <1>1 DEF Begin
<1>2. ASSUME NEW p \in Procs, PublishCreates(p) PROVE SeenBefore'
  BY <1>2 DEF PublishCreates, Create, Remembered
<1>3. ASSUME NEW p \in Procs, PublishExists(p) PROVE SeenBefore'
  BY <1>3 DEF PublishExists
<1>4. ASSUME NEW p \in Procs, WritePid(p) PROVE SeenBefore'
  BY <1>4 DEF WritePid
<1>4a. ASSUME NEW p \in Procs, WriteFails(p) PROVE SeenBefore'
  BY <1>4a DEF WriteFails
<1>4b. ASSUME NEW p \in Procs, UnlinkUnwritten(p) PROVE SeenBefore'
  BY <1>4b DEF UnlinkUnwritten, Released
<1>5. ASSUME NEW p \in Procs, StatGone(p) PROVE SeenBefore'
  BY <1>5 DEF StatGone, NextAttempt
<1>6. ASSUME NEW p \in Procs, StatHolder(p) PROVE SeenBefore'
  BY <1>6 DEF StatHolder
<1>7. ASSUME NEW p \in Procs, ReadGone(p) PROVE SeenBefore'
  BY <1>7 DEF ReadGone, NextAttempt
<1>8. ASSUME NEW p \in Procs, ReadStale(p) PROVE SeenBefore'
  BY <1>8 DEF ReadStale
<1>9. ASSUME NEW p \in Procs, ReadHeld(p) PROVE SeenBefore'
  BY <1>9 DEF ReadHeld
<1>10. ASSUME NEW p \in Procs, RecheckSame(p) PROVE SeenBefore'
  BY <1>10 DEF RecheckSame
<1>11. ASSUME NEW p \in Procs, RecheckOther(p) PROVE SeenBefore'
  BY <1>11 DEF RecheckOther, NextAttempt
<1>12. ASSUME NEW p \in Procs, UnlinkStale(p) PROVE SeenBefore'
  BY <1>12 DEF UnlinkStale, NextAttempt
<1>13. ASSUME NEW p \in Procs, BeginRelease(p) PROVE SeenBefore'
  BY <1>13 DEF BeginRelease
<1>14. ASSUME NEW p \in Procs, ReadOwnToken(p) PROVE SeenBefore'
  BY <1>14 DEF ReadOwnToken
<1>15. ASSUME NEW p \in Procs, ReadOtherToken(p) PROVE SeenBefore'
  BY <1>15 DEF ReadOtherToken, Released
<1>16. ASSUME NEW p \in Procs, UnlinkOwn(p) PROVE SeenBefore'
  BY <1>16 DEF UnlinkOwn, Released
<1>16a. ASSUME NEW p \in Procs, CallFails(p) PROVE SeenBefore'
  BY <1>16a DEF CallFails, Released
<1>17. ASSUME NEW p \in Procs, Crash(p) PROVE SeenBefore'
  BY <1>17 DEF Crash
<1>18. ASSUME NEW p \in Procs, ReusePid(p) PROVE SeenBefore'
  BY <1>18 DEF ReusePid
<1>19. CASE Age
  BY <1>19 DEF Age
<1>20. CASE UNCHANGED vars
  BY <1>20 DEF vars
<1>21. QED
  BY <1>1, <1>2, <1>3, <1>4, <1>4a, <1>4b, <1>5, <1>6, <1>7, <1>8, <1>9, <1>10, <1>11, <1>12,
     <1>13, <1>14, <1>15, <1>16, <1>16a, <1>17, <1>18, <1>19, <1>20 DEF Next, TryLock,
     Release

\* JudgedDead: what is judged stale is empty and old, old, or of a dead process,
\* and by OwnFile none of these has a valid creator.
LEMMA JudgedStep == TypeOK /\ Roles /\ OwnFile /\ SeenBefore /\ JudgedDead /\ [Next]_vars => JudgedDead'
<1> SUFFICES ASSUME TypeOK, Roles, OwnFile, SeenBefore, JudgedDead, [Next]_vars PROVE JudgedDead'
  OBVIOUS
<1> USE LockAssumption DEF TypeOK, Files, Stats, NoStats, PCs, ghosts, Goto, Roles, Creator,
        Looking, OwnFile, IsOwn, SeenBefore, IsSeen, TakenOverAt, JudgedDead, ValidCreator
<1>1. ASSUME NEW p \in Procs, Begin(p) PROVE JudgedDead'
  BY <1>1 DEF Begin
<1>2. ASSUME NEW p \in Procs, PublishCreates(p) PROVE JudgedDead'
  BY <1>2 DEF PublishCreates, Create, Remembered
<1>3. ASSUME NEW p \in Procs, PublishExists(p) PROVE JudgedDead'
  BY <1>3 DEF PublishExists
<1>4. ASSUME NEW p \in Procs, WritePid(p) PROVE JudgedDead'
  BY <1>4 DEF WritePid
<1>4a. ASSUME NEW p \in Procs, WriteFails(p) PROVE JudgedDead'
  BY <1>4a DEF WriteFails
<1>4b. ASSUME NEW p \in Procs, UnlinkUnwritten(p) PROVE JudgedDead'
  BY <1>4b DEF UnlinkUnwritten, Released
<1>5. ASSUME NEW p \in Procs, StatGone(p) PROVE JudgedDead'
  BY <1>5 DEF StatGone, NextAttempt
<1>6. ASSUME NEW p \in Procs, StatHolder(p) PROVE JudgedDead'
  BY <1>6 DEF StatHolder
<1>7. ASSUME NEW p \in Procs, ReadGone(p) PROVE JudgedDead'
  BY <1>7 DEF ReadGone, NextAttempt
<1>8. ASSUME NEW p \in Procs, ReadStale(p) PROVE JudgedDead'
  BY <1>8 DEF ReadStale, JudgedStale, Alive
<1>9. ASSUME NEW p \in Procs, ReadHeld(p) PROVE JudgedDead'
  BY <1>9 DEF ReadHeld
<1>10. ASSUME NEW p \in Procs, RecheckSame(p) PROVE JudgedDead'
  BY <1>10 DEF RecheckSame
<1>11. ASSUME NEW p \in Procs, RecheckOther(p) PROVE JudgedDead'
  BY <1>11 DEF RecheckOther, NextAttempt
<1>12. ASSUME NEW p \in Procs, UnlinkStale(p) PROVE JudgedDead'
  BY <1>12 DEF UnlinkStale, NextAttempt
<1>13. ASSUME NEW p \in Procs, BeginRelease(p) PROVE JudgedDead'
  BY <1>13 DEF BeginRelease
<1>14. ASSUME NEW p \in Procs, ReadOwnToken(p) PROVE JudgedDead'
  BY <1>14 DEF ReadOwnToken
<1>15. ASSUME NEW p \in Procs, ReadOtherToken(p) PROVE JudgedDead'
  BY <1>15 DEF ReadOtherToken, Released
<1>16. ASSUME NEW p \in Procs, UnlinkOwn(p) PROVE JudgedDead'
  BY <1>16 DEF UnlinkOwn, Released
<1>16a. ASSUME NEW p \in Procs, CallFails(p) PROVE JudgedDead'
  BY <1>16a DEF CallFails, Released
<1>17. ASSUME NEW p \in Procs, Crash(p) PROVE JudgedDead'
  BY <1>17 DEF Crash
<1>18. ASSUME NEW p \in Procs, ReusePid(p) PROVE JudgedDead'
  BY <1>18 DEF ReusePid
<1>19. CASE Age
  BY <1>19 DEF Age
<1>20. CASE UNCHANGED vars
  BY <1>20 DEF vars
<1>21. QED
  BY <1>1, <1>2, <1>3, <1>4, <1>4a, <1>4b, <1>5, <1>6, <1>7, <1>8, <1>9, <1>10, <1>11, <1>12,
     <1>13, <1>14, <1>15, <1>16, <1>16a, <1>17, <1>18, <1>19, <1>20 DEF Next, TryLock,
     Release

\* HoldersOwn: only an unlink takes a file away, and JudgedDead covers UnlinkStale.
LEMMA HoldersStep == TypeOK /\ Roles /\ OwnFile /\ JudgedDead /\ HoldersOwn /\ [Next]_vars => HoldersOwn'
<1> SUFFICES ASSUME TypeOK, Roles, OwnFile, JudgedDead, HoldersOwn, [Next]_vars PROVE HoldersOwn'
  OBVIOUS
<1> USE LockAssumption DEF TypeOK, Files, Stats, NoStats, PCs, ghosts, Goto, Roles, Creator,
        OwnFile, IsOwn, IsSeen, JudgedDead, ValidCreator, HoldersOwn
<1>1. ASSUME NEW p \in Procs, Begin(p) PROVE HoldersOwn'
  BY <1>1 DEF Begin
<1>2. ASSUME NEW p \in Procs, PublishCreates(p) PROVE HoldersOwn'
  BY <1>2 DEF PublishCreates, Create, Remembered
<1>3. ASSUME NEW p \in Procs, PublishExists(p) PROVE HoldersOwn'
  BY <1>3 DEF PublishExists
<1>4. ASSUME NEW p \in Procs, WritePid(p) PROVE HoldersOwn'
  BY <1>4 DEF WritePid
<1>4a. ASSUME NEW p \in Procs, WriteFails(p) PROVE HoldersOwn'
  BY <1>4a DEF WriteFails
<1>4b. ASSUME NEW p \in Procs, UnlinkUnwritten(p) PROVE HoldersOwn'
  BY <1>4b DEF UnlinkUnwritten, Released
<1>5. ASSUME NEW p \in Procs, StatGone(p) PROVE HoldersOwn'
  BY <1>5 DEF StatGone, NextAttempt
<1>6. ASSUME NEW p \in Procs, StatHolder(p) PROVE HoldersOwn'
  BY <1>6 DEF StatHolder
<1>7. ASSUME NEW p \in Procs, ReadGone(p) PROVE HoldersOwn'
  BY <1>7 DEF ReadGone, NextAttempt
<1>8. ASSUME NEW p \in Procs, ReadStale(p) PROVE HoldersOwn'
  BY <1>8 DEF ReadStale
<1>9. ASSUME NEW p \in Procs, ReadHeld(p) PROVE HoldersOwn'
  BY <1>9 DEF ReadHeld
<1>10. ASSUME NEW p \in Procs, RecheckSame(p) PROVE HoldersOwn'
  BY <1>10 DEF RecheckSame
<1>11. ASSUME NEW p \in Procs, RecheckOther(p) PROVE HoldersOwn'
  BY <1>11 DEF RecheckOther, NextAttempt
<1>12. ASSUME NEW p \in Procs, UnlinkStale(p) PROVE HoldersOwn'
  <2>1. SUFFICES ASSUME ~windowHit', ~lateRelease', ~lateUndo', NEW r \in Procs, ValidCreator(r)'
                 PROVE FALSE
    BY DEF HoldersOwn
  <2>2. ~windowHit /\ ~lateRelease /\ ~lateUndo /\ (lock = NoFile \/ IsSeen(p))
    BY <1>12, <2>1 DEF UnlinkStale
  <2>3. ValidCreator(r)
    BY <1>12, <2>1 DEF UnlinkStale, NextAttempt
  <2>4. IsOwn(r)
    BY <2>2, <2>3 DEF HoldersOwn
  <2>5. ~IsOwn(r)
    BY <1>12, <2>2, <2>3 DEF UnlinkStale, JudgedDead, IsOwn
  <2>6. QED
    BY <2>4, <2>5
<1>13. ASSUME NEW p \in Procs, BeginRelease(p) PROVE HoldersOwn'
  BY <1>13 DEF BeginRelease
<1>14. ASSUME NEW p \in Procs, ReadOwnToken(p) PROVE HoldersOwn'
  BY <1>14 DEF ReadOwnToken
<1>15. ASSUME NEW p \in Procs, ReadOtherToken(p) PROVE HoldersOwn'
  BY <1>15 DEF ReadOtherToken, Released
<1>16. ASSUME NEW p \in Procs, UnlinkOwn(p) PROVE HoldersOwn'
  BY <1>16 DEF UnlinkOwn, Released
<1>16a. ASSUME NEW p \in Procs, CallFails(p) PROVE HoldersOwn'
  BY <1>16a DEF CallFails, Released
<1>17. ASSUME NEW p \in Procs, Crash(p) PROVE HoldersOwn'
  BY <1>17 DEF Crash
<1>18. ASSUME NEW p \in Procs, ReusePid(p) PROVE HoldersOwn'
  BY <1>18 DEF ReusePid
<1>19. CASE Age
  BY <1>19 DEF Age
<1>20. CASE UNCHANGED vars
  BY <1>20 DEF vars
<1>21. QED
  BY <1>1, <1>2, <1>3, <1>4, <1>4a, <1>4b, <1>5, <1>6, <1>7, <1>8, <1>9, <1>10, <1>11, <1>12,
     <1>13, <1>14, <1>15, <1>16, <1>16a, <1>17, <1>18, <1>19, <1>20 DEF Next, TryLock,
     Release

LEMMA InvInit == Init => IInv
  <1> SUFFICES ASSUME Init PROVE IInv
    OBVIOUS
  <1>1. TypeOK
    <2>1. NoStats \in Stats
      BY DEF NoStats, Stats
    <2>2. 0 \in 0 .. Attempts
      BY LockAssumption
    <2>3. "idle" \in PCs
      BY DEF PCs
    <2>4. /\ lock \in Files \cup {NoFile}
          /\ pc \in [Procs -> PCs]
          /\ tries \in [Procs -> 0 .. Attempts]
          /\ mine \in [Procs -> Inos \cup {NoIno}]
          /\ seen \in [Procs -> Stats]
      BY <2>1, <2>2, <2>3, Zenon DEF Init
    <2>5. faults \in Nat /\ expired \subseteq Procs
      BY DEF Init
    <2>6. windowHit \in BOOLEAN /\ lateRelease \in BOOLEAN /\ lateUndo \in BOOLEAN
      BY DEF Init
    <2>7. QED
      BY <2>4, <2>5, <2>6, Zenon DEF TypeOK
  <1>2. Roles
    BY DEF Init, Roles, NoStats
  <1>3. OwnFile /\ SeenBefore /\ JudgedDead
    BY DEF Init, OwnFile, IsOwn, SeenBefore, JudgedDead, IsSeen
  <1>4. HoldersOwn
    <2>1. \A p \in Procs : pc[p] = "idle"
      BY DEF Init
    <2>2. QED
      BY <2>1 DEF HoldersOwn, ValidCreator
  <1>5. QED
    BY <1>1, <1>2, <1>3, <1>4 DEF IInv

LEMMA InvStep == IInv /\ [Next]_vars => IInv'
  BY TypeStep, RolesStep, OwnFileStep, SeenStep, JudgedStep, HoldersStep DEF IInv

LEMMA Inductive == Spec => []IInv
  BY InvInit, InvStep, PTL DEF Spec

\* The type invariant, for every number of processes, tries and faults.
THEOREM Typing == Spec => []TypeOK
  <1>1. IInv => TypeOK
    BY DEF IInv
  <1>2. QED
    BY <1>1, Inductive, PTL

\* Without a hit of one of the three windows, two processes never both have a
\* lock that nobody may take over: whatever dies, restarts, ages or retries.
THEOREM LockIsExclusive == Spec => []MutualExclusion
  <1>1. IInv => MutualExclusion
    BY DEF IInv, TypeOK, HoldersOwn, OwnFile, ValidCreator, MutualExclusion, ValidHolder
  <1>2. QED
    BY <1>1, Inductive, PTL

(***************************************************************************)
(* Callers that give no staleMs, on a file system with hard links          *)
(***************************************************************************)

\* Only the file of a dead process is ever judged stale, so that a file stays
\* at the path until its creator removes it.
KeptUntilReleased ==
    ~HasStale /\ HardLinks =>
        /\ lock # NoFile => lock.mtime = 1
        /\ \A p \in Procs : pc[p] \notin {"write", "undo"}
        /\ ~windowHit => \A p \in Procs : Creator(p) => IsOwn(p)
        /\ \A q \in Procs : pc[q] \in {"recheck", "unlink"} /\ IsSeen(q) =>
              \A p \in Procs : Creator(p) => ~IsOwn(p)
        /\ lateRelease => windowHit

\* The same argument without staleMs, where only a dead creator is judged stale.
LEMMA KeptStep == IInv /\ KeptUntilReleased /\ [Next]_vars => KeptUntilReleased'
<1> SUFFICES ASSUME IInv, KeptUntilReleased, [Next]_vars PROVE KeptUntilReleased'
  OBVIOUS
<1> USE LockAssumption DEF TypeOK, Files, Stats, NoStats, PCs, ghosts, Goto, IInv, Roles, Creator,
        OwnFile, IsOwn, SeenBefore, IsSeen, KeptUntilReleased
<1>1. ASSUME NEW p \in Procs, Begin(p) PROVE KeptUntilReleased'
  BY <1>1 DEF Begin
<1>2. ASSUME NEW p \in Procs, PublishCreates(p) PROVE KeptUntilReleased'
  BY <1>2 DEF PublishCreates, Create, Remembered
<1>3. ASSUME NEW p \in Procs, PublishExists(p) PROVE KeptUntilReleased'
  BY <1>3 DEF PublishExists
<1>4. ASSUME NEW p \in Procs, WritePid(p) PROVE KeptUntilReleased'
  BY <1>4 DEF WritePid
<1>4a. ASSUME NEW p \in Procs, WriteFails(p) PROVE KeptUntilReleased'
  BY <1>4a DEF WriteFails
<1>4b. ASSUME NEW p \in Procs, UnlinkUnwritten(p) PROVE KeptUntilReleased'
  BY <1>4b DEF UnlinkUnwritten, Released
<1>5. ASSUME NEW p \in Procs, StatGone(p) PROVE KeptUntilReleased'
  BY <1>5 DEF StatGone, NextAttempt
<1>6. ASSUME NEW p \in Procs, StatHolder(p) PROVE KeptUntilReleased'
  BY <1>6 DEF StatHolder
<1>7. ASSUME NEW p \in Procs, ReadGone(p) PROVE KeptUntilReleased'
  BY <1>7 DEF ReadGone, NextAttempt
<1>8. ASSUME NEW p \in Procs, ReadStale(p) PROVE KeptUntilReleased'
  BY <1>8 DEF ReadStale, JudgedStale, Alive
<1>9. ASSUME NEW p \in Procs, ReadHeld(p) PROVE KeptUntilReleased'
  BY <1>9 DEF ReadHeld
<1>10. ASSUME NEW p \in Procs, RecheckSame(p) PROVE KeptUntilReleased'
  BY <1>10 DEF RecheckSame
<1>11. ASSUME NEW p \in Procs, RecheckOther(p) PROVE KeptUntilReleased'
  BY <1>11 DEF RecheckOther, NextAttempt
<1>12. ASSUME NEW p \in Procs, UnlinkStale(p) PROVE KeptUntilReleased'
  <2>1. SUFFICES ASSUME ~HasStale, HardLinks PROVE KeptUntilReleased'
    BY DEF KeptUntilReleased
  <2>2. lock' = NoFile /\ (lateRelease' => windowHit')
    BY <1>12, <2>1 DEF UnlinkStale
  <2>3. \A r \in Procs : pc'[r] \notin {"write", "undo"}
    BY <1>12, <2>1 DEF UnlinkStale, NextAttempt
  <2>4. ASSUME ~windowHit', NEW r \in Procs, Creator(r)' PROVE FALSE
    <3>1. ~windowHit /\ (lock = NoFile \/ IsSeen(p))
      BY <1>12, <2>4 DEF UnlinkStale
    <3>2. Creator(r)
      BY <1>12, <2>4 DEF UnlinkStale, NextAttempt
    <3>3. QED
      BY <1>12, <2>1, <3>1, <3>2 DEF UnlinkStale
  <2>5. QED
    BY <2>2, <2>3, <2>4 DEF KeptUntilReleased
<1>13. ASSUME NEW p \in Procs, BeginRelease(p) PROVE KeptUntilReleased'
  BY <1>13 DEF BeginRelease
<1>14. ASSUME NEW p \in Procs, ReadOwnToken(p) PROVE KeptUntilReleased'
  BY <1>14 DEF ReadOwnToken
<1>15. ASSUME NEW p \in Procs, ReadOtherToken(p) PROVE KeptUntilReleased'
  BY <1>15 DEF ReadOtherToken, Released
<1>16. ASSUME NEW p \in Procs, UnlinkOwn(p) PROVE KeptUntilReleased'
  BY <1>16 DEF UnlinkOwn, Released
<1>16a. ASSUME NEW p \in Procs, CallFails(p) PROVE KeptUntilReleased'
  BY <1>16a DEF CallFails, Released
<1>17. ASSUME NEW p \in Procs, Crash(p) PROVE KeptUntilReleased'
  BY <1>17 DEF Crash
<1>18. ASSUME NEW p \in Procs, ReusePid(p) PROVE KeptUntilReleased'
  BY <1>18 DEF ReusePid
<1>19. CASE Age
  BY <1>19 DEF Age
<1>20. CASE UNCHANGED vars
  BY <1>20 DEF vars
<1>21. QED
  BY <1>1, <1>2, <1>3, <1>4, <1>4a, <1>4b, <1>5, <1>6, <1>7, <1>8, <1>9, <1>10, <1>11, <1>12,
     <1>13, <1>14, <1>15, <1>16, <1>16a, <1>17, <1>18, <1>19, <1>20 DEF Next, TryLock,
     Release

\* With no takeover by age, a release never removes the lock of another
\* process, unless removeStale's own window was hit before.
THEOREM ReleaseIsOwn == Spec => []OwnReleaseWithoutStale
  <1>1. Init => KeptUntilReleased
    <2> SUFFICES ASSUME Init PROVE KeptUntilReleased
      OBVIOUS
    <2>1. \A p \in Procs : pc[p] = "idle"
      BY DEF Init
    <2>2. lock = NoFile /\ ~lateRelease
      BY DEF Init
    <2>3. QED
      BY <2>1, <2>2 DEF KeptUntilReleased, Creator, IsSeen
  <1>2. KeptUntilReleased => OwnReleaseWithoutStale
    BY DEF KeptUntilReleased, OwnReleaseWithoutStale
  <1>3. QED
    BY <1>1, <1>2, KeptStep, Inductive, PTL DEF Spec
=============================================================================
