--------------------------- MODULE PublishProofs ---------------------------
(***************************************************************************)
(* Proofs about Publish, for every set of importers and of other users of  *)
(* the destination: the inductive invariant PublishInv, what follows from  *)
(* it about the destination, and that Publish implements Destination.      *)
(***************************************************************************)
EXTENDS Publish, TLAPS

-----------------------------------------------------------------------------
(* Type correctness, one lemma per group of variables.                     *)

LEMMA FlagStep == ASSUME PublishInv, Next PROVE FlagTypes'
<1> USE PublishAssumption DEF PublishInv, TypeOK, Files, place, files, locks, users, import, FlagTypes, FileTypes, ProcessTypes
<1>1. ASSUME NEW i \in Importers, Importer(i) PROVE FlagTypes'
  <2> USE DEF At, Goto, Fails, Release
  <2>1. CASE Start(i) BY <2>1 DEF Start
  <2>2. CASE Finalize(i) BY <2>2 DEF Finalize
  <2>3. CASE SyncFirst(i) BY <2>3 DEF SyncFirst
  <2>4. CASE FlushStage(i) BY <2>4 DEF FlushStage
  <2>5. CASE Stat(i) BY <2>5 DEF Stat
  <2>6. CASE CheckSidecars(i) BY <2>6 DEF CheckSidecars
  <2>7. CASE OpenGuard(i) BY <2>7 DEF OpenGuard
  <2>8. CASE LockDestination(i) BY <2>8 DEF LockDestination
  <2>9. CASE CheckVersion(i) BY <2>9 DEF CheckVersion
  <2>10. CASE LeaveWal(i) BY <2>10 DEF LeaveWal
  <2>11. CASE Rename(i) BY <2>11 DEF Rename
  <2>12. CASE RenameFails(i) BY <2>12 DEF RenameFails
  <2>13. CASE DropGuard(i) BY <2>13 DEF DropGuard
  <2>14. CASE Link(i) BY <2>14 DEF Link
  <2>15. CASE SyncDirectory(i) BY <2>15 DEF SyncDirectory
  <2>16. CASE RemoveStage(i) BY <2>16 DEF RemoveStage
  <2>17. CASE StepFails(i) BY <2>17 DEF StepFails
  <2>18. CASE Crash(i) BY <2>18 DEF Crash
  <2>19. QED BY <1>1, <2>1, <2>2, <2>3, <2>4, <2>5, <2>6, <2>7, <2>8, <2>9, <2>10, <2>11, <2>12, <2>13, <2>14, <2>15, <2>16, <2>17, <2>18 DEF Importer
<1>2. ASSUME NEW u \in Users, User(u) PROVE FlagTypes'
  <2>1. CASE UserOpens(u) BY <2>1 DEF UserOpens
  <2>2. CASE UserLocks(u) BY <2>2 DEF UserLocks
  <2>3. CASE UserUnlocks(u) BY <2>3 DEF UserUnlocks
  <2>4. CASE UserLeaves(u) BY <2>4 DEF UserLeaves
  <2>5. QED BY <1>2, <2>1, <2>2, <2>3, <2>4 DEF User
<1>3. CASE PowerFails BY <1>3 DEF PowerFails
<1>4. QED BY <1>1, <1>2, <1>3 DEF Next

LEMMA PlaceStep == ASSUME PublishInv, Next PROVE PlaceTypes'
<1> USE PublishAssumption DEF PublishInv, TypeOK, Files, place, files, locks, users, import, PlaceTypes, ProcessTypes
<1>1. ASSUME NEW i \in Importers, Importer(i) PROVE PlaceTypes'
  <2> USE DEF At, Goto, Fails, Release
  <2>1. CASE Start(i) BY <2>1 DEF Start
  <2>2. CASE Finalize(i) BY <2>2 DEF Finalize
  <2>3. CASE SyncFirst(i) BY <2>3 DEF SyncFirst
  <2>4. CASE FlushStage(i) BY <2>4 DEF FlushStage
  <2>5. CASE Stat(i) BY <2>5 DEF Stat
  <2>6. CASE CheckSidecars(i) BY <2>6 DEF CheckSidecars
  <2>7. CASE OpenGuard(i) BY <2>7 DEF OpenGuard
  <2>8. CASE LockDestination(i) BY <2>8 DEF LockDestination
  <2>9. CASE CheckVersion(i) BY <2>9 DEF CheckVersion
  <2>10. CASE LeaveWal(i) BY <2>10 DEF LeaveWal
  <2>11. CASE Rename(i) BY <2>11 DEF Rename
  <2>12. CASE RenameFails(i) BY <2>12 DEF RenameFails
  <2>13. CASE DropGuard(i) BY <2>13 DEF DropGuard
  <2>14. CASE Link(i) BY <2>14 DEF Link
  <2>15. CASE SyncDirectory(i) BY <2>15 DEF SyncDirectory
  <2>16. CASE RemoveStage(i) BY <2>16 DEF RemoveStage
  <2>17. CASE StepFails(i) BY <2>17 DEF StepFails
  <2>18. CASE Crash(i) BY <2>18 DEF Crash
  <2>19. QED BY <1>1, <2>1, <2>2, <2>3, <2>4, <2>5, <2>6, <2>7, <2>8, <2>9, <2>10, <2>11, <2>12, <2>13, <2>14, <2>15, <2>16, <2>17, <2>18 DEF Importer
<1>2. ASSUME NEW u \in Users, User(u) PROVE PlaceTypes'
  <2>1. CASE UserOpens(u) BY <2>1 DEF UserOpens
  <2>2. CASE UserLocks(u) BY <2>2 DEF UserLocks
  <2>3. CASE UserUnlocks(u) BY <2>3 DEF UserUnlocks
  <2>4. CASE UserLeaves(u) BY <2>4 DEF UserLeaves
  <2>5. QED BY <1>2, <2>1, <2>2, <2>3, <2>4 DEF User
<1>3. CASE PowerFails BY <1>3 DEF PowerFails
<1>4. QED BY <1>1, <1>2, <1>3 DEF Next

LEMMA FileStep == ASSUME PublishInv, Next PROVE FileTypes'
<1> USE PublishAssumption DEF PublishInv, TypeOK, Files, place, files, locks, users, import, FileTypes, PlaceTypes, ProcessTypes
<1>1. ASSUME NEW i \in Importers, Importer(i) PROVE FileTypes'
  <2> USE DEF At, Goto, Fails, Release
  <2>1. CASE Start(i) BY <2>1 DEF Start
  <2>2. CASE Finalize(i) BY <2>2 DEF Finalize
  <2>3. CASE SyncFirst(i) BY <2>3 DEF SyncFirst
  <2>4. CASE FlushStage(i) BY <2>4 DEF FlushStage
  <2>5. CASE Stat(i) BY <2>5 DEF Stat
  <2>6. CASE CheckSidecars(i) BY <2>6 DEF CheckSidecars
  <2>7. CASE OpenGuard(i) BY <2>7 DEF OpenGuard
  <2>8. CASE LockDestination(i) BY <2>8 DEF LockDestination
  <2>9. CASE CheckVersion(i) BY <2>9 DEF CheckVersion
  <2>10. CASE LeaveWal(i) BY <2>10 DEF LeaveWal
  <2>11. CASE Rename(i) BY <2>11 DEF Rename
  <2>12. CASE RenameFails(i) BY <2>12 DEF RenameFails
  <2>13. CASE DropGuard(i) BY <2>13 DEF DropGuard
  <2>14. CASE Link(i) BY <2>14 DEF Link
  <2>15. CASE SyncDirectory(i) BY <2>15 DEF SyncDirectory
  <2>16. CASE RemoveStage(i) BY <2>16 DEF RemoveStage
  <2>17. CASE StepFails(i) BY <2>17 DEF StepFails
  <2>18. CASE Crash(i) BY <2>18 DEF Crash
  <2>19. QED BY <1>1, <2>1, <2>2, <2>3, <2>4, <2>5, <2>6, <2>7, <2>8, <2>9, <2>10, <2>11, <2>12, <2>13, <2>14, <2>15, <2>16, <2>17, <2>18 DEF Importer
<1>2. ASSUME NEW u \in Users, User(u) PROVE FileTypes'
  <2>1. CASE UserOpens(u) BY <2>1 DEF UserOpens
  <2>2. CASE UserLocks(u) BY <2>2 DEF UserLocks
  <2>3. CASE UserUnlocks(u) BY <2>3 DEF UserUnlocks
  <2>4. CASE UserLeaves(u) BY <2>4 DEF UserLeaves
  <2>5. QED BY <1>2, <2>1, <2>2, <2>3, <2>4 DEF User
<1>3. CASE PowerFails BY <1>3 DEF PowerFails
<1>4. QED BY <1>1, <1>2, <1>3 DEF Next

LEMMA ProcessStep == ASSUME PublishInv, Next PROVE ProcessTypes'
<1> USE PublishAssumption DEF PublishInv, TypeOK, Files, place, files, locks, users, import, ImporterPlaces, ProcessTypes, PlaceTypes
<1>1. ASSUME NEW i \in Importers, Importer(i) PROVE ProcessTypes'
  <2> USE DEF At, Goto, Fails, Release
  <2>1. CASE Start(i) BY <2>1 DEF Start
  <2>2. CASE Finalize(i) BY <2>2 DEF Finalize
  <2>3. CASE SyncFirst(i) BY <2>3 DEF SyncFirst
  <2>4. CASE FlushStage(i) BY <2>4 DEF FlushStage
  <2>5. CASE Stat(i) BY <2>5 DEF Stat
  <2>6. CASE CheckSidecars(i) BY <2>6 DEF CheckSidecars
  <2>7. CASE OpenGuard(i) BY <2>7 DEF OpenGuard
  <2>8. CASE LockDestination(i) BY <2>8 DEF LockDestination
  <2>9. CASE CheckVersion(i) BY <2>9 DEF CheckVersion
  <2>10. CASE LeaveWal(i) BY <2>10 DEF LeaveWal
  <2>11. CASE Rename(i) BY <2>11 DEF Rename
  <2>12. CASE RenameFails(i) BY <2>12 DEF RenameFails
  <2>13. CASE DropGuard(i) BY <2>13 DEF DropGuard
  <2>14. CASE Link(i) BY <2>14 DEF Link
  <2>15. CASE SyncDirectory(i) BY <2>15 DEF SyncDirectory
  <2>16. CASE RemoveStage(i) BY <2>16 DEF RemoveStage
  <2>17. CASE StepFails(i) BY <2>17 DEF StepFails
  <2>18. CASE Crash(i) BY <2>18 DEF Crash
  <2>19. QED BY <1>1, <2>1, <2>2, <2>3, <2>4, <2>5, <2>6, <2>7, <2>8, <2>9, <2>10, <2>11, <2>12, <2>13, <2>14, <2>15, <2>16, <2>17, <2>18 DEF Importer
<1>2. ASSUME NEW u \in Users, User(u) PROVE ProcessTypes'
  <2>1. CASE UserOpens(u) BY <2>1 DEF UserOpens
  <2>2. CASE UserLocks(u) BY <2>2 DEF UserLocks
  <2>3. CASE UserUnlocks(u) BY <2>3 DEF UserUnlocks
  <2>4. CASE UserLeaves(u) BY <2>4 DEF UserLeaves
  <2>5. QED BY <1>2, <2>1, <2>2, <2>3, <2>4 DEF User
<1>3. CASE PowerFails BY <1>3 DEF PowerFails
<1>4. QED BY <1>1, <1>2, <1>3 DEF Next
-----------------------------------------------------------------------------
(* The other conjuncts of the invariant, one lemma each.                   *)

LEMMA LockStep == ASSUME PublishInv, Next PROVE LocksHeld'
<1> USE PublishAssumption DEF PublishInv, LocksHeld, TypeOK, FlagTypes, PlaceTypes, FileTypes, ProcessTypes, Files, place, files, locks, users, import
<1>1. ASSUME NEW i \in Importers, Importer(i) PROVE LocksHeld'
  <2> USE DEF At, Goto, Fails, Release
  <2>1. CASE Start(i) BY <2>1 DEF Start
  <2>2. CASE Finalize(i) BY <2>2 DEF Finalize
  <2>3. CASE SyncFirst(i) BY <2>3 DEF SyncFirst
  <2>4. CASE FlushStage(i) BY <2>4 DEF FlushStage
  <2>5. CASE Stat(i) BY <2>5 DEF Stat
  <2>6. CASE CheckSidecars(i) BY <2>6 DEF CheckSidecars
  <2>7. CASE OpenGuard(i) BY <2>7 DEF OpenGuard
  <2>8. CASE LockDestination(i) BY <2>8 DEF LockDestination
  <2>9. CASE CheckVersion(i) BY <2>9 DEF CheckVersion
  <2>10. CASE LeaveWal(i) BY <2>10 DEF LeaveWal
  <2>11. CASE Rename(i) BY <2>11 DEF Rename
  <2>12. CASE RenameFails(i) BY <2>12 DEF RenameFails
  <2>13. CASE DropGuard(i) BY <2>13 DEF DropGuard
  <2>14. CASE Link(i) BY <2>14 DEF Link
  <2>15. CASE SyncDirectory(i) BY <2>15 DEF SyncDirectory
  <2>16. CASE RemoveStage(i) BY <2>16 DEF RemoveStage
  <2>17. CASE StepFails(i) BY <2>17 DEF StepFails
  <2>18. CASE Crash(i) BY <2>18 DEF Crash
  <2>19. QED BY <1>1, <2>1, <2>2, <2>3, <2>4, <2>5, <2>6, <2>7, <2>8, <2>9, <2>10, <2>11, <2>12, <2>13, <2>14, <2>15, <2>16, <2>17, <2>18 DEF Importer
<1>2. ASSUME NEW u \in Users, User(u) PROVE LocksHeld'
  <2>1. CASE UserOpens(u) BY <2>1 DEF UserOpens
  <2>2. CASE UserLocks(u) BY <2>2 DEF UserLocks
  <2>3. CASE UserUnlocks(u) BY <2>3 DEF UserUnlocks
  <2>4. CASE UserLeaves(u) BY <2>4 DEF UserLeaves
  <2>5. QED BY <1>2, <2>1, <2>2, <2>3, <2>4 DEF User
<1>3. CASE PowerFails BY <1>3 DEF PowerFails
<1>4. QED BY <1>1, <1>2, <1>3 DEF Next

LEMMA ExcludeStep == ASSUME PublishInv, Next PROVE OwnersExclude'
<1> USE PublishAssumption DEF PublishInv, OwnersExclude, TypeOK, FlagTypes, PlaceTypes, FileTypes, ProcessTypes, Files, place, files, locks, users, import
<1>1. ASSUME NEW i \in Importers, Importer(i) PROVE OwnersExclude'
  <2> USE DEF At, Goto, Fails, Release
  <2>1. CASE Start(i) BY <2>1 DEF Start
  <2>2. CASE Finalize(i) BY <2>2 DEF Finalize
  <2>3. CASE SyncFirst(i) BY <2>3 DEF SyncFirst
  <2>4. CASE FlushStage(i) BY <2>4 DEF FlushStage
  <2>5. CASE Stat(i) BY <2>5 DEF Stat
  <2>6. CASE CheckSidecars(i) BY <2>6 DEF CheckSidecars
  <2>7. CASE OpenGuard(i) BY <2>7 DEF OpenGuard
  <2>8. CASE LockDestination(i) BY <2>8 DEF LockDestination
  <2>9. CASE CheckVersion(i) BY <2>9 DEF CheckVersion
  <2>10. CASE LeaveWal(i) BY <2>10 DEF LeaveWal
  <2>11. CASE Rename(i) BY <2>11 DEF Rename
  <2>12. CASE RenameFails(i) BY <2>12 DEF RenameFails
  <2>13. CASE DropGuard(i) BY <2>13 DEF DropGuard
  <2>14. CASE Link(i) BY <2>14 DEF Link
  <2>15. CASE SyncDirectory(i) BY <2>15 DEF SyncDirectory
  <2>16. CASE RemoveStage(i) BY <2>16 DEF RemoveStage
  <2>17. CASE StepFails(i) BY <2>17 DEF StepFails
  <2>18. CASE Crash(i) BY <2>18 DEF Crash
  <2>19. QED BY <1>1, <2>1, <2>2, <2>3, <2>4, <2>5, <2>6, <2>7, <2>8, <2>9, <2>10, <2>11, <2>12, <2>13, <2>14, <2>15, <2>16, <2>17, <2>18 DEF Importer
<1>2. ASSUME NEW u \in Users, User(u) PROVE OwnersExclude'
  <2>1. CASE UserOpens(u) BY <2>1 DEF UserOpens
  <2>2. CASE UserLocks(u) BY <2>2 DEF UserLocks
  <2>3. CASE UserUnlocks(u) BY <2>3 DEF UserUnlocks
  <2>4. CASE UserLeaves(u) BY <2>4 DEF UserLeaves
  <2>5. QED BY <1>2, <2>1, <2>2, <2>3, <2>4 DEF User
<1>3. CASE PowerFails BY <1>3 DEF PowerFails
<1>4. QED BY <1>1, <1>2, <1>3 DEF Next

LEMMA OthersStep == ASSUME PublishInv, Next PROVE OthersWhole'
<1> USE PublishAssumption DEF PublishInv, OthersWhole, TypeOK, FlagTypes, PlaceTypes, FileTypes, ProcessTypes, Files, place, files, locks, users, import
<1>1. ASSUME NEW i \in Importers, Importer(i) PROVE OthersWhole'
  <2> USE DEF At, Goto, Fails, Release
  <2>1. CASE Start(i) BY <2>1 DEF Start
  <2>2. CASE Finalize(i) BY <2>2 DEF Finalize
  <2>3. CASE SyncFirst(i) BY <2>3 DEF SyncFirst
  <2>4. CASE FlushStage(i) BY <2>4 DEF FlushStage
  <2>5. CASE Stat(i) BY <2>5 DEF Stat
  <2>6. CASE CheckSidecars(i) BY <2>6 DEF CheckSidecars
  <2>7. CASE OpenGuard(i) BY <2>7 DEF OpenGuard
  <2>8. CASE LockDestination(i) BY <2>8 DEF LockDestination
  <2>9. CASE CheckVersion(i) BY <2>9 DEF CheckVersion
  <2>10. CASE LeaveWal(i) BY <2>10 DEF LeaveWal
  <2>11. CASE Rename(i) BY <2>11 DEF Rename
  <2>12. CASE RenameFails(i) BY <2>12 DEF RenameFails
  <2>13. CASE DropGuard(i) BY <2>13 DEF DropGuard
  <2>14. CASE Link(i) BY <2>14 DEF Link
  <2>15. CASE SyncDirectory(i) BY <2>15 DEF SyncDirectory
  <2>16. CASE RemoveStage(i) BY <2>16 DEF RemoveStage
  <2>17. CASE StepFails(i) BY <2>17 DEF StepFails
  <2>18. CASE Crash(i) BY <2>18 DEF Crash
  <2>19. QED BY <1>1, <2>1, <2>2, <2>3, <2>4, <2>5, <2>6, <2>7, <2>8, <2>9, <2>10, <2>11, <2>12, <2>13, <2>14, <2>15, <2>16, <2>17, <2>18 DEF Importer
<1>2. ASSUME NEW u \in Users, User(u) PROVE OthersWhole'
  <2>1. CASE UserOpens(u) BY <2>1 DEF UserOpens
  <2>2. CASE UserLocks(u) BY <2>2 DEF UserLocks
  <2>3. CASE UserUnlocks(u) BY <2>3 DEF UserUnlocks
  <2>4. CASE UserLeaves(u) BY <2>4 DEF UserLeaves
  <2>5. QED BY <1>2, <2>1, <2>2, <2>3, <2>4 DEF User
<1>3. CASE PowerFails BY <1>3 DEF PowerFails
<1>4. QED BY <1>1, <1>2, <1>3 DEF Next

LEMMA DestStep == ASSUME PublishInv, Next PROVE (dest \in Importers => dest \in published)'
<1> USE PublishAssumption DEF PublishInv, TypeOK, FlagTypes, PlaceTypes, FileTypes, ProcessTypes, Files, place, files, locks, users, import
<1>1. ASSUME NEW i \in Importers, Importer(i) PROVE (dest \in Importers => dest \in published)'
  <2> USE DEF At, Goto, Fails, Release
  <2>1. CASE Start(i) BY <2>1 DEF Start
  <2>2. CASE Finalize(i) BY <2>2 DEF Finalize
  <2>3. CASE SyncFirst(i) BY <2>3 DEF SyncFirst
  <2>4. CASE FlushStage(i) BY <2>4 DEF FlushStage
  <2>5. CASE Stat(i) BY <2>5 DEF Stat
  <2>6. CASE CheckSidecars(i) BY <2>6 DEF CheckSidecars
  <2>7. CASE OpenGuard(i) BY <2>7 DEF OpenGuard
  <2>8. CASE LockDestination(i) BY <2>8 DEF LockDestination
  <2>9. CASE CheckVersion(i) BY <2>9 DEF CheckVersion
  <2>10. CASE LeaveWal(i) BY <2>10 DEF LeaveWal
  <2>11. CASE Rename(i) BY <2>11 DEF Rename
  <2>12. CASE RenameFails(i) BY <2>12 DEF RenameFails
  <2>13. CASE DropGuard(i) BY <2>13 DEF DropGuard
  <2>14. CASE Link(i) BY <2>14 DEF Link
  <2>15. CASE SyncDirectory(i) BY <2>15 DEF SyncDirectory
  <2>16. CASE RemoveStage(i) BY <2>16 DEF RemoveStage
  <2>17. CASE StepFails(i) BY <2>17 DEF StepFails
  <2>18. CASE Crash(i) BY <2>18 DEF Crash
  <2>19. QED BY <1>1, <2>1, <2>2, <2>3, <2>4, <2>5, <2>6, <2>7, <2>8, <2>9, <2>10, <2>11, <2>12, <2>13, <2>14, <2>15, <2>16, <2>17, <2>18 DEF Importer
<1>2. ASSUME NEW u \in Users, User(u) PROVE (dest \in Importers => dest \in published)'
  <2>1. CASE UserOpens(u) BY <2>1 DEF UserOpens
  <2>2. CASE UserLocks(u) BY <2>2 DEF UserLocks
  <2>3. CASE UserUnlocks(u) BY <2>3 DEF UserUnlocks
  <2>4. CASE UserLeaves(u) BY <2>4 DEF UserLeaves
  <2>5. QED BY <1>2, <2>1, <2>2, <2>3, <2>4 DEF User
<1>3. CASE PowerFails BY <1>3 DEF PowerFails
<1>4. QED BY <1>1, <1>2, <1>3 DEF Next

LEMMA SyncedStep == ASSUME PublishInv, Next PROVE (synced \in Importers => synced \in published)'
<1> USE PublishAssumption DEF PublishInv, TypeOK, FlagTypes, PlaceTypes, FileTypes, ProcessTypes, Files, place, files, locks, users, import
<1>1. ASSUME NEW i \in Importers, Importer(i) PROVE (synced \in Importers => synced \in published)'
  <2> USE DEF At, Goto, Fails, Release
  <2>1. CASE Start(i) BY <2>1 DEF Start
  <2>2. CASE Finalize(i) BY <2>2 DEF Finalize
  <2>3. CASE SyncFirst(i) BY <2>3 DEF SyncFirst
  <2>4. CASE FlushStage(i) BY <2>4 DEF FlushStage
  <2>5. CASE Stat(i) BY <2>5 DEF Stat
  <2>6. CASE CheckSidecars(i) BY <2>6 DEF CheckSidecars
  <2>7. CASE OpenGuard(i) BY <2>7 DEF OpenGuard
  <2>8. CASE LockDestination(i) BY <2>8 DEF LockDestination
  <2>9. CASE CheckVersion(i) BY <2>9 DEF CheckVersion
  <2>10. CASE LeaveWal(i) BY <2>10 DEF LeaveWal
  <2>11. CASE Rename(i) BY <2>11 DEF Rename
  <2>12. CASE RenameFails(i) BY <2>12 DEF RenameFails
  <2>13. CASE DropGuard(i) BY <2>13 DEF DropGuard
  <2>14. CASE Link(i) BY <2>14 DEF Link
  <2>15. CASE SyncDirectory(i) BY <2>15 DEF SyncDirectory
  <2>16. CASE RemoveStage(i) BY <2>16 DEF RemoveStage
  <2>17. CASE StepFails(i) BY <2>17 DEF StepFails
  <2>18. CASE Crash(i) BY <2>18 DEF Crash
  <2>19. QED BY <1>1, <2>1, <2>2, <2>3, <2>4, <2>5, <2>6, <2>7, <2>8, <2>9, <2>10, <2>11, <2>12, <2>13, <2>14, <2>15, <2>16, <2>17, <2>18 DEF Importer
<1>2. ASSUME NEW u \in Users, User(u) PROVE (synced \in Importers => synced \in published)'
  <2>1. CASE UserOpens(u) BY <2>1 DEF UserOpens
  <2>2. CASE UserLocks(u) BY <2>2 DEF UserLocks
  <2>3. CASE UserUnlocks(u) BY <2>3 DEF UserUnlocks
  <2>4. CASE UserLeaves(u) BY <2>4 DEF UserLeaves
  <2>5. QED BY <1>2, <2>1, <2>2, <2>3, <2>4 DEF User
<1>3. CASE PowerFails BY <1>3 DEF PowerFails
<1>4. QED BY <1>1, <1>2, <1>3 DEF Next

LEMMA OrderStep == ASSUME PublishInv, Next PROVE (\A j \in Importers : InOrder(j))'
<1> USE PublishAssumption DEF PublishInv, InOrder, Early, Beyond, Done, TypeOK, FlagTypes, PlaceTypes, FileTypes, ProcessTypes, Files, place, files, locks, users, import
<1>1. ASSUME NEW i \in Importers, Importer(i) PROVE (\A j \in Importers : InOrder(j))'
  <2> USE DEF At, Goto, Fails, Release
  <2>1. CASE Start(i) BY <2>1 DEF Start
  <2>2. CASE Finalize(i) BY <2>2 DEF Finalize
  <2>3. CASE SyncFirst(i) BY <2>3 DEF SyncFirst
  <2>4. CASE FlushStage(i) BY <2>4 DEF FlushStage
  <2>5. CASE Stat(i) BY <2>5 DEF Stat
  <2>6. CASE CheckSidecars(i) BY <2>6 DEF CheckSidecars
  <2>7. CASE OpenGuard(i) BY <2>7 DEF OpenGuard
  <2>8. CASE LockDestination(i) BY <2>8 DEF LockDestination
  <2>9. CASE CheckVersion(i) BY <2>9 DEF CheckVersion
  <2>10. CASE LeaveWal(i) BY <2>10 DEF LeaveWal
  <2>11. CASE Rename(i) BY <2>11 DEF Rename
  <2>12. CASE RenameFails(i) BY <2>12 DEF RenameFails
  <2>13. CASE DropGuard(i) BY <2>13 DEF DropGuard
  <2>14. CASE Link(i) BY <2>14 DEF Link
  <2>15. CASE SyncDirectory(i) BY <2>15 DEF SyncDirectory
  <2>16. CASE RemoveStage(i) BY <2>16 DEF RemoveStage
  <2>17. CASE StepFails(i) BY <2>17 DEF StepFails
  <2>18. CASE Crash(i) BY <2>18 DEF Crash
  <2>19. QED BY <1>1, <2>1, <2>2, <2>3, <2>4, <2>5, <2>6, <2>7, <2>8, <2>9, <2>10, <2>11, <2>12, <2>13, <2>14, <2>15, <2>16, <2>17, <2>18 DEF Importer
<1>2. ASSUME NEW u \in Users, User(u) PROVE (\A j \in Importers : InOrder(j))'
  <2>1. CASE UserOpens(u) BY <2>1 DEF UserOpens
  <2>2. CASE UserLocks(u) BY <2>2 DEF UserLocks
  <2>3. CASE UserUnlocks(u) BY <2>3 DEF UserUnlocks
  <2>4. CASE UserLeaves(u) BY <2>4 DEF UserLeaves
  <2>5. QED BY <1>2, <2>1, <2>2, <2>3, <2>4 DEF User
<1>3. CASE PowerFails BY <1>3 DEF PowerFails
<1>4. QED BY <1>1, <1>2, <1>3 DEF Next

LEMMA GuardStep == ASSUME PublishInv, Next PROVE (\A j \in Importers : GuardKept(j))'
<1> USE PublishAssumption DEF PublishInv, InOrder, Early, Beyond, Done, GuardKept, Overwriting, Guarding, OthersWhole, LocksHeld, TypeOK, FlagTypes, PlaceTypes, FileTypes, ProcessTypes, Files, place, files, locks, users, import
<1>1. ASSUME NEW i \in Importers, Importer(i) PROVE (\A j \in Importers : GuardKept(j))'
  <2> USE DEF At, Goto, Fails, Release
  <2>1. CASE Start(i) BY <2>1 DEF Start
  <2>2. CASE Finalize(i) BY <2>2 DEF Finalize
  <2>3. CASE SyncFirst(i) BY <2>3 DEF SyncFirst
  <2>4. CASE FlushStage(i) BY <2>4 DEF FlushStage
  <2>5. CASE Stat(i) BY <2>5 DEF Stat
  <2>6. CASE CheckSidecars(i) BY <2>6 DEF CheckSidecars
  <2>7. CASE OpenGuard(i) BY <2>7 DEF OpenGuard
  <2>8. CASE LockDestination(i) BY <2>8 DEF LockDestination
  <2>9. CASE CheckVersion(i) BY <2>9 DEF CheckVersion
  <2>10. CASE LeaveWal(i) BY <2>10 DEF LeaveWal
  <2>11. CASE Rename(i) BY <2>11 DEF Rename
  <2>12. CASE RenameFails(i) BY <2>12 DEF RenameFails
  <2>13. CASE DropGuard(i) BY <2>13 DEF DropGuard
  <2>14. CASE Link(i) BY <2>14 DEF Link
  <2>15. CASE SyncDirectory(i) BY <2>15 DEF SyncDirectory
  <2>16. CASE RemoveStage(i) BY <2>16 DEF RemoveStage
  <2>17. CASE StepFails(i) BY <2>17 DEF StepFails
  <2>18. CASE Crash(i) BY <2>18 DEF Crash
  <2>19. QED BY <1>1, <2>1, <2>2, <2>3, <2>4, <2>5, <2>6, <2>7, <2>8, <2>9, <2>10, <2>11, <2>12, <2>13, <2>14, <2>15, <2>16, <2>17, <2>18 DEF Importer
<1>2. ASSUME NEW u \in Users, User(u) PROVE (\A j \in Importers : GuardKept(j))'
  <2>1. CASE UserOpens(u) BY <2>1 DEF UserOpens
  <2>2. CASE UserLocks(u) BY <2>2 DEF UserLocks
  <2>3. CASE UserUnlocks(u) BY <2>3 DEF UserUnlocks
  <2>4. CASE UserLeaves(u) BY <2>4 DEF UserLeaves
  <2>5. QED BY <1>2, <2>1, <2>2, <2>3, <2>4 DEF User
<1>3. CASE PowerFails BY <1>3 DEF PowerFails
<1>4. QED BY <1>1, <1>2, <1>3 DEF Next
-----------------------------------------------------------------------------
(* The invariant.                                                          *)

LEMMA InitInv == ASSUME Init PROVE PublishInv
<1> USE PublishAssumption DEF Init, Files
<1>1. TypeOK
  <2>1. FlagTypes /\ PlaceTypes
    BY DEF FlagTypes, PlaceTypes
  <2>2. FileTypes
    <3>1. PICK x \in {"velr", "alien", "nofile"} :
            content = [f \in Files |-> CASE f = "old"  -> x
                                         [] f = "made" -> "velr"
                                         [] OTHER      -> "partial"]
      OBVIOUS
    <3>2. content \in [Files -> {"velr", "alien", "nofile", "partial"}]
      BY <3>1
    <3>3. QED BY <3>2 DEF FileTypes
  <2>3. ProcessTypes
    BY DEF ProcessTypes, ImporterPlaces
  <2>4. QED BY <2>1, <2>2, <2>3 DEF TypeOK
<1>2. LocksHeld /\ OwnersExclude /\ OthersWhole
  BY DEF LocksHeld, OwnersExclude, OthersWhole
<1>3. \A i \in Importers : InOrder(i) /\ GuardKept(i)
  BY DEF InOrder, GuardKept, Early, Beyond, Done, Overwriting, Guarding
<1>4. dest \notin Importers /\ synced \notin Importers
  OBVIOUS
<1>5. QED BY <1>1, <1>2, <1>3, <1>4 DEF PublishInv

LEMMA NextInv == ASSUME PublishInv, [Next]_vars PROVE PublishInv'
<1>1. CASE Next
  <2>1. TypeOK'
    BY <1>1, FlagStep, PlaceStep, FileStep, ProcessStep DEF TypeOK
  <2>2. QED
    BY <1>1, <2>1, LockStep, ExcludeStep, OthersStep, OrderStep, GuardStep, DestStep,
       SyncedStep, Zenon DEF PublishInv
<1>2. CASE UNCHANGED vars
  BY <1>2
     DEF vars, place, files, locks, users, import, PublishInv, TypeOK, FlagTypes,
         PlaceTypes, FileTypes, ProcessTypes, LocksHeld, OwnersExclude, OthersWhole,
         InOrder, GuardKept
<1>3. QED BY <1>1, <1>2

(* The invariant of publication holds in every reachable state, for any     *)
(* number of importers and users: locks, places, reports and what is on     *)
(* disk agree (execute, publish_import).                                    *)
THEOREM PublishInvariant == Spec => []PublishInv
<1>1. Init => PublishInv
  BY InitInv
<1>2. PublishInv /\ [Next]_vars => PublishInv'
  BY NextInv
<1>3. QED BY <1>1, <1>2, PTL DEF Spec

(* The destination never names half a database, whatever crashes and also   *)
(* after a power failure: what is renamed or linked has been synced before. *)
THEOREM DestinationWhole == Spec => []NeverPartial
<1>1. PublishInv => NeverPartial
  <2> SUFFICES ASSUME PublishInv, dest # None PROVE content[dest] # "partial"
    BY DEF NeverPartial
  <2>1. CASE dest \in Importers
    BY <2>1 DEF PublishInv, InOrder
  <2>2. CASE dest \in {"old", "made"}
    BY <2>2 DEF PublishInv, OthersWhole
  <2>3. QED
    BY <2>1, <2>2 DEF PublishInv, TypeOK, PlaceTypes, Files
<1>2. QED BY <1>1, PublishInvariant, PTL

(* An import that reports an error has not become the destination, one that *)
(* reports success has, whatever becomes of the staging directory.          *)
THEOREM ReportsAreTrue == Spec => []ReportsTruth
<1>1. PublishInv => ReportsTruth
  BY DEF PublishInv, InOrder, ReportsTruth
<1>2. QED BY <1>1, PublishInvariant, PTL

(* What a single step may do to the destination while the power is on.      *)
LEMMA DestinationStep ==
  ASSUME PublishInv, Next, power', dest' # dest
  PROVE  \/ dest = None
         \/ \E i \in Importers : Rename(i)
<1>1. ASSUME NEW i \in Importers, Importer(i) PROVE dest = None \/ Rename(i)
  BY <1>1
     DEF Importer, place, files, locks, users, import, At, Goto, Fails, Release, Start,
         Finalize, SyncFirst, FlushStage, Stat, CheckSidecars, OpenGuard,
         LockDestination, CheckVersion, LeaveWal, RenameFails, DropGuard, Link,
         SyncDirectory, RemoveStage, StepFails, Crash
<1>2. ASSUME NEW u \in Users, User(u) PROVE dest = None
  BY <1>2
     DEF User, place, files, locks, users, import, UserOpens, UserLocks, UserUnlocks,
         UserLeaves
<1>3. ~PowerFails
  BY DEF PowerFails
<1>4. QED BY <1>1, <1>2, <1>3 DEF Next

(* An existing destination is replaced only by an import that was told to,  *)
(* and only if it is a Velr database, also when somebody creates a file or  *)
(* another import publishes meanwhile.                                      *)
THEOREM OverwritesOnlyAsked == Spec => ReplacesOnlyAsked
<1>1. ASSUME PublishInv, Next, power', dest' # dest, dest # None
      PROVE  dest' \in Overwrite /\ content[dest] = "velr"
  <2>1. PICK i \in Importers : Rename(i)
    BY <1>1, DestinationStep
  <2>2. power /\ pc[i] = "rename" /\ dest' = i
    BY <2>1 DEF Rename, At
  <2>3. i \in Overwrite
    BY <1>1, <2>2 DEF PublishInv, GuardKept, Overwriting
  <2>4. dest = guard[i] \/ dest \in Importers
    BY <1>1, <2>2 DEF PublishInv, GuardKept, Guarding
  <2>5. content[guard[i]] = "velr"
    BY <1>1, <2>2 DEF PublishInv, GuardKept
  <2>6. dest \in Importers => content[dest] = "velr"
    BY <1>1 DEF PublishInv, InOrder
  <2>7. QED BY <2>2, <2>3, <2>4, <2>5, <2>6
<1>2. ASSUME PublishInv, [Next]_vars
      PROVE  [power' /\ dest' # dest /\ dest # None =>
                dest' \in Overwrite /\ content[dest] = "velr"]_vars
  BY <1>1, <1>2, Zenon
<1>3. QED BY <1>2, PublishInvariant, PTL DEF Spec, ReplacesOnlyAsked

-----------------------------------------------------------------------------
(* Publish implements Destination.                                         *)

LEMMA InitMaps == ASSUME Init PROVE \E start \in {None, "old"} : Promise!DestinationInit(start)
<1>1. dest \in {None, "old"}
  BY DEF Init
<1>2. Promise!DestinationInit(dest)
  BY PublishAssumption DEF Init, Promise!DestinationInit
<1>3. QED BY <1>1, <1>2

\* A step that reports an error does nothing else the promise speaks of.
LEMMA FailMaps ==
  ASSUME PublishInv, NEW i \in Importers, Fails(i), UNCHANGED <<dest, synced, published, flushed>>,
         report[i] = "nothing", i \notin published
  PROVE  Promise!Report(i, "error")
BY DEF Fails, Promise!Report

LEMMA ImporterMaps ==
  ASSUME PublishInv, NEW i \in Importers, Importer(i)
  PROVE  Promise!DestinationNext \/ UNCHANGED Promise!destinationVars
<1> USE DEF At, Goto, Release, place, files, locks, users, import
<1>1. ASSUME pc[i] \in Early \cup Beyond PROVE report[i] = "nothing" /\ i \notin published
  BY <1>1 DEF PublishInv, InOrder
<1>2. ASSUME Promise!Report(i, "error") PROVE Promise!DestinationNext
  BY <1>2 DEF Promise!DestinationNext
<1>3. CASE Start(i)
  <2>1. CASE UNCHANGED report
    BY <1>3, <2>1 DEF Start, Promise!destinationVars
  <2>2. CASE report' = [report EXCEPT ![i] = "error"]
    <3>1. Promise!Report(i, "error")
      BY <1>1, <1>3, <2>2 DEF Start, Promise!Report, Early
    <3>2. QED BY <3>1, <1>2
  <2>3. QED BY <1>3, <2>1, <2>2 DEF Start
<1>4. CASE \/ Finalize(i) \/ OpenGuard(i) \/ DropGuard(i) \/ RemoveStage(i) \/ Crash(i)
  BY <1>4 DEF Finalize, OpenGuard, DropGuard, RemoveStage, Crash, Promise!destinationVars
<1>5. CASE SyncFirst(i)
  <2>1. Promise!Settle
    BY <1>5 DEF SyncFirst, Promise!Settle
  <2>2. QED BY <2>1 DEF Promise!DestinationNext
<1>6. CASE FlushStage(i)
  <2>1. CASE i \in flushed
    BY <1>6, <2>1 DEF FlushStage, Promise!destinationVars
  <2>2. CASE i \notin flushed
    <3>1. Promise!Complete(i)
      BY <1>6, <2>2 DEF FlushStage, Promise!Complete
    <3>2. QED BY <3>1 DEF Promise!DestinationNext
  <2>3. QED BY <2>1, <2>2
<1>7. CASE Stat(i) \/ CheckSidecars(i) \/ LockDestination(i) \/ CheckVersion(i)
             \/ LeaveWal(i) \/ RenameFails(i) \/ StepFails(i)
  <2>1. report[i] = "nothing" /\ i \notin published
    BY <1>1, <1>7
       DEF Stat, CheckSidecars, LockDestination, CheckVersion, LeaveWal, RenameFails,
           StepFails, Early, Beyond
  <2>2. UNCHANGED <<dest, synced, published, flushed>>
    BY <1>7
       DEF Stat, CheckSidecars, LockDestination, CheckVersion, LeaveWal, RenameFails,
           StepFails
  <2>3. Fails(i) \/ UNCHANGED report
    BY <1>7
       DEF Stat, CheckSidecars, LockDestination, CheckVersion, LeaveWal, RenameFails,
           StepFails
  <2>4. CASE UNCHANGED report
    BY <2>2, <2>4 DEF Promise!destinationVars
  <2>5. CASE Fails(i)
    BY <2>1, <2>2, <2>5, FailMaps, <1>2
  <2>6. QED BY <2>3, <2>4, <2>5
<1>8. CASE Rename(i)
  <2>1. i \in flushed /\ i \notin published /\ i \in Overwrite
    BY <1>8 DEF Rename, PublishInv, InOrder, GuardKept, Overwriting, Beyond
  <2>2. Promise!Publish(i)
    BY <1>8, <2>1 DEF Rename, Promise!Publish
  <2>3. QED BY <2>2 DEF Promise!DestinationNext
<1>9. CASE Link(i)
  <2>1. i \in flushed /\ i \notin published /\ report[i] = "nothing"
    BY <1>9 DEF Link, PublishInv, InOrder, Beyond
  <2>2. CASE dest = None
    <3>1. Promise!Publish(i)
      BY <1>9, <2>1, <2>2 DEF Link, Promise!Publish
    <3>2. QED BY <3>1 DEF Promise!DestinationNext
  <2>3. CASE dest # None
    <3>1. Fails(i) /\ UNCHANGED <<dest, synced, published, flushed>>
      BY <1>9, <2>3 DEF Link
    <3>2. QED BY <2>1, <3>1, FailMaps, <1>2
  <2>4. QED BY <2>2, <2>3
<1>10. CASE SyncDirectory(i)
  <2>1. i \in published /\ report[i] = "nothing"
    BY <1>10 DEF SyncDirectory, PublishInv, InOrder, Done
  <2>2. Promise!Report(i, "ok") \/ Promise!Report(i, "warned")
    BY <1>10, <2>1 DEF SyncDirectory, Promise!Report
  <2>3. QED BY <2>2 DEF Promise!DestinationNext
<1>11. QED
  BY <1>3, <1>4, <1>5, <1>6, <1>7, <1>8, <1>9, <1>10 DEF Importer

LEMMA NextMaps ==
  ASSUME PublishInv, [Next]_vars
  PROVE  [Promise!DestinationNext]_(Promise!destinationVars)
<1> USE DEF place, files, locks, users, import
<1>1. ASSUME NEW u \in Users, User(u)
      PROVE  Promise!DestinationNext \/ UNCHANGED Promise!destinationVars
  <2>1. CASE UserOpens(u)
    <3>1. CASE dest = None
      <4>1. Promise!Occupy("made")
        BY <2>1, <3>1, PublishAssumption DEF UserOpens, Promise!Occupy
      <4>2. QED BY <4>1 DEF Promise!DestinationNext
    <3>2. CASE dest # None
      BY <2>1, <3>2 DEF UserOpens, Promise!destinationVars
    <3>3. QED BY <3>1, <3>2
  <2>2. CASE UserLocks(u) \/ UserUnlocks(u) \/ UserLeaves(u)
    BY <2>2 DEF UserLocks, UserUnlocks, UserLeaves, Promise!destinationVars
  <2>3. QED BY <1>1, <2>1, <2>2 DEF User
<1>2. CASE PowerFails
  <2>1. CASE dest' = dest
    BY <1>2, <2>1 DEF PowerFails, Promise!destinationVars
  <2>2. CASE dest' = synced
    <3>1. Promise!PowerFails
      BY <1>2, <2>2 DEF PowerFails, Promise!PowerFails
    <3>2. QED BY <3>1 DEF Promise!DestinationNext
  <2>3. QED BY <1>2, <2>1, <2>2 DEF PowerFails
<1>3. CASE UNCHANGED vars
  BY <1>3 DEF vars, Promise!destinationVars
<1>4. QED BY ImporterMaps, <1>1, <1>2, <1>3 DEF Next

(* Whatever importers, users, crashes and the power do, the destination     *)
(* behaves as Destination says.                                             *)
THEOREM PublicationRefines == Spec => ImplementsDestination
<1>1. Init => \E start \in {None, "old"} : Promise!DestinationInit(start)
  BY InitMaps
<1>2. PublishInv /\ [Next]_vars => [Promise!DestinationNext]_(Promise!destinationVars)
  BY NextMaps
<1>3. QED
  BY <1>1, <1>2, PublishInvariant, PTL DEF Spec, ImplementsDestination, Promise!DestinationSpec

-----------------------------------------------------------------------------
(* While only one importer overwrites.                                     *)

\* PublishInv and AloneInv need this to be inductive together.
Lone == \A i, j \in Overwrite : i = j

\* Users of the destination never undo what a lone overwriter relies on.
LEMMA UsersStep ==
  ASSUME Lone, PublishInv, AloneInv, Next, power'
  PROVE  (\A v \in Users : UserAt(v))'
<1> USE PublishAssumption DEF UserAt, AloneAt, Locking, InOrder, Early, Beyond, Done, Overwriting, GuardKept, Lone, AloneInv, PublishInv, TypeOK, FlagTypes, PlaceTypes, FileTypes, ProcessTypes, Files, place, files, locks, users, import
<1>1. ASSUME NEW i \in Importers, Importer(i) PROVE (\A v \in Users : UserAt(v))'
  <2> USE DEF At, Goto, Fails, Release
  <2>1. CASE Start(i) BY <2>1 DEF Start
  <2>2. CASE Finalize(i) BY <2>2 DEF Finalize
  <2>3. CASE SyncFirst(i) BY <2>3 DEF SyncFirst
  <2>4. CASE FlushStage(i) BY <2>4 DEF FlushStage
  <2>5. CASE Stat(i) BY <2>5 DEF Stat
  <2>6. CASE CheckSidecars(i) BY <2>6 DEF CheckSidecars
  <2>7. CASE OpenGuard(i) BY <2>7 DEF OpenGuard
  <2>8. CASE LockDestination(i) BY <2>8 DEF LockDestination
  <2>9. CASE CheckVersion(i) BY <2>9 DEF CheckVersion
  <2>10. CASE LeaveWal(i) BY <2>10 DEF LeaveWal
  <2>11. CASE Rename(i) BY <2>11 DEF Rename
  <2>12. CASE RenameFails(i) BY <2>12 DEF RenameFails
  <2>13. CASE DropGuard(i) BY <2>13 DEF DropGuard
  <2>14. CASE Link(i) BY <2>14 DEF Link
  <2>15. CASE SyncDirectory(i) BY <2>15 DEF SyncDirectory
  <2>16. CASE RemoveStage(i) BY <2>16 DEF RemoveStage
  <2>17. CASE StepFails(i) BY <2>17 DEF StepFails
  <2>18. CASE Crash(i) BY <2>18 DEF Crash
  <2>19. QED BY <1>1, <2>1, <2>2, <2>3, <2>4, <2>5, <2>6, <2>7, <2>8, <2>9, <2>10, <2>11, <2>12, <2>13, <2>14, <2>15, <2>16, <2>17, <2>18 DEF Importer
<1>2. ASSUME NEW u \in Users, User(u) PROVE (\A v \in Users : UserAt(v))'
  <2>1. CASE UserOpens(u) BY <2>1 DEF UserOpens
  <2>2. CASE UserLocks(u) BY <2>2 DEF UserLocks
  <2>3. CASE UserUnlocks(u) BY <2>3 DEF UserUnlocks
  <2>4. CASE UserLeaves(u) BY <2>4 DEF UserLeaves
  <2>5. QED BY <1>2, <2>1, <2>2, <2>3, <2>4 DEF User
<1>3. CASE PowerFails BY <1>3 DEF PowerFails
<1>4. QED BY <1>1, <1>2, <1>3 DEF Next

LEMMA AloneStep ==
  ASSUME Lone, PublishInv, AloneInv, Next, power'
  PROVE  (\A j \in Overwrite : AloneAt(j))'
<1> USE PublishAssumption DEF UserAt, AloneAt, Locking, InOrder, Early, Beyond, Done, Overwriting, Guarding, GuardKept, OwnersExclude, LocksHeld, Lone, AloneInv, PublishInv, TypeOK, FlagTypes, PlaceTypes, FileTypes, ProcessTypes, Files, place, files, locks, users, import
<1>1. ASSUME NEW i \in Importers, Importer(i) PROVE (\A j \in Overwrite : AloneAt(j))'
  <2> USE DEF At, Goto, Fails, Release
  <2>1. CASE Start(i) BY <2>1 DEF Start
  <2>2. CASE Finalize(i) BY <2>2 DEF Finalize
  <2>3. CASE SyncFirst(i) BY <2>3 DEF SyncFirst
  <2>4. CASE FlushStage(i) BY <2>4 DEF FlushStage
  <2>5. CASE Stat(i) BY <2>5 DEF Stat
  <2>6. CASE CheckSidecars(i) BY <2>6 DEF CheckSidecars
  <2>7. CASE OpenGuard(i) BY <2>7 DEF OpenGuard
  <2>8. CASE LockDestination(i)
    <3>1. pc[i] = "lock" /\ guard[i] \in Files /\ i \in Overwrite
      BY <2>8 DEF LockDestination
    <3>2. CASE owner[guard[i]] = None /\ locked[guard[i]] = {}
      <4>1. /\ owner' = [owner EXCEPT ![guard[i]] = i]
            /\ sidecar' = (mode[guard[i]] = "wal")
            /\ pc' = [pc EXCEPT ![i] = "check"]
            /\ UNCHANGED <<dest, mode, guard>>
        BY <2>8, <3>2 DEF LockDestination
      <4>2. owner'[guard[i]] = i /\ pc'[i] = "check"
        BY <3>1, <4>1
      <4>3. sidecar' <=> mode[guard[i]] = "wal"
        BY <4>1
      <4>4. dest = guard[i]
        BY <3>1, <2>8 DEF LockDestination
      <4>5. SUFFICES ASSUME NEW j \in Overwrite PROVE AloneAt(j)'
        OBVIOUS
      <4>6. j = i
        BY <3>1
      <4>7. QED BY <4>1, <4>2, <4>3, <4>4, <4>6
    <3>3. CASE ~(owner[guard[i]] = None /\ locked[guard[i]] = {})
      <4>1. pc'[i] \notin Locking \cup {"lock"}
        BY <2>8, <3>1, <3>3 DEF LockDestination
      <4>2. QED BY <3>1, <4>1
    <3>4. QED BY <3>2, <3>3
  <2>9. CASE CheckVersion(i) BY <2>9 DEF CheckVersion
  <2>10. CASE LeaveWal(i) BY <2>10 DEF LeaveWal
  <2>11. CASE Rename(i) BY <2>11 DEF Rename
  <2>12. CASE RenameFails(i) BY <2>12 DEF RenameFails
  <2>13. CASE DropGuard(i) BY <2>13 DEF DropGuard
  <2>14. CASE Link(i) BY <2>14 DEF Link
  <2>15. CASE SyncDirectory(i) BY <2>15 DEF SyncDirectory
  <2>16. CASE RemoveStage(i) BY <2>16 DEF RemoveStage
  <2>17. CASE StepFails(i) BY <2>17 DEF StepFails
  <2>18. CASE Crash(i) BY <2>18 DEF Crash
  <2>19. QED BY <1>1, <2>1, <2>2, <2>3, <2>4, <2>5, <2>6, <2>7, <2>8, <2>9, <2>10, <2>11, <2>12, <2>13, <2>14, <2>15, <2>16, <2>17, <2>18 DEF Importer
<1>2. ASSUME NEW u \in Users, User(u) PROVE (\A j \in Overwrite : AloneAt(j))'
  <2>1. CASE UserOpens(u) BY <2>1 DEF UserOpens
  <2>2. CASE UserLocks(u) BY <2>2 DEF UserLocks
  <2>3. CASE UserUnlocks(u)
    \* Nobody is in a transaction of a file that is locked exclusively.
    <3>1. power /\ upc[u] = "busy" /\ u \in locked[uses[u]] /\ uses[u] \in Files
      BY <2>3 DEF UserUnlocks
    <3>2. ASSUME NEW j \in Overwrite, pc[j] \in Locking PROVE FALSE
      <4>1. Overwrite \cap published = {}
        BY <3>2
      <4>2. uses[u] = guard[j] /\ owner[guard[j]] = j
        BY <3>1, <3>2, <4>1
      <4>3. QED BY <3>1, <4>2
    <3>3. UNCHANGED <<dest, pc, guard, owner, mode>>
      BY <2>3 DEF UserUnlocks
    <3>4. QED BY <3>1, <3>2, <3>3
  <2>4. CASE UserLeaves(u) BY <2>4 DEF UserLeaves
  <2>5. QED BY <1>2, <2>1, <2>2, <2>3, <2>4 DEF User
<1>3. CASE PowerFails BY <1>3 DEF PowerFails
<1>4. QED BY <1>1, <1>2, <1>3 DEF Next

\* AloneInv is inductive beside PublishInv.
LEMMA InitAlone == ASSUME Init PROVE AloneInv
<1>1. ASSUME NEW u \in Users PROVE UserAt(u)
  <2>1. upc[u] = "closed" /\ uses[u] = None
    BY DEF Init
  <2>2. QED BY <2>1 DEF UserAt
<1>2. ASSUME NEW i \in Overwrite PROVE AloneAt(i)
  <2>1. pc[i] = "start"
    BY PublishAssumption DEF Init
  <2>2. QED BY <2>1 DEF AloneAt, Locking
<1>3. QED BY <1>1, <1>2 DEF AloneInv

LEMMA NextAlone ==
  ASSUME Lone, PublishInv, AloneInv, [Next]_vars
  PROVE  AloneInv'
<1>1. CASE Next
  BY <1>1, UsersStep, AloneStep DEF AloneInv
<1>2. CASE UNCHANGED vars
  BY <1>2 DEF vars, place, files, locks, users, import, AloneInv, UserAt, AloneAt
<1>3. QED BY <1>1, <1>2

LEMMA AloneInvariant == Lone => (Spec => [](PublishInv /\ AloneInv))
<1> SUFFICES ASSUME Lone PROVE Spec => [](PublishInv /\ AloneInv)
  OBVIOUS
<1>1. Init => PublishInv /\ AloneInv
  BY InitInv, InitAlone
<1>2. PublishInv /\ AloneInv /\ [Next]_vars => (PublishInv /\ AloneInv)'
  BY NextInv, NextAlone
<1>3. QED BY <1>1, <1>2, PTL DEF Spec

(* While only one importer overwrites, the rename never leaves a journal of  *)
(* the replaced database beside the new one, whatever other importers and    *)
(* any number of users of the destination do meanwhile (LeaveWal, Rename).   *)
THEOREM NoJournalLeft == Lone => (Spec => NoStaleJournal)
<1> SUFFICES ASSUME Lone PROVE Spec => NoStaleJournal
  OBVIOUS
<1> DEFINE A == \A i \in Importers : pc[i] = "rename" /\ dest' = i /\ dest # i => ~sidecar
<1>1. ASSUME PublishInv, AloneInv, [Next]_vars PROVE [A]_vars
  <2> SUFFICES ASSUME Next, NEW i \in Importers, pc[i] = "rename", dest' = i, dest # i
               PROVE  ~sidecar
    BY <1>1
  <2>1. i \in Overwrite /\ i \notin published
    BY <1>1 DEF PublishInv, GuardKept, Overwriting, InOrder, Beyond
  <2>2. power
    BY <1>1 DEF Next, Importer, User, PowerFails, At, Start, Finalize, SyncFirst, FlushStage,
                Stat, CheckSidecars, OpenGuard, LockDestination, CheckVersion, LeaveWal, Rename,
                RenameFails, DropGuard, Link, SyncDirectory, RemoveStage, StepFails, Crash,
                UserOpens, UserLocks, UserUnlocks, UserLeaves
  <2>3. QED BY <1>1, <2>1, <2>2 DEF AloneInv, AloneAt
<1>2. QED BY <1>1, AloneInvariant, PTL DEF Spec, NoStaleJournal

(* While only one importer overwrites, it replaces no file that another      *)
(* process has locked, although it looks for sidecars, opens and locks the   *)
(* file in separate steps (publish_import, 79-92).                           *)
THEOREM UnusedWhenReplaced == Lone => (Spec => ReplacesOnlyUnused)
<1> SUFFICES ASSUME Lone PROVE Spec => ReplacesOnlyUnused
  OBVIOUS
<1>1. ASSUME PublishInv, AloneInv, Next, power', dest' # dest, dest # None
      PROVE  locked[dest] = {}
  <2>1. PICK i \in Importers : Rename(i)
    BY <1>1, DestinationStep
  <2>2. power /\ pc[i] = "rename"
    BY <2>1 DEF Rename, At
  <2>3. i \in Overwrite
    BY <1>1, <2>2 DEF PublishInv, GuardKept, Overwriting
  <2>4. dest = guard[i] /\ owner[guard[i]] = i /\ dest \in Files
    BY <1>1, <2>2, <2>3 DEF AloneInv, AloneAt, Locking, PublishInv, TypeOK, PlaceTypes
  <2>5. QED BY <1>1, <2>4, PublishAssumption DEF PublishInv, OwnersExclude
<1>2. ASSUME PublishInv, AloneInv, [Next]_vars
      PROVE  [power' /\ dest' # dest /\ dest # None => locked[dest] = {}]_vars
  BY <1>1, <1>2, Zenon
<1>3. QED BY <1>2, AloneInvariant, PTL DEF Spec, ReplacesOnlyUnused

=============================================================================
