--------------------------- MODULE StartupProofs ---------------------------
(***************************************************************************)
(* PodStartup is type correct, and its start-up checks keep the backup     *)
(* chain, for any number of pods, databases, events and failures.          *)
(***************************************************************************)
EXTENDS PodStartup, TLAPS

USE PodStartupAssumption

LEMMA InitTypeOK == Init => TypeOK
<1> SUFFICES ASSUME Init PROVE TypeOK
  OBVIOUS
<1>1. pod \in [Pods -> Steps]
  BY DEF Init, Steps
<1>2. file \in Databases \cup {None} /\ s3 \in Databases \cup {None} /\ stateDir \in BOOLEAN
  BY Zenon DEF Init
<1>3. corrupt \in BOOLEAN /\ marker \in BOOLEAN /\ tried \in BOOLEAN /\ skip \in BOOLEAN /\ autoRestore \in BOOLEAN
  BY Zenon DEF Init
<1>4. lapses \subseteq Lapses
  BY DEF Init
<1>7. \A p \in Pods : pod[p] = "quickCheck" => file # None
  BY DEF Init
<1>6. events \in 0..MaxEvents /\ faults \in 0..MaxFaults
  BY DEF Init
<1>5. config \in {"full", "paused"}
  BY DEF Init
<1> QED
  BY <1>1, <1>2, <1>3, <1>4, <1>5, <1>6, <1>7, Zenon DEF TypeOK

(* The steps of one pod, the events and the clean-up of the annotation each *)
(* keep every variable in its type.                                         *)
LEMMA NextTypeOK == TypeOK /\ [Next]_vars => TypeOK'
<1> SUFFICES ASSUME TypeOK, [Next]_vars PROVE TypeOK'
  OBVIOUS
<1> USE DEF TypeOK, Steps, Passed, Lapses, Passing, Goto, Happens, Fails, volumeVars, objectVars
<1>1. ASSUME NEW p \in Pods, PodStep(p) PROVE TypeOK'
  <2>1. CASE CreatePod(p)
    BY <2>1 DEF CreatePod, Gate, AfterGate
  <2>2. CASE ArchiveCheck(p)
    BY <2>2 DEF ArchiveCheck, AfterGate
  <2>3. CASE ArchiveProbe(p)
    <3>1. faults' \in 0..MaxFaults
      BY <2>3 DEF ArchiveProbe, RestoreErrors, RestoreWorks
    <3>2. pod' \in [Pods -> Steps]
      BY <2>3 DEF ArchiveProbe, AfterGate
    <3>9. (\A q \in Pods : pod[q] = "quickCheck" => file # None)'
      BY <2>3 DEF ArchiveProbe, AfterGate
    <3> QED
      BY <3>9, <3>1, <3>2, <2>3 DEF ArchiveProbe
  <2>4. CASE AutoRestoreTest(p)
    BY <2>4 DEF AutoRestoreTest, AfterGate
  <2>5. CASE AutoRestoreFresh(p)
    BY <2>5 DEF AutoRestoreFresh, RestoreErrors, RestoreWorks, AfterGate
  <2>6. CASE AutoRestoreRun(p)
    <3>1. file' \in Databases \cup {None} /\ corrupt' \in BOOLEAN
      BY <2>6, Zenon DEF AutoRestoreRun
    <3>2. faults' \in 0..MaxFaults
      BY <2>6 DEF AutoRestoreRun
    <3>3. pod' \in [Pods -> Steps]
      BY <2>6 DEF AutoRestoreRun
    <3>4. UNCHANGED <<stateDir, marker, tried, s3, skip, config, autoRestore, lapses, events>>
      BY <2>6 DEF AutoRestoreRun
    <3>9. (\A q \in Pods : pod[q] = "quickCheck" => file # None)'
      BY <2>6 DEF AutoRestoreRun
    <3> QED
      BY <3>9, <3>1, <3>2, <3>3, <3>4, Zenon
  <2>7. CASE QuickCheck(p)
    <3>1. pod' \in [Pods -> Steps]
      BY <2>7 DEF QuickCheck, AfterGate
    <3>2. lapses' \subseteq Lapses
      BY <2>7 DEF QuickCheck
    <3>3. UNCHANGED <<file, corrupt, stateDir, marker, tried, s3, skip, config, autoRestore,
                      events, faults>>
      BY <2>7 DEF QuickCheck
    <3>9. (\A q \in Pods : pod[q] = "quickCheck" => file # None)'
      BY <2>7 DEF QuickCheck, AfterGate
    <3> QED
      BY <3>9, <3>1, <3>2, <3>3, Zenon
  <2>8. CASE RetryGate(p)
    BY <2>8 DEF RetryGate
  <2>9. CASE DbInit(p)
    BY <2>9 DEF DbInit
  <2>10. CASE DbInitApply(p)
    BY <2>10 DEF DbInitApply, Creates, Fresh
  <2>11. CASE DbInitTouch(p)
    BY <2>11 DEF DbInitTouch
  <2>12. CASE AppCreates(p)
    BY <2>12 DEF AppCreates, Creates, Fresh
  <2>15. CASE Start(p)
    BY <2>15 DEF Start
  <2>16. CASE AutoRestoreExists(p)
    BY <2>16 DEF AutoRestoreExists
  <2>13. CASE MakeStateDir(p)
    BY <2>13 DEF MakeStateDir
  <2>14. CASE Upload(p)
    BY <2>14 DEF Upload
  <2> QED
    BY <1>1, <2>1, <2>2, <2>3, <2>4, <2>5, <2>6, <2>7, <2>8, <2>9, <2>10,
       <2>11, <2>12, <2>13, <2>14, <2>15, <2>16 DEF PodStep
<1>2. ASSUME NEW p \in Pods, KillInit(p) PROVE TypeOK'
  BY <1>2 DEF KillInit
<1>3. ASSUME NEW p \in Pods, Evict(p) PROVE TypeOK'
  BY <1>3 DEF Evict
<1>4. CASE ClearSkip
  BY <1>4 DEF ClearSkip
<1>5. CASE Environment
  <2>1. CASE UserSkip \/ UserPause \/ UserAutoRestore
    <3>1. skip' \in BOOLEAN /\ autoRestore' \in BOOLEAN
      BY <2>1, Zenon DEF UserSkip, UserPause, UserAutoRestore
    <3>2. events' \in 0..MaxEvents /\ config' \in {"full", "paused"}
      BY <2>1 DEF UserSkip, UserPause, UserAutoRestore
    <3>3. UNCHANGED <<file, corrupt, stateDir, marker, tried, s3, pod, lapses, faults>>
      BY <2>1 DEF UserSkip, UserPause, UserAutoRestore
    <3> QED
      BY <3>1, <3>2, <3>3, Zenon
  <2>2. CASE Restore \/ RemoveFile
    <3>1. file' \in Databases \cup {None} /\ corrupt' \in BOOLEAN
          /\ skip' \in BOOLEAN /\ autoRestore' \in BOOLEAN
      BY <2>2, Zenon DEF Restore, RemoveFile
    <3>2. events' \in 0..MaxEvents
      BY <2>2 DEF Restore, RemoveFile
    <3>4. lapses' \in {{}, lapses, lapses \cup {"stateDir"}}
      BY <2>2, Zenon DEF Restore, RemoveFile
    <3>5. lapses' \subseteq Lapses
      BY <3>4
    <3>3. UNCHANGED <<stateDir, marker, tried, s3, config, pod, faults>>
      BY <2>2 DEF Restore, RemoveFile
    <3>9. (\A q \in Pods : pod[q] = "quickCheck" => file # None)'
      BY <2>2 DEF Restore, RemoveFile, NoPods
    <3> QED
      BY <3>9, <3>1, <3>2, <3>3, <3>5, Zenon
  <2>3. CASE WipeVolume
    <3>1. file' \in Databases \cup {None} /\ corrupt' \in BOOLEAN
          /\ stateDir' \in BOOLEAN /\ marker' \in BOOLEAN /\ tried' \in BOOLEAN
      BY <2>3, Zenon DEF WipeVolume
    <3>2. events' \in 0..MaxEvents /\ lapses' = {}
      BY <2>3 DEF WipeVolume
    <3>3. UNCHANGED <<s3, skip, config, autoRestore, pod, faults>>
      BY <2>3 DEF WipeVolume
    <3>4. lapses' \subseteq Lapses
      BY <3>2
    <3>9. (\A q \in Pods : pod[q] = "quickCheck" => file # None)'
      BY <2>3 DEF WipeVolume, NoPods
    <3> QED
      BY <3>9, <3>1, <3>2, <3>3, <3>4, Zenon
  <2>4. CASE Recreate
    <3>1. file' \in Databases \cup {None}
      BY <2>4, Zenon DEF Recreate, Creates, Fresh
    <3>2. events' \in 0..MaxEvents
      BY <2>4 DEF Recreate
    <3>3. UNCHANGED <<corrupt, stateDir, marker, tried, s3, skip, config, autoRestore,
                      pod, lapses, faults>>
      BY <2>4 DEF Recreate
    <3>9. (\A q \in Pods : pod[q] = "quickCheck" => file # None)'
      BY <2>4 DEF Recreate, NoPods
    <3> QED
      BY <3>9, <3>1, <3>2, <3>3, Zenon
  <2> QED
    BY <1>5, <2>1, <2>2, <2>3, <2>4 DEF Environment
<1>6. CASE UNCHANGED vars
  BY <1>6 DEF vars
<1> QED
  BY <1>1, <1>2, <1>3, <1>4, <1>5, <1>6 DEF Next

(* Every variable of the start-up model keeps its type, under any events    *)
(* and failures.                                                            *)
THEOREM StartupTypeOK == Spec => []TypeOK
  BY InitTypeOK, NextTypeOK, PTL DEF Spec

-----------------------------------------------------------------------------
LEMMA InitChainInv == Init => ChainInv
  BY DEF Init, ChainInv, ChainSafe, HoldsBackup, Passed

(* Creating a file keeps ChainSafe: where there was none, either there is   *)
(* no backup or there was a lapse.                                          *)
LEMMA CreatesKeepsSafe ==
  ASSUME TypeOK, ChainSafe, Creates, UNCHANGED <<s3, lapses>>
  PROVE  ChainSafe' /\ file' # None
  BY DEF TypeOK, ChainSafe, HoldsBackup, Creates, Fresh

(* ChainInv is inductive.                                                   *)
LEMMA NextChainInv == TypeOK /\ ChainInv /\ [Next]_vars => ChainInv'
<1> SUFFICES ASSUME TypeOK, ChainInv, [Next]_vars PROVE ChainInv'
  OBVIOUS
<1> USE DEF TypeOK, Passed, Passing, Goto, volumeVars, objectVars
<1>1. ASSUME NEW p \in Pods, PodStep(p) PROVE ChainInv'
  <2>1. CASE CreatePod(p)
    BY <2>1 DEF CreatePod, Gate, AfterGate, ChainInv, ChainSafe, HoldsBackup
  <2>2. CASE ArchiveCheck(p)
    BY <2>2 DEF ArchiveCheck, AfterGate, ChainInv, ChainSafe, HoldsBackup
  <2>3. CASE ArchiveProbe(p)
    BY <2>3 DEF ArchiveProbe, RestoreErrors, RestoreWorks, AfterGate, ChainInv,
                ChainSafe, HoldsBackup
  <2>4. CASE AutoRestoreTest(p)
    BY <2>4 DEF AutoRestoreTest, AfterGate, ChainInv, ChainSafe, HoldsBackup
  <2>13. CASE AutoRestoreFresh(p)
    BY <2>13 DEF AutoRestoreFresh, AfterGate, ChainInv, ChainSafe, HoldsBackup
  <2>14. CASE AutoRestoreRun(p)
    BY <2>14 DEF AutoRestoreRun, ChainInv, ChainSafe, HoldsBackup
  <2>15. CASE AutoRestoreExists(p)
    BY <2>15 DEF AutoRestoreExists, ChainInv, ChainSafe, HoldsBackup
  <2>16. CASE QuickCheck(p)
    BY <2>16 DEF QuickCheck, AfterGate, ChainInv, ChainSafe, HoldsBackup
  <2>5. CASE RetryGate(p)
    BY <2>5 DEF RetryGate, ChainInv, ChainSafe, HoldsBackup
  <2>6. CASE DbInit(p)
    BY <2>6 DEF DbInit, ChainInv, ChainSafe, HoldsBackup
  <2>7. CASE DbInitApply(p)
    <3>1. ChainSafe
      BY <2>7 DEF DbInitApply, ChainInv
    <3>2. CASE Creates
      BY <2>7, <3>1, <3>2, CreatesKeepsSafe DEF DbInitApply, ChainInv
    <3>3. CASE UNCHANGED file
      BY <2>7, <3>1, <3>3 DEF DbInitApply, ChainInv, ChainSafe, HoldsBackup
    <3> QED
      BY <3>2, <3>3, <2>7 DEF DbInitApply
  <2>8. CASE DbInitTouch(p)
    BY <2>8 DEF DbInitTouch, ChainInv, ChainSafe, HoldsBackup
  <2>9. CASE AppCreates(p)
    <3>1. ChainSafe
      BY <2>9 DEF AppCreates, Up, ChainInv
    <3>2. ChainSafe' /\ file' # None
      BY <2>9, <3>1, CreatesKeepsSafe DEF AppCreates
    <3> QED
      BY <3>2, <2>9 DEF AppCreates, ChainInv
  <2>10. CASE MakeStateDir(p)
    BY <2>10 DEF MakeStateDir, ChainInv, ChainSafe, HoldsBackup
  <2>11. CASE Upload(p)
    BY <2>11 DEF Upload, ChainInv, ChainSafe, HoldsBackup
  <2>12. CASE Start(p)
    BY <2>12 DEF Start, ChainInv, ChainSafe, HoldsBackup
  <2> QED
    BY <1>1, <2>1, <2>2, <2>3, <2>4, <2>5, <2>6, <2>7, <2>8, <2>9, <2>10, <2>11,
       <2>12, <2>13, <2>14, <2>15, <2>16 DEF PodStep
<1>2. ASSUME NEW p \in Pods, KillInit(p) PROVE ChainInv'
  BY <1>2 DEF KillInit, ChainInv, ChainSafe, HoldsBackup
<1>3. ASSUME NEW p \in Pods, Evict(p) PROVE ChainInv'
  BY <1>3 DEF Evict, ChainInv, ChainSafe, HoldsBackup
<1>4. CASE ClearSkip
  BY <1>4 DEF ClearSkip, ChainInv, ChainSafe, HoldsBackup
<1>5. CASE Environment
  <2>1. CASE UserSkip \/ UserPause \/ UserAutoRestore
    BY <2>1 DEF UserSkip, UserPause, UserAutoRestore, ChainInv, ChainSafe, HoldsBackup
  <2>2. CASE Restore
    BY <2>2 DEF Restore, NoPods, ChainInv, ChainSafe, HoldsBackup
  <2>3. CASE WipeVolume
    BY <2>3 DEF WipeVolume, NoPods, ChainInv, ChainSafe, HoldsBackup
  <2>4. CASE RemoveFile
    BY <2>4 DEF RemoveFile, NoPods, ChainInv, ChainSafe, HoldsBackup
  <2>5. CASE Recreate
    BY <2>5 DEF Recreate, NoPods, Creates, Fresh, ChainInv, ChainSafe, HoldsBackup
  <2> QED
    BY <1>5, <2>1, <2>2, <2>3, <2>4, <2>5 DEF Environment
<1>6. CASE UNCHANGED vars
  BY <1>6 DEF vars, ChainInv, ChainSafe, HoldsBackup
<1> QED
  BY <1>1, <1>2, <1>3, <1>4, <1>5, <1>6 DEF Next

(* A pod that got past its archive check, and a database that litestream's  *)
(* state directory vouches for, belong to the S3 replica or to none.        *)
THEOREM ChainInvariant == Spec => []ChainInv
  BY InitChainInv, NextChainInv, StartupTypeOK, PTL DEF Spec

(* Only an upload moves the S3 replica, and it comes from a pod past its    *)
(* check.                                                                   *)
LEMMA StepKeepsChain ==
  ChainInv /\ TypeOK /\ [Next]_vars => [s3 # None /\ s3' # s3 => lapses # {}]_vars
<1> SUFFICES ASSUME ChainInv, TypeOK, Next, s3 # None, s3' # s3 PROVE lapses # {}
  BY DEF vars
<1>1. PICK p \in Pods : Upload(p)
  BY DEF Next, PodStep, Environment, CreatePod, ArchiveCheck, ArchiveProbe,
         AutoRestoreTest, AutoRestoreFresh, AutoRestoreRun, AutoRestoreExists,
         QuickCheck, RetryGate,
         KillInit, DbInit, DbInitApply, DbInitTouch, Start, AppCreates, MakeStateDir,
         ClearSkip, UserSkip, UserPause, UserAutoRestore, Restore, Evict, WipeVolume, RemoveFile,
         Recreate
<1> QED
  BY <1>1 DEF Upload, ChainInv, ChainSafe, HoldsBackup, Passed

(* The S3 replica of a database is never continued with another database    *)
(* unless a pod was let past its checks on a volume that did not hold it.   *)
THEOREM BackupChain == Spec => BackupChainKept
  BY ChainInvariant, StepKeepsChain, StartupTypeOK, PTL DEF Spec, BackupChainKept

-----------------------------------------------------------------------------
(* The init SQL. *)

(* The marker, and every place behind the init-SQL container, stand for SQL *)
(* that was tried on this volume.                                           *)
SQLInv ==
  /\ marker => tried
  /\ \A p \in Pods : pod[p] = "touch" => tried
  /\ InitSQL => \A p \in Pods : pod[p] \in {"start", "running", "idle"} => tried

(* SQLInv is inductive: the marker is touched after the SQL, only a wipe    *)
(* resets either, and it needs the pods gone.                               *)
LEMMA NextSQLInv == TypeOK /\ SQLInv /\ [Next]_vars => SQLInv'
<1> SUFFICES ASSUME TypeOK, SQLInv, [Next]_vars PROVE SQLInv'
  OBVIOUS
<1> USE DEF TypeOK, SQLInv, Goto, volumeVars, objectVars, AfterGate
<1>1. ASSUME NEW p \in Pods, PodStep(p) PROVE SQLInv'
  <2>1. CASE CreatePod(p)
    BY <2>1 DEF CreatePod, Gate
  <2>2. CASE ArchiveCheck(p) \/ ArchiveProbe(p)
    BY <2>2 DEF ArchiveCheck, ArchiveProbe
  <2>3. CASE AutoRestoreTest(p) \/ AutoRestoreFresh(p)
    BY <2>3 DEF AutoRestoreTest, AutoRestoreFresh
  <2>4. CASE AutoRestoreRun(p) \/ AutoRestoreExists(p) \/ QuickCheck(p) \/ RetryGate(p)
    BY <2>4 DEF AutoRestoreRun, AutoRestoreExists, QuickCheck, RetryGate
  <2>5. CASE DbInit(p)
    BY <2>5 DEF DbInit
  <2>6. CASE DbInitApply(p)
    <3>1. tried'
      BY <2>6 DEF DbInitApply
    <3> QED
      BY <3>1
  <2>7. CASE DbInitTouch(p)
    BY <2>7 DEF DbInitTouch
  <2>8. CASE Start(p)
    BY <2>8 DEF Start
  <2>9. CASE AppCreates(p) \/ MakeStateDir(p) \/ Upload(p)
    BY <2>9 DEF AppCreates, MakeStateDir, Upload
  <2> QED
    BY <1>1, <2>1, <2>2, <2>3, <2>4, <2>5, <2>6, <2>7, <2>8, <2>9 DEF PodStep
<1>2. ASSUME NEW p \in Pods, KillInit(p) \/ Evict(p) PROVE SQLInv'
  BY <1>2 DEF KillInit, Evict
<1>3. CASE ClearSkip
  BY <1>3 DEF ClearSkip
<1>4. CASE Environment
  BY <1>4 DEF Environment, UserSkip, UserPause, UserAutoRestore, Restore, WipeVolume,
              RemoveFile, Recreate, NoPods
<1>5. CASE UNCHANGED vars
  BY <1>5 DEF vars
<1> QED
  BY <1>1, <1>2, <1>3, <1>4, <1>5 DEF Next

(* No application starts before the init SQL was tried on its volume,       *)
(* whatever is killed between sqlite3 and touch, and however many pods run  *)
(* the init container beside each other.                                    *)
THEOREM InitSQLAppliedHolds == Spec => []InitSQLApplied
<1>1. Init => SQLInv
  BY DEF Init, SQLInv
<1>2. SQLInv => InitSQLApplied
  BY DEF SQLInv, InitSQLApplied, Up
<1> QED
  BY <1>1, <1>2, NextSQLInv, StartupTypeOK, PTL DEF Spec

-----------------------------------------------------------------------------
(* Where a database may be made anew. *)

Excused == s3 = None \/ lapses \cap {"skipped", "fresh"} # {}

(* A pod past its checks that finds no database has an excuse.              *)
FileInv == \A p \in Pods : pod[p] \in Passed /\ file = None => Excused

(* FileInv is inductive: the database of a running pod is never removed.    *)
LEMMA NextFileInv == TypeOK /\ FileInv /\ [Next]_vars => FileInv'
<1> SUFFICES ASSUME TypeOK, FileInv, [Next]_vars PROVE FileInv'
  OBVIOUS
<1> USE DEF TypeOK, FileInv, Excused, Passed, Goto, Passing, HoldsBackup, volumeVars,
            objectVars
<1>1. ASSUME NEW p \in Pods, PodStep(p) PROVE FileInv'
  <2>1. CASE CreatePod(p)
    BY <2>1 DEF CreatePod, Gate, AfterGate
  <2>2. CASE ArchiveCheck(p)
    BY <2>2 DEF ArchiveCheck, AfterGate
  <2>3. CASE ArchiveProbe(p)
    BY <2>3 DEF ArchiveProbe, AfterGate
  <2>4. CASE AutoRestoreTest(p)
    BY <2>4 DEF AutoRestoreTest, AfterGate
  <2>5. CASE AutoRestoreFresh(p)
    BY <2>5 DEF AutoRestoreFresh, AfterGate
  <2>6. CASE AutoRestoreRun(p) \/ AutoRestoreExists(p)
    BY <2>6 DEF AutoRestoreRun, AutoRestoreExists
  <2>7. CASE QuickCheck(p)
    BY <2>7 DEF QuickCheck, AfterGate
  <2>8. CASE RetryGate(p)
    BY <2>8 DEF RetryGate
  <2>9. CASE DbInit(p) \/ DbInitTouch(p) \/ Start(p)
    BY <2>9 DEF DbInit, DbInitTouch, Start
  <2>10. CASE DbInitApply(p) \/ AppCreates(p)
    BY <2>10 DEF DbInitApply, AppCreates, Creates, Fresh
  <2>11. CASE MakeStateDir(p) \/ Upload(p)
    BY <2>11 DEF MakeStateDir, Upload
  <2> QED
    BY <1>1, <2>1, <2>2, <2>3, <2>4, <2>5, <2>6, <2>7, <2>8, <2>9, <2>10, <2>11
    DEF PodStep
<1>2. ASSUME NEW p \in Pods, KillInit(p) \/ Evict(p) PROVE FileInv'
  BY <1>2 DEF KillInit, Evict
<1>3. CASE ClearSkip
  BY <1>3 DEF ClearSkip
<1>4. CASE UserSkip \/ UserPause \/ UserAutoRestore
  BY <1>4 DEF UserSkip, UserPause, UserAutoRestore
<1>5. CASE Restore \/ WipeVolume \/ RemoveFile \/ Recreate
  BY <1>5 DEF Restore, WipeVolume, RemoveFile, Recreate, NoPods
<1>6. CASE UNCHANGED vars
  BY <1>6 DEF vars
<1> QED
  BY <1>1, <1>2, <1>3, <1>4, <1>5, <1>6 DEF Next, Environment

(* What may change the database file while there are pods.                  *)
LEMMA FileWriters ==
  ASSUME Next, ~NoPods, file' # file
  PROVE  \E p \in Pods : AutoRestoreRun(p) \/ DbInitApply(p) \/ AppCreates(p)
  BY DEF Next, PodStep, Environment, CreatePod, ArchiveCheck, ArchiveProbe,
         AutoRestoreTest, AutoRestoreFresh, AutoRestoreExists, QuickCheck, RetryGate,
         KillInit, DbInit, DbInitTouch, Start, MakeStateDir, Upload, ClearSkip, UserSkip,
         UserPause, UserAutoRestore, Restore, Evict, WipeVolume, RemoveFile, Recreate,
         volumeVars

(* No pod makes a new database in the place of a backed up one unless its   *)
(* check was skipped or its restore failed: the gate's decision, taken many *)
(* commands earlier, still holds when the file is made, whatever the other  *)
(* pods on the volume have done since.                                      *)
THEOREM AutoRestoredHolds == Spec => AutoRestored
<1>1. Init => FileInv
  BY DEF Init, FileInv, Passed
<1>2. TypeOK /\ FileInv /\ [Next]_vars =>
        [~NoPods /\ file = None /\ file' # None =>
           s3 \in {None, file'} \/ lapses \cap {"skipped", "fresh"} # {}]_vars
  <2> SUFFICES ASSUME TypeOK, FileInv, Next, ~NoPods, file = None, file' # None
               PROVE  s3 \in {None, file'} \/ lapses \cap {"skipped", "fresh"} # {}
    BY DEF vars
  <2>1. PICK p \in Pods : AutoRestoreRun(p) \/ DbInitApply(p) \/ AppCreates(p)
    BY FileWriters
  <2>2. CASE AutoRestoreRun(p)
    BY <2>2 DEF AutoRestoreRun
  <2>3. CASE DbInitApply(p) \/ AppCreates(p)
    BY <2>3 DEF DbInitApply, AppCreates, Up, FileInv, Excused, Passed
  <2> QED
    BY <2>1, <2>2, <2>3
<1> QED
  BY <1>1, <1>2, NextFileInv, StartupTypeOK, PTL DEF Spec, AutoRestored

(* A volume that the archive check accepts stays so while there are pods:   *)
(* evictions and kills in the middle of a first start, of an upload or of a *)
(* restart never lock the database out.                                     *)
THEOREM StaysRecoverableHolds == Spec => StaysRecoverable
<1>1. ASSUME TypeOK, Next, Recoverable, ~Recoverable' PROVE NoPods
  <2>1. CASE \E p \in Pods : Upload(p)
    BY <1>1, <2>1 DEF Upload, Recoverable, volumeVars
  <2>2. CASE s3' = s3 /\ stateDir' = stateDir /\ ~NoPods
    <3>1. file' # file
      BY <1>1, <2>2 DEF Recoverable
    <3>2. PICK p \in Pods : AutoRestoreRun(p) \/ DbInitApply(p) \/ AppCreates(p)
      BY <1>1, <2>2, <3>1, FileWriters
    <3>3. file = None /\ (AutoRestoreRun(p) => s3 # None)
      BY <3>1, <3>2 DEF AutoRestoreRun, DbInitApply, AppCreates, Creates
    <3> QED
      BY <1>1, <2>2, <3>2, <3>3
      DEF Recoverable, AutoRestoreRun, DbInitApply, AppCreates, Creates, Fresh
  <2>3. CASE \E p \in Pods : MakeStateDir(p)
    BY <1>1, <2>3 DEF MakeStateDir, Recoverable
  <2> QED
    BY <1>1, <2>1, <2>2, <2>3
    DEF Next, PodStep, Environment, CreatePod, ArchiveCheck, ArchiveProbe,
        AutoRestoreTest, AutoRestoreFresh, AutoRestoreRun, AutoRestoreExists, QuickCheck,
        RetryGate, KillInit, DbInit, DbInitApply, DbInitTouch, Start, AppCreates, ClearSkip,
        UserSkip, UserPause, UserAutoRestore, Restore, Evict, WipeVolume, RemoveFile,
        Recreate, volumeVars
<1>2. TypeOK /\ [Next]_vars => [Recoverable /\ ~Recoverable' => NoPods]_vars
  BY <1>1
<1> QED
  BY <1>2, StartupTypeOK, PTL DEF Spec, StaysRecoverable
=============================================================================
