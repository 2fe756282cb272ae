---------------------------- MODULE PodStartup ----------------------------
(***************************************************************************)
(* What the mutating webhook puts into a pod, run by the kubelet against   *)
(* the data volume and the S3 replica: the archive-check or auto-restore   *)
(* init container, the init-SQL container, then the application beside the *)
(* litestream sidecar.  A pod may go away between any two commands of a    *)
(* script, an init container may be killed and is run again from its start,*)
(* and several pods may be up during a rolling update.                     *)
(***************************************************************************)
EXTENDS Naturals, FiniteSets

CONSTANTS
  Pods,
  Databases,     \* identities of databases: one file and its later versions
  None,          \* no database
  HasSqlite3,    \* the litestream image holds a sqlite3 command
  InitSQL,       \* is spec.initSQL set?
  Events,        \* what users and nodes may do
  MaxEvents,     \* bound on those events
  Faults,        \* the failures that may happen
  MaxFaults      \* bound on those failures

AllEvents ==
  {"evict", "wipe", "removeFile", "recreate", "skip", "restore", "pause", "autoRestore"}
AllFaults == {"kill", "s3", "corrupt", "sqlite3"}

ASSUME PodStartupAssumption ==
  /\ None \notin Databases
  /\ HasSqlite3 \in BOOLEAN
  /\ InitSQL \in BOOLEAN
  /\ Events \subseteq AllEvents
  /\ MaxEvents \in Nat
  /\ Faults \subseteq AllFaults
  /\ MaxFaults \in Nat

VARIABLES
  file,       \* the database file on the volume
  corrupt,    \* is that file corrupt?
  stateDir,   \* is there a .<database>-litestream directory?
  marker,     \* is there a .db-init-<hash> file for the init SQL?
  tried,      \* history: was the init SQL run against this volume?
  s3,         \* the database the S3 replica belongs to
  skip,       \* the skip-archive-check annotation of the LitestreamReplica
  config,     \* the litestream ConfigMap
  autoRestore, \* spec.backup.autoRestore
  pod,        \* where each pod is
  lapses,     \* history, since the volume last held the database of the S3
              \* replica: how a pod came past its checks although it did not,
              \* or a state directory outlived its database
  events, faults

volumeVars == <<file, corrupt, stateDir, marker, tried>>
objectVars == <<skip, config, autoRestore>>
vars == <<volumeVars, s3, objectVars, pod, lapses, events, faults>>

-----------------------------------------------------------------------------
(* The init containers in the order of inject: archive check or auto        *)
(* restore are put first, init SQL last.                                    *)
Passed == {"dbInit", "sqlite3", "touch", "start", "running", "idle"}

Steps == Passed \cup {"absent", "archiveCheck", "probe", "blocked",
                      "autoRestore", "restore", "quickCheck", "rejected"}

Lapses == {"skipped", "unchecked", "fresh", "stateDir"}

(* Every variable has its type, and the integrity check of                  *)
(* injectAutoRestoreContainer always has a database to check: its script    *)
(* looks for the file again after the restore, and no pod takes it away.    *)
TypeOK ==
  /\ file \in Databases \cup {None}
  /\ s3 \in Databases \cup {None}
  /\ corrupt \in BOOLEAN /\ stateDir \in BOOLEAN
  /\ marker \in BOOLEAN /\ tried \in BOOLEAN
  /\ skip \in BOOLEAN /\ autoRestore \in BOOLEAN
  /\ lapses \subseteq Lapses
  /\ config \in {"full", "paused"}
  /\ pod \in [Pods -> Steps]
  /\ \A p \in Pods : pod[p] = "quickCheck" => file # None
  /\ events \in 0..MaxEvents
  /\ faults \in 0..MaxFaults

(* First-time set-up, a volume that was lost or recreated behind a backup,   *)
(* or a database in replication.                                             *)
Init ==
  /\ file \in Databases \cup {None}
  /\ s3 \in Databases \cup {None}
  /\ stateDir \in BOOLEAN
  /\ stateDir => file = s3 /\ s3 # None
  /\ corrupt = FALSE
  /\ marker = FALSE /\ tried = FALSE
  /\ skip = FALSE
  /\ config = "full"
  /\ autoRestore \in BOOLEAN
  /\ pod = [p \in Pods |-> "absent"]
  /\ lapses = {}
  /\ events = 0
  /\ faults = 0

-----------------------------------------------------------------------------
Goto(p, step) == pod' = [pod EXCEPT ![p] = step]

Happens(e) ==
  /\ e \in Events /\ events < MaxEvents
  /\ events' = events + 1

Fails(f) ==
  /\ f \in Faults /\ faults < MaxFaults
  /\ faults' = faults + 1

NoPods == \A p \in Pods : pod[p] = "absent"

(* After the first init container: the init-SQL container if there is one.  *)
AfterGate == IF InitSQL THEN "dbInit" ELSE "start"

(* inject: auto-restore replaces the archive check, and only the archive    *)
(* check obeys the skip annotation.                                         *)
Gate ==
  CASE autoRestore -> "autoRestore"
    [] ~autoRestore /\ ~skip -> "archiveCheck"
    [] OTHER -> AfterGate

HoldsBackup == s3 = None \/ file = s3

(* Coming past the checks on a volume without the backed up database.       *)
Passing(lapse) == lapses' = IF HoldsBackup THEN lapses ELSE lapses \cup {lapse}

CreatePod(p) ==
  /\ pod[p] = "absent"
  /\ Goto(p, Gate)
  /\ IF Gate = AfterGate THEN Passing("skipped") ELSE UNCHANGED lapses
  /\ UNCHANGED <<volumeVars, s3, objectVars, events, faults>>

-----------------------------------------------------------------------------
(* The script of injectArchiveCheckContainer.                               *)

(* Mutant: the database file alone is taken as proof of replication.        *)
ArchiveCheckFileOnly(p) ==
  /\ pod[p] = "archiveCheck"
  /\ Goto(p, IF file # None THEN AfterGate ELSE "probe")
  /\ UNCHANGED <<volumeVars, s3, objectVars, lapses, events, faults>>

(* Mutant: the state directory is looked for under a wrong name.            *)
ArchiveCheckNoStateDir(p) ==
  /\ pod[p] = "archiveCheck"
  /\ Goto(p, "probe")
  /\ UNCHANGED <<volumeVars, s3, objectVars, lapses, events, faults>>

ArchiveCheck(p) ==
  /\ pod[p] = "archiveCheck"
  /\ Goto(p, IF file # None /\ stateDir THEN AfterGate ELSE "probe")
  /\ UNCHANGED <<volumeVars, s3, objectVars, lapses, events, faults>>

(* litestream restore -if-replica-exists: an S3 error, or a configuration   *)
(* without the database, is an error.                                       *)
RestoreErrors == (config = "paused" /\ UNCHANGED faults) \/ Fails("s3")
RestoreWorks == config = "full" /\ UNCHANGED faults

ArchiveProbe(p) ==
  /\ pod[p] = "probe"
  /\ \/ RestoreErrors /\ Goto(p, "blocked")
     \/ RestoreWorks /\ s3 # None /\ Goto(p, "blocked")
     \/ RestoreWorks /\ s3 = None /\ Goto(p, AfterGate)
  /\ UNCHANGED <<volumeVars, s3, objectVars, lapses, events>>

-----------------------------------------------------------------------------
(* The script of injectAutoRestoreContainer.                                *)

(* Mutant: the state directory is taken for the database.                   *)
AutoRestoreTestStateDir(p) ==
  /\ pod[p] = "autoRestore"
  /\ IF file # None \/ stateDir THEN Goto(p, AfterGate) /\ Passing("unchecked")
     ELSE Goto(p, "restore") /\ UNCHANGED lapses
  /\ UNCHANGED <<volumeVars, s3, objectVars, events, faults>>

(* Any database file will do.                                               *)
AutoRestoreTest(p) ==
  /\ pod[p] = "autoRestore"
  /\ IF file # None THEN Goto(p, AfterGate) /\ Passing("unchecked")
     ELSE Goto(p, "restore") /\ UNCHANGED lapses
  /\ UNCHANGED <<volumeVars, s3, objectVars, events, faults>>

(* Mutant: after a restore that did not fail the file is not looked for, so *)
(* that a missing backup is taken for a restored one.                       *)
AutoRestoreFreshUntested(p) ==
  /\ pod[p] = "restore"
  /\ file = None
  /\ \/ RestoreErrors /\ Goto(p, AfterGate)
     \/ RestoreWorks /\ s3 = None /\ Goto(p, "quickCheck")
  /\ Passing("fresh")
  /\ UNCHANGED <<volumeVars, s3, objectVars, events>>

(* "restore failed or no backup found, starting fresh"                      *)
AutoRestoreFresh(p) ==
  /\ pod[p] = "restore"
  /\ file = None
  /\ RestoreErrors \/ (RestoreWorks /\ s3 = None)
  /\ Goto(p, AfterGate)
  /\ Passing("fresh")
  /\ UNCHANGED <<volumeVars, s3, objectVars, events>>

(* A restore may produce a corrupt file (upstream issues #1164, #1220).     *)
AutoRestoreRun(p) ==
  /\ pod[p] = "restore"
  /\ file = None /\ config = "full" /\ s3 # None
  /\ file' = s3
  /\ \/ corrupt' = FALSE /\ UNCHANGED faults
     \/ corrupt' = TRUE /\ Fails("corrupt")
  /\ Goto(p, "quickCheck")
  /\ UNCHANGED <<stateDir, marker, tried, s3, objectVars, lapses, events>>

(* -if-db-not-exists: another pod has made the file since the test.         *)
AutoRestoreExists(p) ==
  /\ pod[p] = "restore"
  /\ file # None
  /\ Goto(p, "quickCheck")
  /\ UNCHANGED <<volumeVars, s3, objectVars, lapses, events, faults>>

QuickCheck(p) ==
  /\ pod[p] = "quickCheck"
  /\ IF HasSqlite3 /\ corrupt THEN Goto(p, "rejected") /\ UNCHANGED lapses
     ELSE Goto(p, AfterGate) /\ Passing("unchecked")
  /\ UNCHANGED <<volumeVars, s3, objectVars, events, faults>>

(* The kubelet runs a failed or killed init container again from its start. *)
RetryGate(p) ==
  /\ \/ pod[p] = "blocked" /\ Goto(p, "archiveCheck")
     \/ pod[p] = "rejected" /\ Goto(p, "autoRestore")
  /\ UNCHANGED <<volumeVars, s3, objectVars, lapses, events, faults>>

KillInit(p) ==
  /\ Fails("kill")
  /\ \/ pod[p] = "probe" /\ Goto(p, "archiveCheck")
     \/ pod[p] \in {"restore", "quickCheck"} /\ Goto(p, "autoRestore")
     \/ pod[p] \in {"sqlite3", "touch"} /\ Goto(p, "dbInit")
  /\ UNCHANGED <<volumeVars, s3, objectVars, lapses, events>>

-----------------------------------------------------------------------------
(* A database that is created where there is none differs from the backed   *)
(* up one.                                                                  *)
Fresh == Databases \ {s3}

Creates == IF file = None THEN file' \in Fresh ELSE file' = file

(* The script of injectInitContainer: the marker is touched whether or not  *)
(* sqlite3 succeeded.                                                       *)

(* Mutant: the marker is touched before the SQL is applied.                 *)
DbInitMarkerFirst(p) ==
  /\ pod[p] = "dbInit"
  /\ Goto(p, IF marker THEN "start" ELSE "sqlite3")
  /\ marker' = TRUE
  /\ UNCHANGED <<file, corrupt, stateDir, tried, s3, objectVars, lapses, events, faults>>

DbInit(p) ==
  /\ pod[p] = "dbInit"
  /\ Goto(p, IF marker THEN "start" ELSE "sqlite3")
  /\ UNCHANGED <<volumeVars, s3, objectVars, lapses, events, faults>>

(* sqlite3 may fail before or after it has made the file.                   *)
DbInitApply(p) ==
  /\ pod[p] = "sqlite3"
  /\ \/ Creates /\ UNCHANGED faults
     \/ (Creates \/ UNCHANGED file) /\ Fails("sqlite3")
  /\ tried' = TRUE
  /\ Goto(p, "touch")
  /\ UNCHANGED <<corrupt, stateDir, marker, s3, objectVars, lapses, events>>

DbInitTouch(p) ==
  /\ pod[p] = "touch"
  /\ marker' = TRUE
  /\ Goto(p, "start")
  /\ UNCHANGED <<file, corrupt, stateDir, tried, s3, objectVars, lapses,
                 events, faults>>

-----------------------------------------------------------------------------
(* The application and litestream replicate (external).  litestream reads   *)
(* its configuration when it starts, and only then: with "dbs: []" it exits *)
(* and is restarted, with a database it replicates until the pod goes.      *)
Start(p) ==
  /\ \/ pod[p] = "start"
     \/ pod[p] = "idle" /\ config = "full"
  /\ Goto(p, IF config = "full" THEN "running" ELSE "idle")
  /\ UNCHANGED <<volumeVars, s3, objectVars, lapses, events, faults>>

Up(p) == pod[p] \in {"running", "idle"}

AppCreates(p) ==
  /\ Up(p) /\ file = None
  /\ Creates
  /\ UNCHANGED <<corrupt, stateDir, marker, tried, s3, objectVars, pod,
                 lapses, events, faults>>

(* litestream makes its state directory before it uploads.                  *)
MakeStateDir(p) ==
  /\ pod[p] = "running"
  /\ file # None /\ ~stateDir
  /\ stateDir' = TRUE
  /\ UNCHANGED <<file, corrupt, marker, tried, s3, objectVars, pod,
                 lapses, events, faults>>

Upload(p) ==
  /\ pod[p] = "running"
  /\ file # None /\ stateDir /\ s3 # file
  /\ s3' = file
  /\ lapses' = {}
  /\ UNCHANGED <<volumeVars, objectVars, pod, events, faults>>

-----------------------------------------------------------------------------
(* updateStatus and clearSkipArchiveCheck: the annotation goes once a       *)
(* sidecar is seen running and none failed; an idle one is seen as either,  *)
(* for it runs for a moment between its restarts.                           *)
ClearSkip ==
  /\ skip
  /\ \E p \in Pods : Up(p)
  /\ skip' = FALSE
  /\ UNCHANGED <<volumeVars, s3, config, autoRestore, pod, lapses, events, faults>>

UserSkip ==
  /\ Happens("skip")
  /\ ~skip /\ skip' = TRUE
  /\ UNCHANGED <<volumeVars, s3, config, autoRestore, pod, lapses, faults>>

UserPause ==
  /\ Happens("pause")
  /\ config' = IF config = "full" THEN "paused" ELSE "full"
  /\ UNCHANGED <<volumeVars, s3, skip, autoRestore, pod, lapses, faults>>

(* Pods that exist keep the containers they were given.                     *)
UserAutoRestore ==
  /\ Happens("autoRestore")
  /\ autoRestore' = ~autoRestore
  /\ UNCHANGED <<volumeVars, s3, skip, config, pod, lapses, faults>>

(* A LitestreamRestore, from the Job to the skip annotation that lets the   *)
(* next pod start (RestoreController has the details).                      *)
Restore ==
  /\ Happens("restore")
  /\ NoPods /\ s3 # None
  /\ file' = s3 /\ corrupt' = FALSE
  /\ skip' = TRUE
  /\ lapses' = {}
  /\ UNCHANGED <<stateDir, marker, tried, s3, config, autoRestore, pod, faults>>

Evict(p) ==
  /\ Happens("evict")
  /\ pod[p] # "absent"
  /\ Goto(p, "absent")
  /\ UNCHANGED <<volumeVars, s3, objectVars, lapses, faults>>

WipeVolume ==
  /\ Happens("wipe")
  /\ NoPods
  /\ file' = None /\ corrupt' = FALSE /\ stateDir' = FALSE
  /\ marker' = FALSE /\ tried' = FALSE
  /\ lapses' = {}
  /\ UNCHANGED <<s3, objectVars, pod, faults>>

(* Only the database file is deleted.                                       *)
RemoveFile ==
  /\ Happens("removeFile")
  /\ NoPods /\ file # None
  /\ file' = None /\ corrupt' = FALSE
  /\ lapses' = IF stateDir THEN lapses \cup {"stateDir"} ELSE lapses
  /\ UNCHANGED <<stateDir, marker, tried, s3, objectVars, pod, faults>>

(* The application ran without the sidecar and made a new database.         *)
Recreate ==
  /\ Happens("recreate")
  /\ NoPods /\ file = None
  /\ Creates
  /\ UNCHANGED <<corrupt, stateDir, marker, tried, s3, objectVars, pod,
                 lapses, faults>>

-----------------------------------------------------------------------------
PodStep(p) ==
  \/ CreatePod(p)
  \/ ArchiveCheck(p) \/ ArchiveProbe(p)
  \/ AutoRestoreTest(p) \/ AutoRestoreFresh(p)
  \/ AutoRestoreRun(p) \/ AutoRestoreExists(p)
  \/ QuickCheck(p) \/ RetryGate(p)
  \/ DbInit(p) \/ DbInitApply(p) \/ DbInitTouch(p)
  \/ Start(p) \/ AppCreates(p) \/ MakeStateDir(p) \/ Upload(p)

Environment ==
  \/ UserSkip \/ UserPause \/ UserAutoRestore \/ Restore
  \/ WipeVolume \/ RemoveFile \/ Recreate

Next ==
  \/ \E p \in Pods : PodStep(p) \/ KillInit(p) \/ Evict(p)
  \/ ClearSkip
  \/ Environment

Spec == Init /\ [][Next]_vars

(* The workload controller and the kubelet keep working on every pod, and   *)
(* the sidecar replicates; faults and events are bounded and never owed.    *)
Fairness == \A p \in Pods : WF_vars(PodStep(p))

FairSpec == Spec /\ Fairness

-----------------------------------------------------------------------------
(* The S3 replica of one database is never continued with another one,      *)
(* whatever is lost, recreated, restored, evicted or killed and in whatever *)
(* order, unless a pod was let past its checks on a volume that did not     *)
(* hold the backed up database: by skip-archive-check, by autoRestore, which*)
(* accepts any file, or by a state directory left without its database.     *)
BackupChainKept == [][s3 # None /\ s3' # s3 => lapses # {}]_vars

(* Why: whatever has passed its check, and whatever a state directory       *)
(* vouches for, is the backed up database or has no backup.                 *)
ChainSafe == HoldsBackup \/ lapses # {}

ChainInv ==
  /\ \A p \in Pods : pod[p] \in Passed => ChainSafe
  /\ stateDir => ChainSafe

(* The state directory is made before the first upload, so evictions and    *)
(* kills at any point of a first start or of a restart leave a volume that  *)
(* the archive check accepts: while there are pods nothing makes it         *)
(* unacceptable, and a pod runs again unless replication is paused.         *)
Recoverable == s3 = None \/ (file = s3 /\ stateDir)

StaysRecoverable == [][Recoverable /\ ~Recoverable' => NoPods]_vars

NeverLockedOut ==
  /\ StaysRecoverable
  /\ Recoverable ~> (\E p \in Pods : pod[p] = "running") \/ ~Recoverable \/ config = "paused"

(* AutoRestore: "A PRAGMA quick_check integrity gate is always run after    *)
(* restore; if it fails, the pod is blocked from starting."                 *)
IntegrityGate == \A p \in Pods : Up(p) => ~corrupt

(* AutoRestore "automatically restores the database from S3 on pod startup  *)
(* (if the local DB is missing and a backup exists)", and the archive check *)
(* blocks: no pod makes a new database in the place of a backed up one      *)
(* unless the check was skipped or the restore failed.                      *)
AutoRestored ==
  [][~NoPods /\ file = None /\ file' # None =>
       s3 \in {None, file'} \/ lapses \cap {"skipped", "fresh"} # {}]_vars

(* injectInitContainer: the application never starts on a volume where the  *)
(* init SQL was not even tried, however containers are killed, evicted and  *)
(* run beside each other.                                                   *)
InitSQLApplied == \A p \in Pods : Up(p) /\ InitSQL => tried
=============================================================================
