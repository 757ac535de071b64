--------------------------- MODULE BackupLifecycle ---------------------------
(***************************************************************************)
(* The life of ONE backup name, from the OpenEverest Backup record to the  *)
(* base backup in the Barman object store:                                 *)
(*                                                                         *)
(*   OpenEverest Backup  --SyncBackup-->  CNPG Backup  --CNPG-->  base     *)
(*   (what users see)    <--Mirror-----   (the operator's)        backups  *)
(*            |                                                      ^     *)
(*            +--CleanupBackup--> deletion Job ----------------------+     *)
(*                                                                         *)
(* Translated from internal/provider/backup.go, backup_delete.go and       *)
(* backup_mirror.go.  A handler runs one API call at a time, and every     *)
(* other actor may move between two calls; `rc` holds the handler's local  *)
(* variables.  The runtime reconciles one name sequentially, so there is   *)
(* one `rc`; different names share no object (Job names are injective up   *)
(* to a hash), so one name is enough.                                      *)
(*                                                                         *)
(* External parts, modelled from how this code uses them: the provider     *)
(* runtime (status write, finalizer, creation of mirrored records), CNPG   *)
(* and its Barman plugin, the Job and garbage collection controllers.      *)
(***************************************************************************)
EXTENDS Integers

CONSTANTS
    MaxRuns,            \* bound: base backups ever taken under this name
    MaxUids,            \* bound: records ever created under this name
    MaxFaults           \* bound: errors, crashes, outages, failed Jobs, expiries

ASSUME BoundsAssumption == MaxRuns \in Nat /\ MaxUids \in Nat /\ MaxFaults \in Nat

VARIABLES
    backup,   \* the OpenEverest Backup record
    cnpg,     \* the CNPG Backup resource of the same name
    job,      \* the Job delete-backup-<name>
    running,  \* the base backup CNPG is taking, 0 if none
    runs,     \* base backups started so far: their numbers are 1..runs
    catalog,  \* the base backups Barman can address in the object store
    world,    \* Cluster, Instance and ObjectStore, as far as the handlers look
    rc,       \* the Backup reconcile in progress: program counter and locals
    mirror,   \* the runtime's mirroring in progress
    faults,   \* disturbances so far
    owed,     \* history: recorded base backups users asked to delete
    lost,     \* history: records reported as no longer available
    cascaded  \* history: those whose CNPG Backup foreground cascading removed

vars == <<backup, cnpg, job, running, runs, catalog, world, rc, mirror,
          faults, owed, lost, cascaded>>

-----------------------------------------------------------------------------
(* The objects.  The CNPG phase "started" stands for pending and started,  *)
(* "failed" for failed and walArchivingFailing: the code never tells the   *)
(* members of a pair apart.  "Unavailable" is the Failed state with the    *)
(* message of backup.go:53.                                                *)

InProgressPhases == {"started", "running", "finalizing"}
Phases == {"new", "completed", "failed"} \cup InProgressPhases
States == {"New", "Pending", "Running", "Succeeded", "Failed", "Unavailable"}
Policies == {"Delete", "Retain"}

\* A record as the API server stores it when it is created.
FreshBackup(uid) ==
    [st |-> "live", uid |-> uid, policy |-> "Delete", ref |-> FALSE,
     state |-> "New"]

NoBackup == [FreshBackup(0) EXCEPT !.st = "absent"]

NewCnpgBackup ==
    [st |-> "live", phase |-> "new", run |-> 0, id |-> 0, owner |-> 0,
     scheduled |-> FALSE]

NoCnpgBackup == [NewCnpgBackup EXCEPT !.st = "absent"]

NoJob == [st |-> "absent", owner |-> 0, id |-> 0]

Idle == [pc |-> "idle", archives |-> FALSE, live |-> FALSE, id |-> 0,
         answer |-> "New", seen |-> FALSE]

\* Leave the handler with a backup execution status for the runtime to store.
Answer(state, seen) ==
    [Idle EXCEPT !.pc = "status", !.answer = state, !.seen = seen]

\* There is a Cluster; it archives to the storage; the Instance lists the
\* storage; ObjectStore and BackupStorage are there and usable.
WorldParts == {"cluster", "archives", "listed", "store"}

Fault == faults < MaxFaults /\ faults' = faults + 1

Init ==
    /\ backup = NoBackup
    /\ cnpg \in {NoCnpgBackup, [NewCnpgBackup EXCEPT !.scheduled = TRUE]}
    /\ job = NoJob
    /\ running = 0 /\ runs = 0 /\ catalog = {}
    /\ world = [part \in WorldParts |-> TRUE]
    /\ rc = Idle /\ mirror = "idle"
    /\ faults = 0 /\ owed = {} /\ lost = {} /\ cascaded = {}

-----------------------------------------------------------------------------
(* SyncBackup: Get Cluster; Exists; CreateOrUpdate; the runtime then       *)
(* stores the returned status.                                             *)

\* The runtime picks the record up: Sync while it lives, Cleanup once deleted.
ReconcileStart ==
    /\ rc.pc = "idle" /\ backup.st # "absent"
    /\ rc' = [Idle EXCEPT !.pc = IF backup.st = "live" THEN "sync" ELSE "lookup"]
    /\ UNCHANGED <<backup, cnpg, job, running, runs, catalog, world, mirror, faults, owed, lost, cascaded>>

SyncGetCluster ==
    /\ rc.pc = "sync"
    /\ rc' = IF world.cluster
             THEN [rc EXCEPT !.pc = "exists", !.archives = world.archives]
             ELSE Answer("Pending", FALSE)
    /\ UNCHANGED <<backup, cnpg, job, running, runs, catalog, world, mirror, faults, owed, lost, cascaded>>

\* The Instance must list the storage, the Cluster (as read before) must
\* archive to it.
backupStorageBlocker ==
    CASE ~world.listed -> "Failed"
      [] ~rc.archives  -> "Pending"
      [] OTHER         -> "none"

\* Seeded error: only a record that succeeded counts as having had a CNPG Backup.
ObservedBefore_OnlySucceeded == backup.state = "Succeeded"
\* backup.Status.OperatorBackupRef # nil
ObservedBefore == backup.ref

SyncExists ==
    /\ rc.pc = "exists"
    /\ \/ /\ \/ cnpg.st # "absent"
             \/ ~ObservedBefore /\ backupStorageBlocker = "none"
          /\ rc' = [rc EXCEPT !.pc = "create"]
       \/ /\ cnpg.st = "absent" /\ ObservedBefore
          /\ rc' = Answer("Unavailable", FALSE)
       \/ /\ cnpg.st = "absent" /\ ~ObservedBefore /\ backupStorageBlocker # "none"
          /\ rc' = Answer(backupStorageBlocker, FALSE)
    /\ UNCHANGED <<backup, cnpg, job, running, runs, catalog, world, mirror, faults, owed, lost, cascaded>>

\* Seeded error: the operator's phase is passed on as it is.
StateOf_RawPhase(phase) == phase
\* Seeded error: failure is left to the default case.
StateOf_NoFailure(phase) ==
    CASE phase = "completed" -> "Succeeded"
      [] phase = "running"   -> "Running"
      [] OTHER               -> "Pending"
\* Seeded error: what is neither in progress nor failed has succeeded.
StateOf_NotNew(phase) ==
    CASE phase \in InProgressPhases -> "Running"
      [] phase = "failed"          -> "Failed"
      [] OTHER                     -> "Succeeded"
\* The switch over the CNPG phase at the end of SyncBackup.
StateOf(phase) ==
    CASE phase = "completed" -> "Succeeded"
      [] phase = "running"   -> "Running"
      [] phase = "failed"    -> "Failed"
      [] OTHER               -> "Pending"

\* CreateOrUpdate looks again by itself: whatever Exists said, an absent CNPG
\* Backup is created here and a present one only gets its controller reference
\* (SetControllerReference refuses an object another owner controls).
SyncCreateOrUpdate ==
    /\ rc.pc = "create"
    /\ LET found == IF cnpg.st = "absent" THEN NewCnpgBackup ELSE cnpg
       IN  /\ found.owner \in {0, backup.uid}
           /\ cnpg' = [found EXCEPT !.owner = backup.uid]
           /\ rc' = Answer(StateOf(found.phase), TRUE)
    /\ UNCHANGED <<backup, job, running, runs, catalog, world, mirror, faults, owed, lost, cascaded>>

\* The runtime stores state and OperatorBackupRef; an answer without a
\* reference leaves the stored one.
StatusWrite ==
    /\ rc.pc = "status"
    /\ backup' = [backup EXCEPT !.ref = @ \/ rc.seen, !.state = rc.answer]
    /\ lost' = IF rc.answer = "Unavailable" THEN lost \cup {backup.uid} ELSE lost
    /\ rc' = Idle
    /\ UNCHANGED <<cnpg, job, running, runs, catalog, world, mirror, faults, owed, cascaded>>

-----------------------------------------------------------------------------
(* CleanupBackup and deleteBackupData.                                     *)

\* Seeded error: the policy is not looked at.
DeletesData_Always == TRUE
\* backup.Spec.DeletionPolicy # Retain
DeletesData == backup.policy # "Retain"

CleanupGet ==
    /\ rc.pc = "lookup"
    /\ \/ /\ cnpg.st = "absent"
          /\ rc' = [Idle EXCEPT !.pc = IF DeletesData THEN "orphan" ELSE "release"]
       \/ /\ cnpg.st # "absent" /\ ~DeletesData
          /\ rc' = [Idle EXCEPT !.pc = "delete", !.live = cnpg.st = "live"]
       \/ /\ cnpg.st # "absent" /\ DeletesData
          /\ cnpg.phase \in InProgressPhases
          /\ rc' = Idle
       \/ /\ cnpg.st # "absent" /\ DeletesData
          /\ cnpg.phase \notin InProgressPhases
          /\ rc' = [Idle EXCEPT !.pc = IF cnpg.id = 0 THEN "delete" ELSE "store",
                                !.live = cnpg.st = "live", !.id = cnpg.id]
    /\ UNCHANGED <<backup, cnpg, job, running, runs, catalog, world, mirror, faults, owed, lost, cascaded>>

\* Seeded error: a record without a Job is never let go.
NothingToWaitFor_JobMissing == job.st = "complete"
\* Seeded error: only a failed Job holds the record.
NothingToWaitFor_JobRunning == job.st # "failed"
\* No CNPG Backup left: a Job at work, or a failed one, still holds the record.
NothingToWaitFor == job.st \in {"absent", "complete"}

CleanupOrphan ==
    /\ rc.pc = "orphan"
    /\ rc' = IF NothingToWaitFor THEN [Idle EXCEPT !.pc = "release"] ELSE Idle
    /\ UNCHANGED <<backup, cnpg, job, running, runs, catalog, world, mirror, faults, owed, lost, cascaded>>

\* ObjectStore and BackupStorage must be there and usable, else it is an error.
CleanupGetStore ==
    /\ rc.pc = "store"
    /\ rc' = IF world.store THEN [rc EXCEPT !.pc = "job"] ELSE Idle
    /\ UNCHANGED <<backup, cnpg, job, running, runs, catalog, world, mirror, faults, owed, lost, cascaded>>

\* The Job addresses the base backup by the Barman ID read before; that it cannot be
\* built, from credentials or a destination that are missing, is ~world.store.
buildBackupDeletionJob == [st |-> "running", owner |-> backup.uid, id |-> rc.id]

\* Seeded error: ownership is not looked at.
JobIsControlled_Unchecked == TRUE
\* metav1.IsControlledBy(job, backup): compared by UID.
JobIsControlled == job.owner = backup.uid

\* Seeded error: a Job that has not failed counts as done.
deletionJobDone_NotFailed == job.st # "failed"
deletionJobDone == job.st = "complete"

CleanupJob ==
    /\ rc.pc = "job"
    /\ \/ /\ job.st = "absent"
          /\ job' = buildBackupDeletionJob
          /\ rc' = Idle
       \/ /\ job.st # "absent" /\ ~(JobIsControlled /\ deletionJobDone)
          /\ rc' = Idle /\ UNCHANGED job
       \/ /\ job.st # "absent" /\ JobIsControlled /\ deletionJobDone
          /\ rc' = [rc EXCEPT !.pc = "delete"]
          /\ UNCHANGED job
    /\ UNCHANGED <<backup, cnpg, running, runs, catalog, world, mirror, faults, owed, lost, cascaded>>

\* c.Delete carries no precondition: it removes whatever bears the name now.
\* A finalizer of someone else may keep the object terminating for a while.
CleanupDelete ==
    /\ rc.pc = "delete"
    /\ IF rc.live /\ cnpg.st = "live"
       THEN cnpg' \in {NoCnpgBackup, [cnpg EXCEPT !.st = "terminating"]}
       ELSE UNCHANGED cnpg
    /\ rc' = Idle
    /\ UNCHANGED <<backup, job, running, runs, catalog, world, mirror, faults, owed, lost, cascaded>>

\* Cleanup reported completion: the runtime takes its finalizer off.
Release ==
    /\ rc.pc = "release"
    /\ backup' = [backup EXCEPT !.st = "absent"]
    /\ rc' = Idle
    /\ UNCHANGED <<cnpg, job, running, runs, catalog, world, mirror, faults, owed, lost, cascaded>>

\* An API error, a conflict, a crash or a restart: the locals are gone.
ReconcileFails ==
    /\ rc.pc # "idle" /\ Fault
    /\ rc' = Idle
    /\ UNCHANGED <<backup, cnpg, job, running, runs, catalog, world, mirror, owed, lost, cascaded>>

-----------------------------------------------------------------------------
(* Mirror: the runtime hands it a scheduled CNPG Backup and later creates  *)
(* the record it returns, unless there is one.  Which Instances and        *)
(* schedules qualify is the subject of module Schedules.                   *)

MirrorRead ==
    /\ mirror = "idle" /\ cnpg.st # "absent" /\ cnpg.scheduled
    /\ mirror' = "create"
    /\ UNCHANGED <<backup, cnpg, job, running, runs, catalog, world, rc, faults, owed, lost, cascaded>>

MirrorCreate ==
    /\ mirror = "create"
    /\ mirror' = "idle"
    /\ backup' = IF backup.st = "absent" /\ backup.uid < MaxUids
                 THEN FreshBackup(backup.uid + 1) ELSE backup
    /\ UNCHANGED <<cnpg, job, running, runs, catalog, world, rc, faults, owed, lost, cascaded>>

-----------------------------------------------------------------------------
(* Users and administrators.                                               *)

UserCreates ==
    /\ backup.st = "absent" /\ backup.uid < MaxUids
    /\ backup' = FreshBackup(backup.uid + 1)
    /\ UNCHANGED <<cnpg, job, running, runs, catalog, world, rc, mirror, faults, owed, lost, cascaded>>

\* The policy may be edited as long as the record lives; what counts is its
\* value when the record is deleted.
UserDeletes ==
    /\ backup.st = "live"
    /\ \E policy \in Policies :
          /\ backup' = [backup EXCEPT !.st = "deleting", !.policy = policy]
          /\ owed' = IF policy = "Delete" /\ cnpg.id # 0 THEN owed \cup {cnpg.id} ELSE owed
    /\ UNCHANGED <<cnpg, job, running, runs, catalog, world, rc, mirror, faults, lost, cascaded>>

\* The remedy deletionJobDone asks for.
AdminDeletesJob ==
    /\ job.st = "failed"
    /\ job' = NoJob
    /\ UNCHANGED <<backup, cnpg, running, runs, catalog, world, rc, mirror, faults, owed, lost, cascaded>>

-----------------------------------------------------------------------------
(* CNPG, the Barman plugin, the Job and garbage collection controllers.    *)

CnpgStarts ==
    /\ cnpg.st # "absent" /\ cnpg.phase = "new" /\ world.cluster
    /\ cnpg' = [cnpg EXCEPT !.phase = "started"]
    /\ UNCHANGED <<backup, job, running, runs, catalog, world, rc, mirror, faults, owed, lost, cascaded>>

CnpgRuns ==
    /\ cnpg.st # "absent" /\ cnpg.phase = "started" /\ world.cluster
    /\ running = 0 /\ runs < MaxRuns
    /\ runs' = runs + 1 /\ running' = runs + 1
    /\ cnpg' = [cnpg EXCEPT !.phase = "running", !.run = runs + 1]
    /\ UNCHANGED <<backup, job, catalog, world, rc, mirror, faults, owed, lost, cascaded>>

CnpgFinalizes ==
    /\ cnpg.st # "absent" /\ cnpg.phase = "running"
    /\ cnpg' = [cnpg EXCEPT !.phase = "finalizing"]
    /\ UNCHANGED <<backup, job, running, runs, catalog, world, rc, mirror, faults, owed, lost, cascaded>>

\* The upload ends, well or badly, with or without a base backup Barman can
\* address; it does so even if the CNPG Backup was deleted meanwhile.
CnpgStops ==
    /\ running # 0
    /\ \E ok, written \in BOOLEAN :
          /\ ok => written
          /\ catalog' = IF written THEN catalog \cup {running} ELSE catalog
          /\ cnpg' = IF cnpg.st # "absent" /\ cnpg.run = running
                     THEN [cnpg EXCEPT !.phase = IF ok THEN "completed" ELSE "failed",
                                       !.id = IF written THEN running ELSE 0]
                     ELSE cnpg
    /\ running' = 0
    /\ UNCHANGED <<backup, job, runs, world, rc, mirror, faults, owed, lost, cascaded>>

\* Native retention removes a base backup that left the recovery window ...
RetentionExpires ==
    /\ Fault
    /\ \E r \in catalog : catalog' = catalog \ {r}
    /\ UNCHANGED <<backup, cnpg, job, running, runs, world, rc, mirror, owed, lost, cascaded>>

\* ... and catalog maintenance drops the CNPG Backups of missing base backups.
CatalogMaintenance ==
    /\ cnpg.st # "absent" /\ cnpg.phase = "completed" /\ cnpg.id \notin catalog
    /\ cnpg' = NoCnpgBackup
    /\ UNCHANGED <<backup, job, running, runs, catalog, world, rc, mirror, faults, owed, lost, cascaded>>

CnpgBackupTerminates ==
    /\ cnpg.st = "terminating"
    /\ cnpg' = NoCnpgBackup
    /\ UNCHANGED <<backup, job, running, runs, catalog, world, rc, mirror, faults, owed, lost, cascaded>>

JobRemovesData ==
    /\ job.st = "running" /\ job.id \in catalog
    /\ catalog' = catalog \ {job.id}
    /\ UNCHANGED <<backup, cnpg, job, running, runs, world, rc, mirror, faults, owed, lost, cascaded>>

JobSucceeds ==
    /\ job.st = "running" /\ job.id \notin catalog
    /\ job' = [job EXCEPT !.st = "complete"]
    /\ UNCHANGED <<backup, cnpg, running, runs, catalog, world, rc, mirror, faults, owed, lost, cascaded>>

JobFails ==
    /\ job.st = "running" /\ Fault
    /\ job' = [job EXCEPT !.st = "failed"]
    /\ UNCHANGED <<backup, cnpg, running, runs, catalog, world, rc, mirror, owed, lost, cascaded>>

\* A Job goes with the record that owns it.
JobIsCollected ==
    /\ job.st # "absent"
    /\ backup.st = "absent" \/ job.owner # backup.uid
    /\ job' = NoJob
    /\ UNCHANGED <<backup, cnpg, running, runs, catalog, world, rc, mirror, faults, owed, lost, cascaded>>

\* Foreground cascading: dependents are deleted while the record still waits
\* for its finalizer.  SetControllerReference made the CNPG Backup a dependent.
ForegroundCollects ==
    /\ backup.st = "deleting" /\ cnpg.st # "absent" /\ cnpg.owner = backup.uid
    /\ cnpg' = NoCnpgBackup
    /\ cascaded' = cascaded \cup ({cnpg.id} \cap owed)
    /\ UNCHANGED <<backup, job, running, runs, catalog, world, rc, mirror, faults, owed, lost>>

\* The Cluster is gone or archives elsewhere, the Instance stops listing the
\* storage, the ObjectStore or BackupStorage is missing ...
WorldBreaks ==
    /\ Fault
    /\ \E part \in WorldParts : world[part] /\ world' = [world EXCEPT ![part] = FALSE]
    /\ UNCHANGED <<backup, cnpg, job, running, runs, catalog, rc, mirror, owed, lost, cascaded>>

\* ... and is put back.
WorldRecovers ==
    /\ \E part \in WorldParts : ~world[part] /\ world' = [world EXCEPT ![part] = TRUE]
    /\ UNCHANGED <<backup, cnpg, job, running, runs, catalog, rc, mirror, faults, owed, lost, cascaded>>

-----------------------------------------------------------------------------

SyncBackup == SyncGetCluster \/ SyncExists \/ SyncCreateOrUpdate
CleanupBackup == CleanupGet \/ CleanupOrphan \/ CleanupGetStore \/ CleanupJob \/ CleanupDelete
Reconcile == ReconcileStart \/ SyncBackup \/ StatusWrite \/ CleanupBackup \/ Release

Environment ==
    \/ MirrorRead \/ MirrorCreate
    \/ UserCreates \/ UserDeletes \/ AdminDeletesJob
    \/ CnpgStarts \/ CnpgRuns \/ CnpgFinalizes \/ CnpgStops
    \/ RetentionExpires \/ CatalogMaintenance \/ CnpgBackupTerminates
    \/ JobRemovesData \/ JobSucceeds \/ JobFails \/ JobIsCollected
    \/ ForegroundCollects \/ WorldBreaks \/ WorldRecovers

Next == Reconcile \/ ReconcileFails \/ Environment

Spec == Init /\ [][Next]_vars

(* Watches on both owned kinds and requeues drive the reconcile; CNPG, the *)
(* Job and the collectors keep working; an administrator follows the error *)
(* message; broken infrastructure is repaired.  Users, retention, mirroring *)
(* and faults are not obliged to do anything.                              *)
Fairness ==
    /\ WF_vars(Reconcile)
    /\ WF_vars(CnpgStarts) /\ WF_vars(CnpgRuns) /\ WF_vars(CnpgStops)
    /\ WF_vars(CnpgBackupTerminates)
    /\ WF_vars(JobRemovesData) /\ WF_vars(JobSucceeds) /\ WF_vars(JobIsCollected)
    /\ WF_vars(AdminDeletesJob)
    /\ WF_vars(WorldRecovers)

FairSpec == Spec /\ Fairness

-----------------------------------------------------------------------------
(* Properties.                                                             *)

Runs == 1 .. MaxRuns

Backups ==
    [st : {"absent", "live", "deleting"}, uid : 0 .. MaxUids, policy : Policies,
     ref : BOOLEAN, state : States]
CnpgBackups ==
    [st : {"absent", "live", "terminating"}, phase : Phases, run : Runs \cup {0},
     id : Runs \cup {0}, owner : 0 .. MaxUids, scheduled : BOOLEAN]
Jobs ==
    [st : {"absent", "running", "complete", "failed"}, owner : 0 .. MaxUids,
     id : Runs \cup {0}]
Worlds == [WorldParts -> BOOLEAN]
Handlers ==
    [pc : {"idle", "sync", "exists", "create", "status", "lookup", "orphan",
           "store", "job", "delete", "release"},
     archives : BOOLEAN, live : BOOLEAN, id : Runs \cup {0}, answer : States,
     seen : BOOLEAN]

TypeOK ==
    /\ backup \in Backups /\ cnpg \in CnpgBackups /\ job \in Jobs
    /\ running \in Runs \cup {0} /\ runs \in 0 .. MaxRuns
    /\ catalog \subseteq Runs /\ owed \subseteq Runs /\ cascaded \subseteq Runs
    /\ world \in Worlds /\ rc \in Handlers
    /\ mirror \in {"idle", "create"}
    /\ faults \in 0 .. MaxFaults
    /\ lost \subseteq 0 .. MaxUids

\* CleanupBackup removes Barman data first and the CNPG Backup after: about to
\* delete under policy Delete a CNPG Backup it saw with a Barman ID, that base
\* backup is out of the catalog, whatever Jobs of earlier records of the same
\* name, retention or restarts did in between (backup.go:206, backup_delete.go:33).
DataRemovedFirst ==
    rc.pc = "delete" /\ DeletesData /\ rc.id # 0 => rc.id \notin catalog

\* deletionPolicy Retain skips explicit data deletion: a deletion Job of the
\* current record exists only if that record was deleted with policy Delete
\* (backup.go:214 and 236).
RetainKeepsData ==
    job.st # "absent" /\ job.owner = backup.uid =>
        backup.st # "live" /\ backup.policy = "Delete"

\* A record deleted with policy Delete goes away only after the base backup it
\* had recorded by then is out of the catalog, through failed Jobs, retries,
\* races with retention and restarts (README: "deletionPolicy: Delete removes
\* the Barman base backup"; CleanupBackup), unless foreground cascading had taken
\* the CNPG Backup that names it.
DeletionHonoured == backup.st # "deleting" => owed \cap catalog \subseteq cascaded

\* The same without the exception: however the record is deleted (README; and
\* backup.go:223, "native retention already removed it").
DeletionAlwaysHonoured == backup.st # "deleting" => owed \cap catalog = {}

\* A record once reported as no longer available never gets another CNPG Backup
\* (SyncBackup, backup.go:50).
UnavailableIsFinal == backup.uid \in lost => cnpg.st = "absent"

\* backup_delete.go:43: skipping data deletion is right because nothing is
\* addressable: a CNPG Backup deleted under policy Delete leaves no base backup
\* behind, neither complete nor being written.
DeleteLeavesNothing ==
    [][CleanupDelete /\ DeletesData /\ cnpg.st = "live" /\ cnpg'.st # "live" =>
         cnpg.run = 0 \/ (cnpg.run # running /\ cnpg.run \notin catalog)]_vars

\* A deleted record goes away in the end: every wait of CleanupBackup (for the
\* CNPG Backup, for a Job of this or of an earlier record, for the ObjectStore,
\* for an administrator after a failed Job) has an end.
DeletionCompletes == backup.st = "deleting" ~> backup.st = "absent"

\* A record that is left alone is reported as succeeded or failed in the end
\* (SyncBackup): no wait for the Cluster, the archive or the phase is forever.
BackupSettles ==
    backup.st = "live" ~> \/ backup.state \in {"Succeeded", "Failed", "Unavailable"}
                          \/ backup.st # "live"

-----------------------------------------------------------------------------
\* Explicit deletion is under way while the Job of the current record runs.
Promise == INSTANCE BackupPromise WITH
    record  <- backup.st,
    policy  <- backup.policy,
    purging <- (job.st = "running" /\ job.owner = backup.uid),
    taken   <- runs,
    owed    <- owed \ cascaded

\* The handlers keep the promise of module BackupPromise (SyncBackup,
\* CleanupBackup and Mirror together).
KeepsPromise == Promise!Spec

-----------------------------------------------------------------------------
\* What is read of this name by those who restore from it.
Source == INSTANCE BackupSource WITH
    reported <- (backup.st # "absent" /\ backup.state = "Succeeded"),
    origin   <- (IF cnpg.st = "absent" THEN [phase |-> "absent", id |-> 0]
                 ELSE [phase |-> IF cnpg.phase = "completed" THEN "completed" ELSE "incomplete",
                       id    |-> cnpg.id]),
    ended    <- (IF running = 0 THEN runs ELSE runs - 1)

\* Whoever restores from this name may rely on module BackupSource, as Restore
\* does, whatever becomes of record, CNPG Backup and base backups (SyncBackup,
\* CleanupBackup, and resolveSourceBackup, which reads what they write).
IsASource == Source!Spec
=============================================================================
