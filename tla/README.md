# A verification of provider-cloudnative-pg

The provider translates OpenEverest resources (Instance, Backup, Restore) into CloudNativePG
resources (Cluster, Backup, ScheduledBackup, Database, Pooler) and Barman Cloud ObjectStores. It
is a set of handlers that the OpenEverest provider runtime calls with a snapshot of one resource.
A handler keeps no state between calls: everything it knows it reads from the API server, a call
at a time, while users, CNPG, the garbage collector and retention change what it reads. The
modules here model those calls one by one. Paths below are relative to `src/`.

## 1. Inventory

### Components, their state and operations

| Component | Source | State it reads and writes | Operations |
|---|---|---|---|
| Backup records | `internal/provider/backup.go`, `backup_delete.go` | record status, CNPG Backup, deletion Job | SyncBackup, CleanupBackup |
| Mirroring | `internal/provider/backup_mirror.go` | produced CNPG Backups, Instances, records | Mirror |
| Shared ObjectStore | `internal/cnpg/barman/backup.go`, `plugin.go` | ObjectStore and the retention in it, peers | SyncBackupInfrastructure, checkSharedRetention |
| Schedules | `internal/cnpg/barman/schedule.go` | ScheduledBackups | SyncScheduledBackups, ScheduleForScheduledBackup |
| Extensions | `internal/cnpg/extensions.go` | Cluster's extension list, Database | three validations, ApplyExtensions, SyncExtensionsDatabase, ExtensionsStatus |
| Restore | `internal/cnpg/barman/restore.go`, `backup.go:147-203` | source Backup, recovery section, restore status | BuildRecoveryConfig, SyncRestore, CleanupRestore |
| Instance sync and status | `internal/provider/provider.go` | Cluster, stored status | Validate, Sync, Status, Cleanup |
| Pooler, connection details | `internal/provider/pooler.go`, `connection.go` | Pooler, its Deployment, Secrets | syncPooler, poolerBlocksReady, instanceOfPoolerDeployment, connectionDetails |
| PodMonitor | `internal/provider/podmonitor.go` | PodMonitor, CRD | syncPodMonitor |
| Spec validation, roles, TLS, scheduling | `internal/cnpg/validate.go`, `roles.go`, `tls.go`, `internal/provider/scheduling.go` | none | pure functions |

### Interactions

```
            users                        provider runtime
   Instance |  Backup | Restore     (one Instance worker; one reconcile per name)
            v         v                          |
   Validate -> Sync -> Status          SyncBackup / CleanupBackup / Mirror
                |                                |
   Sync: data source -> recovery section -> ObjectStore -> Cluster -> PodMonitor -> Pooler
         -> (restore done?) -> Database -> ScheduledBackups
                |                                |
   garbage collector <---- owner references ----+----> CNPG, Barman plugin, Job controller
```

A step of Sync that fails ends it: a retention conflict also withholds the Cluster, a restore that
is not done withholds the Database and the ScheduledBackups.

### What is hard, and what correctness means

| Component | Hard because | Correct when |
|---|---|---|
| Backup records | two reads of the same object in one handler; delete by name of something read earlier; retention, CNPG and the garbage collector remove what the handler works on; a Job may fail for good; a name is used again | data goes before the only resource that knows its ID; Delete is honoured, Retain keeps; no record waits forever; what is lost stays lost |
| Mirroring | schedules and Instances change between production and mirroring; the record is created later than the read | a mirrored record keeps every promise of a requested one, also when its CNPG Backup went before it was created |
| Shared ObjectStore | one object for many Instances; a comparison of peers that is old when the object is written; the object goes with one of its users | accepted Instances agree with the stored policy; agreement is served |
| Schedules | objects written one by one; names shared by Instances; Instances that come back | enabled schedules run, others stop, other Instances' objects are left alone |
| Extensions | three checks against two objects that are written later, by a reconcile with an older snapshot | nothing created is dropped; creation-only means that; Ready means installed |
| Restore | the source is resolved at every Sync, by two reads, and lives its own life; Status, the Restore record and Sync wait for each other | only completed backups are recovered; nothing follows before the recovery; restores end; edits arrive; failure is reported |
| Instance sync, Pooler, PodMonitor | Ready from four reads of objects that change in between; reconciles only come with events, and nothing watches PodMonitors; the Deployment belongs to the Pooler | no event and no edit is lost; a status that is wrong only asks to wait; a valid spec is served |

Every hazard with its line is listed in `PROJECT.json`, with the properties that would catch it.

## 2. The modules

All state that a handler holds between two API calls is in a record `rc` (`pc` and its locals).
`ReconcileFails` and `SyncFails` are an API error, a conflict, a crash or a restart between any two
calls: the locals are lost, what was written stays, and the runtime tries again. Where `Status` answers a failed
Get without an error, its step has a second outcome instead, and nobody tries again.

**BackupLifecycle** — one backup name, from its record to the base backups. `backup`, `cnpg`, `job`
are the three API objects; `running`, `runs`, `catalog` the base backups (being written, started,
addressable by Barman); `world` says whether Cluster, WAL archive, storage and ObjectStore are there.
Each API call of `SyncBackup` (Get Cluster, Exists, CreateOrUpdate, then the runtime's status write)
and of `CleanupBackup` (Get, Job or ObjectStore, Delete, then the finalizer) is an action; so are the
steps of Mirror, users, administrators, CNPG, retention, catalog maintenance, the Job controller and
the collectors, who may also cascade in the foreground (`ForegroundCollects`). `owed`, `lost` and
`cascaded` are history: base backups whose deletion users asked for, records reported as unavailable,
and the owed base backups whose CNPG Backup foreground cascading removed. One name is enough, because handlers of different names share no object.

**BackupPromise** — the same name without CNPG Backup, Job or reconcile: what users are promised. A
record is requested, asked to be deleted, gone; data is deleted explicitly only for a record being
deleted with policy Delete, which is gone only after what is owed is out of the catalog, except what
foreground cascading made it forget (`Forget`). `BackupLifecycle!KeepsPromise` is the refinement
(`purging` is a running Job of the current record, `owed` is `owed \ cascaded`).

**BackupSource** — the same name as seen by those who restore from it: whether its record says
Succeeded (`reported`), its CNPG Backup (`origin`), and the base backups that have ended and are in the
catalog. A record says Succeeded only after a base backup has ended, but what it says may be out of date;
a CNPG Backup completes at most once and keeps its Barman ID; base backups never come back. It is a second
abstraction of BackupLifecycle (`BackupLifecycle!IsASource`) and the environment of Restore: what Restore
assumes of its source, BackupLifecycle guarantees.

**SharedObjectStore** — any number of Instances of a namespace and the ObjectStore they share.
`ResolveStorage`, `ListPeers`, `GetStore`, `ApplyStore`, `ApplyCluster` are the calls of
`SyncBackupInfrastructure` and the Apply of the Cluster that follows. The backup class allows one
storage per Instance, so one ObjectStore is enough. `verdict` is history: what the last sync said of
the current spec.

**AgreedRetention** — what `checkSharedRetention` is meant to be: Instances ask for a policy; one is
accepted if it agrees with everybody accepted, and its policy is then what is stored; only who asks for
something else than is stored is refused; the stored policy may be collected. All of this in one step,
where the code takes a List, a Get and an Apply with users and the garbage collector between them. An
Apply for a spec that has been edited meanwhile (`AcceptLate`) accepts nobody, but even so stores only what
everybody accepted asks for. `SharedObjectStore!AsIfAtOnce` is the refinement (`asked` is the retention of
the spec, `answer` the verdict, `stored` the policy of the ObjectStore, or none).

**Schedules** — several Instances, their schedules and the ScheduledBackups, by name. Names are
sequences of the words between hyphens, so that joining them is what the code does. Every Apply and
Delete is a step, and Instances are deleted and created again under their name (`gen` stands for the UID).
What CNPG produces from a ScheduledBackup, and Mirror makes of that, is in BackupLifecycle.

**Extensions** — one Instance's toggles: `firstClassExtensions` is the code's table; `ValidateSpec`,
`ValidateDatabase`, `ValidateCluster` are the checks of Validate, each with its own read; `SyncCluster`
and `SyncDatabase` the writes; `Status` the readiness. `born` and `granted` are history: the toggles
the Cluster was created with, those whose bootstrap SQL ran. Versions are sequences of numbers.

**InstanceSync** — one Instance from an edit of its spec to the status its users read. `ReconcileStart`
is Validate, then come the steps of Sync (`SyncStorage`, `SyncCluster`, `syncPodMonitor`, `syncPooler`)
and the four Gets of Status (Cluster, Secret, Pooler, Deployment), then the runtime's write. A reconcile starts only if `queued` says one is
due: `Event(kind)` is a change of an object of a watched kind, and what nobody watches (the CRD, the
storage, the Secret, the PodMonitor) changes without one; the label and name checks by which
`instanceOfPoolerDeployment` recognises a Pooler's Deployment are part of "watched". `misread` is history: the
answer stands for a Cluster or Secret that could not be read. `cluster`, `pooler` and `deploy` have the spec applied last
and the status CNPG and the Deployment controller report. The steps of Sync with a module of their own
are left out or atomic here.

**Restore** — an Instance with a data source, its recovery Cluster, the Restore record, and the source,
an instance of BackupSource that moves whenever it likes (`SourceMoves`): it is synced, expires, is deleted
and taken again under its name. `ResolveRecord` and `ResolveOrigin` are the two reads of
`resolveSourceBackup`, made at every Sync; `SyncRestore` answers, `RestoreStatusWrite` stores the answer.
`completed` and `recoveries` are history: base backups that completed, and those Clusters recovered from.
There is one store: the code takes the store from the record (`restore.go:130`) and the ID and server name from the
CNPG Backup, so that records of two generations may be mixed; the model shows that in the ID only.
The phases that stop CNPG are of two kinds, "broken" (both SyncRestore and failedClusterStatus know them)
and "invalid" (only the latter does).

The modules do not share variables: each takes what the others decide as a choice of its environment
(`storage` in InstanceSync is the outcome of SharedObjectStore, `restore` in Extensions the record of
Restore). Restore and BackupLifecycle meet in BackupSource: Restore allows its source every step of it,
and BackupLifecycle takes no other.

`MC*` modules instantiate these for TLC, `*_proofs` hold the theorems. Operators named after a
definition with a suffix (`Prunes_Foreign`) and commented "Seeded error" are plausible bugs; each
property has one that it catches.

### Assumptions about what is outside `src/`

- The runtime reconciles one name at a time, and Instances with one worker (controller-runtime's
  default): syncs of different Instances do not overlap. It validates the snapshot before each Sync,
  calls Status only after a successful Sync, and keeps a stored OperatorBackupRef when an answer has
  none.
- `c.Apply` of an object another Instance controls may take it over or leave its owner; for
  ScheduledBackups also be refused (what really happens is an open point of the end-to-end suite,
  `test/e2e-cluster/backup-restore/chainsaw-test.yaml:108-110`). All outcomes are explored.
- Reads are current. Caches that lag behind are not modelled.
- CNPG reports a Cluster's status in steps of its own, later than the spec it describes; the Ready
  condition follows the pods, which are ready only after the first instance has initialized. The Secret of a ready
  Cluster is there; reading it may fail.
- The runtime keeps calling SyncRestore until it has answered Succeeded or Failed, perhaps longer, and
  takes a data source for done while the stored answer is Succeeded.
- What is installed is what this provider's Database created; the grants of a recovered cluster are
  whatever its source had. Deleting and recreating the Instance is not modelled in `Extensions`.
- The deletion policy is read as it was when the record was deleted.

## 3. What the runs check

| Run | Instance | Shows |
|---|---|---|
| `lifecycle` | 2 records, 1 disturbance, both ways of cascading; at most 6 base backups | `DataRemovedFirst`, `RetainKeepsData`, `DeletionHonoured`, `UnavailableIsFinal`; the handlers keep `BackupPromise` (`KeepsPromise`) and are a source to restore from (`IsASource`); `DeletionCompletes`, `BackupSettles` |
| `store` | 2 Instances, 2 retentions and an invalid one, 4 edits, 1 disturbance | `AcceptedAgree`, `RefusedOnlyWithoutStore`, a sync is as good as an atomic one (`AsIfAtOnce`), `AgreementIsServed` |
| `schedules` | 2 Instances with 2 schedules, 3 edits, or 2 and a failure | `OthersUntouched`, `EnabledSchedulesRun`, `RemovedSchedulesStop` |
| `extensions` | both TimescaleDB editions and PostGIS, PostGIS' image also by hand, versions 18 and 18.10, 2 edits, 1 disturbance, with and without a restore | `CreatedIsMounted`, `NeverDropped`, `CreationOnlyEnforced`, `ReadyMeansInstalled`, `AcceptedIsInstalled` |
| `instance` | 5 specs (1 or 2 instances, a synchronous standby, one that is listed, a role, 0 to 2 pooler pods, Prometheus, one invalid), 2 edits or 1 and a disturbance | `NoLostWakeup`, `NoLostEdit`, `ValidSpecIsServed`, `MonitorFollows` |
| `restore` | a base backup or a point in time, 2 backups under the source's name, 1 edit, 1 disturbance | `RecoversCompleted`, `DoneMeansRecovered`, `RestoreEnds`, `EditsArrive`, `FailureIsReported` |

Each also checks `TypeOK`, whose sets are those of the code's own values (a state or phase passed on
unmapped is a violation).

Six runs show where the code departs from what its documents say:

| Run | What happens |
|---|---|
| `foreground_orphans` | With foreground cascading the garbage collector removes the CNPG Backup (its controller is the record, `backup.go:81`) before CleanupBackup has run; CleanupBackup then takes it for never started or expired, and the base backup stays. |
| `start_race_orphans` | CleanupBackup reads a CNPG Backup that has not started, CNPG starts it, the unconditional Delete removes it: a base backup is written that nothing addresses. |
| `store_lockout` | The ObjectStore goes with its owner. If Instances disagree then, each is refused, also the one that carried the stored policy, until somebody edits one. |
| `creation_only_bypassed` | `ValidateExtensionsAtCreation` looks for the image by name: list it by hand first, at creation (as in the trace) or on a running Instance, and enable the toggle later. |
| `restored_without_grants` | With a data source, Sync replaces the bootstrap section and with it AGE's bootstrap SQL; the toggle is accepted all the same. |
| `schedule_names_collide` | `shop` with `eu-daily` and `shop-eu` with `daily` share the name `shop-eu-daily`; one schedule does not run. |

More departures and surprises were met while modelling; they are behaviour no document excludes, or
have no run of their own:

- A CNPG Backup that disappears between Exists and CreateOrUpdate is replaced, although the repository's
  README says a removed one is never replaced (README.md:163-164); and a mirrored record whose CNPG Backup
  is already gone has no OperatorBackupRef yet, so its first sync starts a backup of its own instead of
  adopting one (`backup_mirror.go:20-22`).
- Status answers any error of its Get of the Cluster with Pending, of the Secret and of the extensions Database with
  Provisioning, and returns no error (`provider.go:339-341`, `connection.go:43-45`, `extensions.go:468-473`; the Gets of
  Pooler and Deployment do return theirs). Nobody asks for another reconcile, so a Ready Instance may be shown as
  waiting until another event or the resync. `NoLostWakeup` says what is left: with nothing due, the stored status is
  the current one or stands for such a misreading, and then it only ever asks to wait, it never says Ready or Failed.
- Mirror looks for the schedule in the Instance as it is by then. What was produced for a schedule that has
  been removed since never gets a record. No document promises more, so no property says it.
- SyncRestore knows four of the seven phases of `failedClusterStatus`, and Status says Restoring before it
  looks at the phase: during a restore an unknown plugin, a missing architecture binary or an invalid
  definition is reported by neither. `FailureIsReported` and `RestoreEnds` say so.
- Because BuildRecoveryConfig resolves the source at every Sync, a restored Instance is no longer synced
  once the source Backup is deleted, has expired or is Pending again (its Cluster is gone): hence the
  premise of `EditsArrive`. If the source's name is used again, the recovery section of the existing Cluster
  is rewritten, which CNPG ignores.
- The comment above SyncRestore says more than the function does: it reads one Cluster and answers; the
  source is resolved by Sync.
- Turned off and on again, a Pooler is judged by the Deployment of its predecessor until that is collected:
  Ready is reported from pods that are about to go.
- The Pooler of Instance `shop` is called `shop-pooler`, like the Cluster of an Instance of that name; the
  comment on the constant says what CNPG does then. InstanceSync has one Instance.

### Bounds, and why they are enough

- `MaxRuns`: base backups under one name. Liveness must never depend on it: a bound that keeps a CNPG
  Backup from starting would be the reason it waits. Two records with one disturbance start fewer than six.
- `MaxUids` = 2: a record and one that inherits its name, CNPG Backup and Job. `job.owner` only
  distinguishes the current record from all earlier ones.
- `MaxFaults`: errors, crashes, outages, failed Jobs and pods, expiries, deletions of the source. One in the
  passing runs, since all of them check liveness: a failed Job that an administrator deletes, one restart, one
  expiry, a source that goes, a pod that fails. What more of them do to safety is covered by the proofs.
- `MaxEvents` in `InstanceSync` (2) and `Schedules` (3): edits and disturbances together, so that a run has that many
  edits, or one less and a disturbance in any order, but not the product of both. The proofs do not depend
  on it.
- `MaxEdits`: creations, edits and deletions. Four in the ObjectStore let two Instances be created, one
  change its mind and one go (in `store_lockout`, three disagree and one goes); two in `Extensions` are
  enough for listing an image and then enabling it, or enabling and disabling, while a third state is the
  initial one; three in `Schedules` delete an Instance, create it again and change a schedule of it, or disable and enable one and
  change another;
  two in `InstanceSync` remove a pooler and add it again, or leave a valid spec and come back; one in
  `Restore`, since only "the current spec or an older one" matters.
- `MaxBackups`: 2 in `Restore`, so that the record and the CNPG Backup that are read may be of different ones.
  `StartModes` = {"on"} in `Schedules`: schedules start enabled; the other modes are reached by edits.
- Three Instances in `store_lockout`, two in `store`: what more of them could do to safety is proved.
- The six passing runs have 0.06 to 1.04 million states each and explore their instance completely.
  `CHECK_DEADLOCK FALSE` is said where the system may stop: when the last record or Instance is gone.

### Fairness

- Reconciles make progress (`WF(Reconcile)`, `WF(Sync)`): the code returns errors or asks for a requeue,
  and watches on owned objects and the resync queue the resource again.
- Several Instances share one worker and a first-in first-out queue, so each gets its turn:
  `SF(SyncStart(i))`, because one sync disables the start of the next.
- CNPG starts, runs and ends backups, creates extensions and completes restores; Jobs run and end; the
  garbage collector works; broken infrastructure is repaired; the administrator follows the error message
  of `deletionJobDone` and deletes a failed Job (without that, a record waits forever, by design).
- `InstanceSync`: reconciles are fair only while one is due; informers resync, CNPG scales, starts pods and
  reconciles roles, Poolers get their Deployments, failed Clusters and storage are repaired. Nobody is
  assumed to install the CRD. `Restore`: SyncRestore is called until there is an outcome, CNPG recovers what
  is in the store; nobody is assumed to repair a Cluster that CNPG gave up.
- Nothing is assumed of users, of retention, of mirroring in `BackupLifecycle`, or of faults except that
  they are finitely many.

## 4. What is proved

TLAPS checks the following for every value of the constants. The only assumptions are those the modules
state about their constants (`...Assumption`: bounds are naturals, `Invalid` is no retention, and so on).

- **BackupLifecycle_proofs.** `TypeCorrect`, `DataIsRemovedFirst`, `RetainIsSafe`, `UnavailableStays`
  and `DeletionIsHonoured`. None of these is inductive: that the handler
  deletes only after the data has gone depends on the Job being about the base backup the handler read,
  and that on who owns it. `IInv` says so: base backups that anyone may delete are over
  (`RunsInv`), the program counter tells the branch the record took and the copy of the ID is that of the
  CNPG Backup (`HandlerInv`), a Job owned by the current record is about its CNPG Backup (`JobInv`), an
  unavailable record keeps its reference (`LostInv`). `OwedInv` adds: what is owed and still catalogued is
  recorded in the CNPG Backup of a record still being deleted, unless foreground cascading took that.
  Two more theorems say exactly when what the documents promise holds: `OnlyCascadingEscapes`
  (`DeletionAlwaysHonoured` if no step is `ForegroundCollects`) and `OnlyLateStartsLeaveData`
  (`DeleteLeavesNothing` if no `CnpgStarts` happens while the handler is about to delete). The latter needs
  `OverInv`, "a CNPG Backup that is over leaves a base backup only under its Barman ID, one that has not
  begun none", and `BeforeDeleteInv`, "what is about to be deleted has not begun, or is over and has the ID
  that was read".
- **BackupRefinement_proofs.** `PromiseIsKept`: `Spec => KeepsPromise`. Besides `IInv` and `OwedInv` it
  needs `PurgeInv`, "a Job at work belongs to a record being deleted, and none is at work when the record
  is let go". Most steps stutter; each of the others is shown to be one action of BackupPromise.
  `LifecycleIsASource`: `Spec => IsASource`, from `IInv` and `SourceInv`: base backups are taken one at a
  time, a completed CNPG Backup has a Barman ID, and no record says Succeeded, or is about to, before one
  has ended.
- **SharedObjectStore_proofs.** `TypeCorrect`, `AcceptedInstancesAgree`, `RefusalNeedsCollection` for
  any number of Instances. What a sync found out before it writes must still hold when it writes, although
  users edit meanwhile: `SyncAgrees` and `SyncIsCurrent` carry that from `ListPeers` to `ApplyStore`; an
  edit takes the verdict away, and nobody else can be accepted in between because there is one worker.
  With the same invariant `SharingIsAtomic` shows `Spec => AsIfAtOnce`: an Apply is an `Accept` or an
  `AcceptLate`, a refusal a `Refuse`, an edit an `Ask`, everything else stutters or collects.
  `OnlyCollectionLocksOut`: "the others keep reconciling" (`OthersKeepReconciling`) if no ObjectStore is
  collected while an accepted Instance shares it, because then who was accepted finds it
  (`AcceptedIsStored`).
- **Schedules_proofs.** `TypeCorrect`; `OthersAreUntouched` if no two schedules share a name
  (`NamesUnique`). The invariant says that the owner of a ScheduledBackup, and the sync that is about to
  apply or delete it, could have given it its name.
- **Extensions_proofs.** `TypeCorrect`, `CreatedStaysMounted`, `CreatedIsNeverDropped`;
  `CreationOnlyIsEnforced` if users list no image of a creation-only toggle by hand (`HandsOff`, the
  condition `creation_only_bypassed` violates); `BootstrapSqlHasRun` if moreover there is no data source
  (the condition `restored_without_grants` violates). The invariant carries what each check of Validate
  found to the write that relies on it. `ReadyIsInstalled`, from "a Database whose status is current and
  good has its extensions" (`AppliedIsInstalled`) and "past SyncDatabase, it lists this reconcile's"
  (`DatabaseIsSynced`). `MajorMinorDecide`, about `versionAtLeast` for versions of any length.
- **InstanceSync_proofs.** `TypeCorrect`, `NoWakeupIsLost`, `NoEditIsLost`, for any
  set of specs, any number of instances and pods. The invariant says at every program counter: unless a
  reconcile is due, what the handler wrote and read is still so (`WritesAreCurrent`, `ReadsAreCurrent`,
  `AnswerIsCurrent`, the last except for what could not be read, where the answer asks to wait); every event that
  breaks it makes one due, which is where each watch is needed.
- **Restore_proofs.** `TypeCorrect`, `ResolvesCompleted`, `DoneIsRecovered`, for any number of backups. What
  the handler resolved has completed even if record and CNPG Backup are gone (`ResolvedIsCompleted`), and a
  Cluster shows signs of a recovery only after one (`SignsOfRecovery`, `NotDoneBefore`).

Only model-checked: everything about liveness (`DeletionCompletes`, `BackupSettles`,
`AgreementIsServed`, `AcceptedIsInstalled`, `ValidSpecIsServed`, `MonitorFollows`, `RestoreEnds`,
`EditsArrive`, `FailureIsReported`, `EnabledSchedulesRun`, `RemovedSchedulesStop`), which is out of this
prover's reach, as are ENABLED, induction over data and RECURSIVE operators (none is used here). So the
theorem about versions is for minima of two components, the only ones in the code: the first difference of
two sequences of any length can only be found by induction. Every safety property of a passing run is a
theorem; of the violation runs, the properties of `foreground_orphans`, `start_race_orphans`, `store_lockout`,
`creation_only_bypassed` and `restored_without_grants` are theorems under the condition that their
counterexample breaks. For `schedule_names_collide` that condition is `NamesUnique`, but the
property is a liveness one and stays with TLC. The conditions on steps (`[][...]_vars`) are
about the environment (the garbage collector, the start of a backup), never about the code.

## 5. Not modelled, and the plan

- The contents of specs that no decision depends on: S3 settings, resources, cron expressions, default
  parameters, preload order, SQL versions, URIs, messages.
- Pure functions of one spec (`tls.go`, `scheduling.go`, and of `validate.go` all but the checks named in
  section 2): no state, no order, and unit tests that reach their branches. ValidateDataSource refuses
  combinations; Restore starts from data sources it accepts.
- Which CNPG Backups Mirror takes (`backup_mirror.go:25-62`, `ScheduleForScheduledBackup`): a decision on what one call
  reads; what follows after it is in BackupLifecycle.
- Errors that concern data the models leave out are a call that fails (`ReconcileFails`): an image the catalog does
  not have (`ResolveExtensionImages`), a record without a storage and a CNPG Backup without a server name
  (`restore.go:71-75`, `130-136`). Those of `buildBackupDeletionJob` (credentials or a destination missing) are part of
  `~world.store`: the model lets them end a cleanup whether or not there is a Job, the code only if there is none.
- CleanupRestore and Provider.Cleanup change nothing; what the garbage collector does instead is in
  SharedObjectStore, Schedules and InstanceSync.
- Caches that lag behind. A stale `List` of peers in `checkSharedRetention` can let two Instances that
  disagree pass at once; the next reconcile of either repeats the check. No document bounds the time.
- Declarations and packaging: RBAC markers, constants, the entry point, `definition/`, the chart.

What a further step would take up: a SharedObjectStore whose reads lag by one version, with a weaker
AgreedRetention that says what is left of the agreement; several Instances in InstanceSync, for names that
collide; an abstract specification of Schedules, and of the reconcile in InstanceSync.
