-------------------------------- MODULE Restore --------------------------------
(***************************************************************************)
(* One Instance with a data source: the backup it is restored from, the    *)
(* recovery Cluster, the OpenEverest Restore record, and everything that   *)
(* comes after, as Sync resolves the data source again every time it runs. *)
(* Translated from internal/cnpg/barman/restore.go, SyncRestore in         *)
(* internal/provider/backup.go and Provider.Sync and Status.               *)
(*                                                                         *)
(* The source lives its own life: its record is synced, its base backup    *)
(* expires, users delete it and take another one under the same name.      *)
(* What Restore knows of it is module BackupSource, which BackupLifecycle  *)
(* implements.                                                             *)
(*                                                                         *)
(* External: the runtime keeps a Restore record for the data source, calls *)
(* SyncRestore until it has succeeded or failed and possibly afterwards,   *)
(* and calls a data source done while its record says Succeeded.           *)
(***************************************************************************)
EXTENDS Integers

CONSTANTS
    MaxBackups,   \* bound: base backups ever taken under the source's name
    MaxEdits,     \* bound: edits of the restored Instance
    MaxFaults     \* bound: errors, crashes, a Cluster or pods that fail

ASSUME LimitsAssumption == MaxBackups \in Nat /\ MaxEdits \in Nat /\ MaxFaults \in Nat

VARIABLES
    kind,       \* spec.dataSource.type: backup, or a point in time of an archive
    reported,   \* the source: does its record say Succeeded,
    origin,     \* its CNPG Backup,
    ended,      \* how many base backups have ended,
    catalog,    \* and which of them are in the object store
    completed,  \* history: those whose CNPG Backup completed
    spec,       \* the edit of the restored Instance that is current
    cluster,    \* its CNPG Cluster
    recoveries, \* history: the base backups its Clusters were recovered from
    restore,    \* state of the Restore record
    extras,     \* are there a Database and ScheduledBackups?
    stored,     \* the phase Status reported last
    rc,         \* the reconcile of the Instance in progress
    rr,         \* the reconcile of the Restore record: its answer, or "idle"
    faults      \* disturbances so far

source == <<reported, origin, ended, catalog, completed>>
vars == <<kind, source, spec, cluster, recoveries, restore, extras, stored, rc, rr, faults>>

-----------------------------------------------------------------------------
(* A point in time is recovered from the archive as a whole, not from one  *)
(* base backup.  "broken" is one of the phases both SyncRestore and        *)
(* failedClusterStatus know, "invalid" one that only the latter knows      *)
(* (unknown plugin, missing architecture binary, invalid definition).      *)

Archive == 0
Phases == {"setup", "healthy", "broken", "invalid"}

\* all: ReadyInstances = Instances, which holds of no instances, too.
NewCluster(s, from) ==
    [exists |-> TRUE, spec |-> s, from |-> from, phase |-> "setup",
     conditioned |-> FALSE, primary |-> FALSE, all |-> TRUE]
NoCluster == [NewCluster(0, Archive) EXCEPT !.exists = FALSE]

Idle == [pc |-> "idle", spec |-> 0, done |-> FALSE, from |-> Archive]

Fault == faults < MaxFaults /\ faults' = faults + 1

Source == INSTANCE BackupSource WITH MaxRuns <- MaxBackups

Init ==
    /\ kind \in {"backup", "pointInTime"}
    /\ Source!Init /\ completed = {}
    /\ spec = 0 /\ cluster = NoCluster /\ recoveries = {}
    /\ restore = "New" /\ extras = FALSE /\ stored = "None"
    /\ rc = Idle /\ rr = "idle" /\ faults = 0

-----------------------------------------------------------------------------
(* Sync of the restored Instance.                                          *)

ReconcileStart ==
    /\ rc.pc = "idle"
    /\ rc' = [Idle EXCEPT !.pc = IF kind = "backup" THEN "record" ELSE "apply",
                          !.spec = spec, !.done = restore = "Succeeded"]
    /\ UNCHANGED <<kind, source, spec, cluster, recoveries, restore, extras, stored, rr, faults>>

\* resolveSourceBackup: anything but a succeeded record is waited for, ...
RecordIsUsable == reported

ResolveRecord ==
    /\ rc.pc = "record"
    /\ rc' = IF RecordIsUsable THEN [rc EXCEPT !.pc = "origin"] ELSE Idle
    /\ UNCHANGED <<kind, source, spec, cluster, recoveries, restore, extras, stored, rr, faults>>

\* Seeded error: the record's word is taken for the state of the CNPG Backup.
OriginIsUsable_AnyPhase == origin.phase # "absent" /\ origin.id # 0
\* ... and so is a CNPG Backup that is missing or not completed; without a
\* Barman ID it is an error.
OriginIsUsable == origin.phase = "completed" /\ origin.id # 0

ResolveOrigin ==
    /\ rc.pc = "origin"
    /\ rc' = IF OriginIsUsable THEN [rc EXCEPT !.pc = "apply", !.from = origin.id] ELSE Idle
    /\ UNCHANGED <<kind, source, spec, cluster, recoveries, restore, extras, stored, rr, faults>>

\* Seeded error: a recovery Cluster that exists is left as it is.
RecoveryCluster_CreateOnly ==
    IF cluster.exists THEN cluster ELSE NewCluster(rc.spec, rc.from)
\* BuildRecoveryConfig fills the bootstrap section, of an existing Cluster too.
RecoveryCluster ==
    IF cluster.exists THEN [cluster EXCEPT !.spec = rc.spec, !.from = rc.from]
    ELSE NewCluster(rc.spec, rc.from)

SyncCluster ==
    /\ rc.pc = "apply"
    /\ cluster' = RecoveryCluster
    /\ rc' = [rc EXCEPT !.pc = "extras"]
    /\ UNCHANGED <<kind, source, spec, recoveries, restore, extras, stored, rr, faults>>

\* SyncExtensionsDatabase and SyncScheduledBackups.
SyncExtras ==
    /\ rc.pc = "extras"
    /\ extras' = (extras \/ rc.done)
    /\ rc' = [rc EXCEPT !.pc = "status"]
    /\ UNCHANGED <<kind, source, spec, cluster, recoveries, restore, stored, rr, faults>>

TerminalPhases == {"broken", "invalid"}

\* Restoring hides whatever the Cluster says until the data source is done; then a
\* Cluster that cannot be read is taken for one that is not there.
Status ==
    /\ rc.pc = "status"
    /\ \/ /\ stored' = IF ~rc.done THEN "Restoring"
                       ELSE IF ~cluster.exists THEN "Pending"
                       ELSE IF cluster.phase \in TerminalPhases THEN "Failed"
                       ELSE IF cluster.conditioned /\ cluster.all THEN "Ready" ELSE "Provisioning"
          /\ UNCHANGED faults
       \/ rc.done /\ Fault /\ stored' = "Pending"
    /\ rc' = Idle
    /\ UNCHANGED <<kind, source, spec, cluster, recoveries, restore, extras, rr>>

ReconcileFails ==
    /\ rc.pc # "idle" /\ Fault
    /\ rc' = Idle
    /\ UNCHANGED <<kind, source, spec, cluster, recoveries, restore, extras, stored, rr>>

-----------------------------------------------------------------------------
(* SyncRestore: one Get of the Cluster; the runtime stores the answer.     *)

\* Seeded error: the counts alone, which agree when there is no instance yet.
IsRecovered_CountsOnly == cluster.all
\* Seeded error: waits for an Instance that is Ready, which waits for the restore.
IsRecovered_InstanceReady == cluster.exists /\ stored = "Ready"
\* Ready, with a primary and all its instances.
IsRecovered == cluster.conditioned /\ cluster.primary /\ cluster.all

\* Seeded error: failures are left to Status.
RestoreFailures_None == {}
\* The phases SyncRestore reports as failed.
RestoreFailures == {"broken"}

\* Seeded error: the phase of the Cluster is passed on as it is.
RestoreState_RawPhase ==
    IF ~cluster.exists THEN "Pending" ELSE IF IsRecovered THEN "Succeeded" ELSE cluster.phase
RestoreState ==
    IF ~cluster.exists THEN "Pending"
    ELSE IF IsRecovered THEN "Succeeded"
    ELSE IF cluster.phase \in RestoreFailures THEN "Failed" ELSE "Running"

SyncRestore ==
    /\ rr = "idle" /\ rr' = RestoreState
    /\ UNCHANGED <<kind, source, spec, cluster, recoveries, restore, extras, stored, rc, faults>>

RestoreStatusWrite ==
    /\ rr # "idle"
    /\ restore' = rr /\ rr' = "idle"
    /\ UNCHANGED <<kind, source, spec, cluster, recoveries, extras, stored, rc, faults>>

-----------------------------------------------------------------------------
(* The source.                                                             *)

restored == <<kind, spec, cluster, recoveries, restore, extras, stored, rc, rr>>

\* Whatever it does; what is lost counts as a disturbance.
SourceMoves ==
    /\ Source!Next
    /\ completed' = completed \cup {id \in {origin'.id} : origin'.phase = "completed" /\ id # 0}
    /\ IF Source!OriginGoes \/ Source!RunExpires THEN Fault ELSE UNCHANGED faults
    /\ UNCHANGED restored

-----------------------------------------------------------------------------
(* Users of the restored Instance, and CNPG.                               *)

UserEdits ==
    /\ spec < MaxEdits /\ spec' = spec + 1
    /\ UNCHANGED <<kind, source, cluster, recoveries, restore, extras, stored, rc, rr, faults>>

ClusterVanishes ==
    /\ cluster.exists /\ Fault
    /\ cluster' = NoCluster
    /\ UNCHANGED <<kind, source, spec, recoveries, restore, extras, stored, rc, rr>>

\* The data the recovery section names is in the object store.
Recoverable(from) == IF from = Archive THEN catalog # {} ELSE from \in catalog

CnpgRecovers ==
    /\ cluster.exists /\ cluster.phase = "setup" /\ Recoverable(cluster.from)
    /\ cluster' = [cluster EXCEPT !.phase = "healthy", !.primary = TRUE, !.conditioned = TRUE]
    /\ recoveries' = recoveries \cup {cluster.from}
    /\ UNCHANGED <<kind, source, spec, restore, extras, stored, rc, rr, faults>>

\* Pods fail and come back; the Ready condition follows.
CnpgPodFails ==
    /\ cluster.exists /\ cluster.phase = "healthy" /\ cluster.all /\ Fault
    /\ cluster' = [cluster EXCEPT !.all = FALSE]
    /\ UNCHANGED <<kind, source, spec, recoveries, restore, extras, stored, rc, rr>>

CnpgCondition ==
    /\ cluster.exists /\ cluster.phase = "healthy" /\ cluster.conditioned # cluster.all
    /\ cluster' = [cluster EXCEPT !.conditioned = cluster.all]
    /\ UNCHANGED <<kind, source, spec, recoveries, restore, extras, stored, rc, rr, faults>>

CnpgPodReady ==
    /\ cluster.exists /\ ~cluster.all
    /\ cluster' = [cluster EXCEPT !.all = TRUE]
    /\ UNCHANGED <<kind, source, spec, recoveries, restore, extras, stored, rc, rr, faults>>

\* CNPG stops until someone intervenes, which need not happen.
CnpgFails ==
    /\ cluster.exists /\ cluster.phase \in {"setup", "healthy"} /\ Fault
    /\ \E phase \in TerminalPhases :
          cluster' = [cluster EXCEPT !.phase = phase, !.conditioned = FALSE]
    /\ UNCHANGED <<kind, source, spec, recoveries, restore, extras, stored, rc, rr>>

CnpgRepaired ==
    /\ cluster.exists /\ cluster.phase \in TerminalPhases
    /\ cluster' = [cluster EXCEPT !.phase = IF cluster.primary THEN "healthy" ELSE "setup"]
    /\ UNCHANGED <<kind, source, spec, recoveries, restore, extras, stored, rc, rr, faults>>

-----------------------------------------------------------------------------

Sync == ResolveRecord \/ ResolveOrigin \/ SyncCluster \/ SyncExtras
Reconcile == ReconcileStart \/ Sync \/ Status

Cnpg ==
    \/ CnpgRecovers \/ CnpgPodFails \/ CnpgCondition \/ CnpgPodReady
    \/ CnpgFails \/ CnpgRepaired

Next ==
    \/ Reconcile \/ ReconcileFails \/ SyncRestore \/ RestoreStatusWrite
    \/ SourceMoves \/ UserEdits \/ ClusterVanishes \/ Cnpg

Spec == Init /\ [][Next]_vars

(* The Instance is reconciled again and again, the Restore record until it *)
(* has an outcome; CNPG recovers what it can and restarts pods.  Nothing   *)
(* is assumed of the source, of users, and of those who would intervene.   *)
Fairness ==
    /\ WF_vars(Reconcile)
    /\ WF_vars(restore \notin {"Succeeded", "Failed"} /\ SyncRestore)
    /\ WF_vars(RestoreStatusWrite)
    /\ WF_vars(CnpgRecovers) /\ WF_vars(CnpgPodReady) /\ WF_vars(CnpgCondition)

FairSpec == Spec /\ Fairness

-----------------------------------------------------------------------------
(* Properties.                                                             *)

BackupIds == 1 .. MaxBackups
RestoreStates == {"New", "Pending", "Running", "Succeeded", "Failed"}

Origins == [phase : {"absent", "incomplete", "completed"}, id : 0 .. MaxBackups]
Clusters == [exists : BOOLEAN, spec : 0 .. MaxEdits, from : 0 .. MaxBackups,
             phase : Phases, conditioned : BOOLEAN, primary : BOOLEAN, all : BOOLEAN]
Reconciles == [pc : {"idle", "record", "origin", "apply", "extras", "status"},
               spec : 0 .. MaxEdits, done : BOOLEAN, from : 0 .. MaxBackups]

TypeOK ==
    /\ kind \in {"backup", "pointInTime"}
    /\ reported \in BOOLEAN /\ origin \in Origins /\ ended \in 0 .. MaxBackups
    /\ catalog \subseteq BackupIds /\ completed \subseteq BackupIds
    /\ spec \in 0 .. MaxEdits /\ cluster \in Clusters /\ recoveries \subseteq 0 .. MaxBackups
    /\ restore \in RestoreStates /\ extras \in BOOLEAN
    /\ stored \in {"None", "Restoring", "Pending", "Failed", "Ready", "Provisioning"}
    /\ rc \in Reconciles /\ rr \in RestoreStates \cup {"idle"}
    /\ faults \in 0 .. MaxFaults

\* restore.go: a Cluster recovers from a base backup that completed, even if its
\* record and its CNPG Backup, read one after the other, are not of the same
\* backup any more.
RecoversCompleted ==
    kind = "backup" /\ cluster.exists => cluster.from \in completed

\* provider.go:268 "The application database and its backups only exist once a
\* restore is done": neither is there, and the Restore record does not say
\* Succeeded, before CNPG has recovered a Cluster for this Instance.
DoneMeansRecovered == restore = "Succeeded" \/ extras => recoveries # {}

\* The source a data source resolves to, now.
SourceUsable ==
    kind = "pointInTime" \/ (reported /\ origin.phase = "completed" /\ origin.id # 0)

\* A restore has an outcome if its source stays usable and its data stays: no
\* wait of Sync for the source, of SyncRestore for the Cluster, and of either for
\* the other, is forever; unless CNPG gives up in a way SyncRestore does not know.
RestoreEnds ==
    <>[](SourceUsable /\ catalog # {} /\ (kind = "backup" => origin.id \in catalog)) =>
        <>(restore \in {"Succeeded", "Failed"} \/ cluster.phase = "invalid")

\* Provider.Sync resolves the source at every reconcile: edits of a restored
\* Instance reach its Cluster as long as the source is usable, long after the
\* restore, whatever became of the restore.
EditsArrive == <>[]SourceUsable => <>[](cluster.exists => cluster.spec = spec)

\* failedClusterStatus and SyncRestore: a Cluster that stays failed is reported
\* by the Restore record or by the Instance, if Sync gets as far as Status; of the
\* phases SyncRestore does not know, only once the restore is done.
FailureIsReported ==
    <>[](/\ SourceUsable
         /\ \/ cluster.phase = "broken"
            \/ cluster.phase = "invalid" /\ restore = "Succeeded")
        => <>[](stored = "Failed" \/ restore = "Failed")
=============================================================================
