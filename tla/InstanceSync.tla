------------------------------ MODULE InstanceSync ------------------------------
(***************************************************************************)
(* One Instance from the edit of its spec to the status its users read:    *)
(* Provider.Validate, Sync and Status as the runtime calls them, with the  *)
(* CNPG Cluster, the Pooler and its PgBouncer Deployment, and the          *)
(* PodMonitor.  Translated from internal/provider/provider.go, pooler.go,  *)
(* podmonitor.go, connection.go and internal/cnpg/validate.go, roles.go.   *)
(*                                                                         *)
(* A reconcile is started by events only: `queued` says that one is due.   *)
(* Every API call is a step; users, CNPG, the Deployment and the garbage   *)
(* collection controllers move between any two.  `rc` has the handler's    *)
(* locals.                                                                 *)
(*                                                                         *)
(* Simplifications: SyncBackupInfrastructure succeeds or fails as a whole  *)
(* (module SharedObjectStore); extensions and schedules are in modules     *)
(* Extensions and Schedules, data sources in Restore; of the credentials   *)
(* Secret, only whether it can be read.                                    *)
(***************************************************************************)
EXTENDS Integers

CONSTANTS
    Specs,       \* the specs users write
    NotSet,      \* a section of the spec that is left out
    MaxEdits,    \* bound: edits by users
    MaxFaults,   \* bound: errors, crashes, outages, pods that fail
    MaxEvents    \* bound: edits and disturbances together

ASSUME SpecsAssumption ==
    Specs \subseteq [replicas : Nat, sync : Nat \cup {NotSet}, standbys : Nat, role : BOOLEAN,
                     pool : Nat \cup {NotSet}, prometheus : BOOLEAN]
ASSUME NotSetAssumption == NotSet \notin Nat
ASSUME LimitsAssumption == MaxEdits \in Nat /\ MaxFaults \in Nat /\ MaxEvents \in Nat

VARIABLES
    want,       \* the spec of the Instance
    cluster,    \* the CNPG Cluster, its applied spec and its status
    pooler,     \* the Pooler <instance>-pooler
    deploy,     \* the PgBouncer Deployment of that name
    monitor,    \* is there a PodMonitor?
    crd,        \* is the PodMonitor CRD installed?
    storage,    \* would SyncBackupInfrastructure succeed?
    stored,     \* the status and the connection details users see
    queued,     \* is a reconcile due?
    rc,         \* the reconcile in progress: program counter and locals
    edits,      \* edits so far
    faults      \* disturbances so far

vars == <<want, cluster, pooler, deploy, monitor, crd, storage, stored, queued, rc, edits, faults>>

-----------------------------------------------------------------------------
(* Objects.  `initialized` and `conditioned` are the conditions            *)
(* Initialized and Ready, `roles` is the ManagedRolesStatus of the one     *)
(* managed role a spec may ask for; `failed` stands for the phases of      *)
(* failedClusterStatus.                                                    *)

NoCluster == [exists |-> FALSE, replicas |-> 0, role |-> FALSE, instances |-> 0,
              ready |-> 0, initialized |-> FALSE, conditioned |-> FALSE, failed |-> FALSE,
              roles |-> "none"]

NoPooler == [exists |-> FALSE, instances |-> 0, phase |-> "new"]

\* `orphan`: the Pooler that owns it is gone.
NoDeployment == [exists |-> FALSE, replicas |-> 0, ready |-> 0, orphan |-> FALSE]

\* Without a reconcile the locals do not matter.  `misread` is history: the
\* answer stands for an object that could not be read.
Idle == [pc |-> "idle", want |-> CHOOSE w \in Specs : TRUE, need |-> 0,
         answer |-> "None", host |-> "none", ro |-> FALSE, misread |-> FALSE]

CanHappen == edits + faults < MaxEvents
Edit == edits < MaxEdits /\ CanHappen /\ edits' = edits + 1
Fault == faults < MaxFaults /\ CanHappen /\ faults' = faults + 1

\* Seeded error: Deployments are not watched.
Watched_NoDeployment == {"Cluster", "Pooler"}
\* WatchConfigs: the kinds whose changes make a reconcile due.
Watched == {"Cluster", "Pooler", "Deployment"}

\* An object of this kind changed.
Event(kind) == queued' = (queued \/ kind \in Watched)

Init ==
    /\ want \in Specs
    /\ cluster = NoCluster /\ pooler = NoPooler /\ deploy = NoDeployment
    /\ monitor = FALSE /\ crd \in BOOLEAN /\ storage = TRUE
    /\ stored = [phase |-> "None", host |-> "none", ro |-> FALSE, misread |-> FALSE]
    /\ queued = TRUE /\ rc = Idle
    /\ edits = 0 /\ faults = 0

-----------------------------------------------------------------------------
(* Validate.                                                               *)

ValidateEngine(w) == w.replicas >= 1

\* The primary is not a standby of itself; the standbys that are listed count.
ValidateSynchronous(w) ==
    w.sync # NotSet => w.sync >= 1 /\ w.sync < w.replicas + w.standbys

validateProxy(w) == w.pool # NotSet => w.pool >= 1

Validate(w) == ValidateEngine(w) /\ ValidateSynchronous(w) /\ validateProxy(w)

ReconcileStart ==
    /\ rc.pc = "idle" /\ queued
    /\ queued' = FALSE
    /\ rc' = IF Validate(want) THEN [Idle EXCEPT !.pc = "storage", !.want = want] ELSE Idle
    /\ UNCHANGED <<want, cluster, pooler, deploy, monitor, crd, storage, stored, edits, faults>>

-----------------------------------------------------------------------------
(* Sync: an error ends it, and the runtime tries again.                    *)

\* SyncBackupInfrastructure comes before the Cluster is applied.
SyncStorage ==
    /\ rc.pc = "storage"
    /\ IF storage THEN rc' = [rc EXCEPT !.pc = "cluster"] /\ UNCHANGED queued
       ELSE rc' = Idle /\ queued' = TRUE
    /\ UNCHANGED <<want, cluster, pooler, deploy, monitor, crd, storage, stored, edits, faults>>

\* The whole spec is replaced, the status stays what it was.
buildClusterSpec ==
    [cluster EXCEPT !.exists = TRUE, !.replicas = rc.want.replicas, !.role = rc.want.role]

SyncCluster ==
    /\ rc.pc = "cluster"
    /\ cluster' = buildClusterSpec
    /\ IF cluster' = cluster THEN UNCHANGED queued ELSE Event("Cluster")
    /\ rc' = [rc EXCEPT !.pc = "monitor"]
    /\ UNCHANGED <<want, pooler, deploy, monitor, crd, storage, stored, edits, faults>>

\* Seeded error: turned off, the PodMonitor is left where it is.
MonitorAfter_KeptWhenOff == monitor \/ (rc.want.prometheus /\ crd)
\* Deleted when turned off; without the CRD there is nothing to create.
MonitorAfter == rc.want.prometheus /\ crd

syncPodMonitor ==
    /\ rc.pc = "monitor"
    /\ monitor' = MonitorAfter
    /\ rc' = [rc EXCEPT !.pc = "pooler"]
    /\ UNCHANGED <<want, cluster, pooler, deploy, crd, storage, stored, queued, edits, faults>>

\* Seeded error: a Pooler that is there is left as it is.
buildPooler_Once == IF pooler.exists THEN pooler
                    ELSE [exists |-> TRUE, instances |-> rc.want.pool, phase |-> "new"]
\* Apply: the spec is replaced, the status stays.
buildPooler == [pooler EXCEPT !.exists = TRUE, !.instances = rc.want.pool]

\* Applied, or (Exists, then Delete) deleted once the component is gone; the
\* Deployment of a deleted Pooler is left to the garbage collector.
syncPooler ==
    /\ rc.pc = "pooler"
    /\ pooler' = IF rc.want.pool = NotSet THEN NoPooler ELSE buildPooler
    /\ deploy' = [deploy EXCEPT !.orphan = @ \/ (deploy.exists /\ ~pooler'.exists)]
    /\ IF pooler' = pooler THEN UNCHANGED queued ELSE Event("Pooler")
    /\ rc' = [rc EXCEPT !.pc = "getcluster"]
    /\ UNCHANGED <<want, cluster, monitor, crd, storage, stored, edits, faults>>

-----------------------------------------------------------------------------
(* Status: Cluster, Secret, Pooler, Deployment, one Get each.  A Cluster   *)
(* or a Secret that cannot be read is an answer and not an error: nobody   *)
(* asks for another reconcile.                                             *)

\* Seeded error: a role without a status is passed on as it is.
ManagedRolesStatus_Raw(c) ==
    IF ~c.role \/ c.roles = "reconciled" THEN "Unblocked"
    ELSE IF c.roles = "cannot" THEN "Failed" ELSE c.roles
\* Every managed role of the spec is reconciled, and none cannot be.
ManagedRolesStatus(c) ==
    IF ~c.role \/ c.roles = "reconciled" THEN "Unblocked"
    ELSE IF c.roles = "cannot" THEN "Failed" ELSE "Provisioning"

\* The Initialized condition, not the number of instances.
IsInitialized(c) == c.initialized

\* The Ready condition, confirmed by the counts.
IsReady(c) == c.conditioned /\ c.instances > 0 /\ c.ready = c.instances

ClusterStatus(c) ==
    IF ~c.exists THEN "Pending"
    ELSE IF c.failed THEN "Failed"
    ELSE IF IsReady(c) THEN ManagedRolesStatus(c)
    ELSE IF IsInitialized(c) THEN "Provisioning" ELSE "Initializing"

PoolerStatus(p) ==
    IF p.exists /\ p.phase = "active" THEN "Unblocked"
    ELSE IF p.exists /\ p.phase = "failed" THEN "Failed" ELSE "Provisioning"

\* Seeded error: one ready pod more than there are.
DeploymentStatus_OneMore(d, need) == IF d.exists /\ d.ready > need THEN "Ready" ELSE "Provisioning"
\* Whoever owns the Deployment of that name: its ready pods count.
DeploymentStatus(d, need) == IF d.exists /\ d.ready >= need THEN "Ready" ELSE "Provisioning"

\* The -ro Service is published if the spec has a replica for it.
HasReadOnly(c) == c.replicas >= 2

\* Status returns; connection details matter if it says Ready.
Returns(status, host, ro) ==
    [Idle EXCEPT !.pc = "publish", !.answer = status, !.host = host, !.ro = ro]
Answer(status) == Returns(status, "none", FALSE)
Misread(status) == [Answer(status) EXCEPT !.misread = TRUE]

StatusGetCluster ==
    /\ rc.pc = "getcluster"
    /\ LET status == ClusterStatus(cluster)
       IN  \/ /\ rc' = IF status # "Unblocked" THEN Answer(status)
                       ELSE [rc EXCEPT !.pc = "getsecret", !.ro = HasReadOnly(cluster)]
              /\ UNCHANGED faults
           \/ Fault /\ rc' = Misread("Pending")
    /\ UNCHANGED <<want, cluster, pooler, deploy, monitor, crd, storage, stored, queued, edits>>

\* connectionDetails, of the Cluster read before.
StatusGetSecret ==
    /\ rc.pc = "getsecret"
    /\ \/ /\ rc' = IF rc.want.pool = NotSet THEN Returns("Ready", "rw", rc.ro)
                   ELSE [rc EXCEPT !.pc = "getpooler"]
          /\ UNCHANGED faults
       \/ Fault /\ rc' = Misread("Provisioning")
    /\ UNCHANGED <<want, cluster, pooler, deploy, monitor, crd, storage, stored, queued, edits>>

StatusGetPooler ==
    /\ rc.pc = "getpooler"
    /\ LET status == PoolerStatus(pooler)
       IN  rc' = IF status # "Unblocked" THEN Answer(status)
                 ELSE [rc EXCEPT !.pc = "getdeployment", !.need = pooler.instances]
    /\ UNCHANGED <<want, cluster, pooler, deploy, monitor, crd, storage, stored, queued, edits, faults>>

StatusGetDeployment ==
    /\ rc.pc = "getdeployment"
    /\ rc' = Returns(DeploymentStatus(deploy, rc.need), "pooler", rc.ro)
    /\ UNCHANGED <<want, cluster, pooler, deploy, monitor, crd, storage, stored, queued, edits, faults>>

\* The runtime stores the answer; connection details come with Ready only.
StatusPublish ==
    /\ rc.pc = "publish"
    /\ stored' = IF rc.answer = "Ready"
                 THEN [phase |-> "Ready", host |-> rc.host, ro |-> rc.ro, misread |-> FALSE]
                 ELSE [stored EXCEPT !.phase = rc.answer, !.misread = rc.misread]
    /\ rc' = Idle
    /\ UNCHANGED <<want, cluster, pooler, deploy, monitor, crd, storage, queued, edits, faults>>

\* An error that Sync or Status returns, a conflict, a crash or a restart.
ReconcileFails ==
    /\ rc.pc # "idle" /\ Fault
    /\ rc' = Idle /\ queued' = TRUE
    /\ UNCHANGED <<want, cluster, pooler, deploy, monitor, crd, storage, stored, edits>>

\* The informers' periodic resync.
Resync ==
    /\ ~queued /\ queued' = TRUE
    /\ UNCHANGED <<want, cluster, pooler, deploy, monitor, crd, storage, stored, rc, edits, faults>>

-----------------------------------------------------------------------------
(* Users and administrators.                                               *)

UserEdits ==
    /\ Edit
    /\ want' \in Specs \ {want}
    /\ queued' = TRUE
    /\ UNCHANGED <<cluster, pooler, deploy, monitor, crd, storage, stored, rc, faults>>

\* kubectl delete, or an operator that removes it.
ClusterVanishes ==
    /\ cluster.exists /\ Fault
    /\ cluster' = NoCluster
    /\ Event("Cluster")
    /\ UNCHANGED <<want, pooler, deploy, monitor, crd, storage, stored, rc, edits>>

\* Nobody tells the provider.
CrdInstalled ==
    /\ ~crd /\ crd' = TRUE
    /\ UNCHANGED <<want, cluster, pooler, deploy, monitor, storage, stored, queued, rc, edits, faults>>

StorageBreaks ==
    /\ storage /\ Fault
    /\ storage' = FALSE
    /\ UNCHANGED <<want, cluster, pooler, deploy, monitor, crd, stored, queued, rc, edits>>

StorageRecovers ==
    /\ ~storage /\ storage' = TRUE
    /\ UNCHANGED <<want, cluster, pooler, deploy, monitor, crd, stored, queued, rc, edits, faults>>

-----------------------------------------------------------------------------
(* CNPG and the controllers of Kubernetes.                                 *)

\* Every change of the Cluster's status.
Reported(c) ==
    /\ cluster.exists /\ c # cluster
    /\ cluster' = c
    /\ Event("Cluster")
    /\ UNCHANGED <<want, pooler, deploy, monitor, crd, storage, stored, rc, edits>>

\* One instance more or less, towards what the spec says.
CnpgScales ==
    /\ cluster.instances # cluster.replicas
    /\ LET n == IF cluster.instances < cluster.replicas
                THEN cluster.instances + 1 ELSE cluster.instances - 1
       IN  Reported([cluster EXCEPT !.instances = n, !.conditioned = FALSE,
                                    !.ready = IF @ < n THEN @ ELSE n])
    /\ UNCHANGED faults

\* The first instance has bootstrapped; before, no pod is ready.
CnpgInitializes ==
    /\ cluster.instances > 0
    /\ Reported([cluster EXCEPT !.initialized = TRUE])
    /\ UNCHANGED faults

CnpgPodReady ==
    /\ cluster.initialized /\ cluster.ready < cluster.instances
    /\ Reported([cluster EXCEPT !.ready = @ + 1])
    /\ UNCHANGED faults

CnpgPodFails ==
    /\ cluster.ready > 0 /\ Fault
    /\ Reported([cluster EXCEPT !.ready = @ - 1])

\* The Ready condition follows the pods, and the spec, later.
CnpgCondition ==
    /\ Reported([cluster EXCEPT !.conditioned =
                   cluster.instances = cluster.replicas /\ cluster.ready = cluster.instances])
    /\ UNCHANGED faults

CnpgFails == Fault /\ Reported([cluster EXCEPT !.failed = TRUE])

\* Somebody intervened.
CnpgRepaired == Reported([cluster EXCEPT !.failed = FALSE]) /\ UNCHANGED faults

CnpgReconcilesRole ==
    /\ cluster.role
    /\ \/ Reported([cluster EXCEPT !.roles = "reconciled"]) /\ UNCHANGED faults
       \/ Fault /\ Reported([cluster EXCEPT !.roles = "cannot"])

PoolerPhase(phase) ==
    /\ pooler.exists /\ pooler.phase # phase
    /\ pooler' = [pooler EXCEPT !.phase = phase]
    /\ Event("Pooler")
    /\ UNCHANGED <<want, cluster, deploy, monitor, crd, storage, stored, rc, edits>>

PoolerActivates == cluster.exists /\ PoolerPhase("active") /\ UNCHANGED faults
PoolerFails == Fault /\ PoolerPhase("failed")

DeploymentChanges(d) ==
    /\ d # deploy
    /\ deploy' = d
    /\ Event("Deployment")
    /\ UNCHANGED <<want, cluster, pooler, monitor, crd, storage, stored, rc, edits>>

\* The operator creates the Deployment of an active Pooler, or makes the one it
\* finds under the name follow the spec.
PoolerDeploys ==
    /\ pooler.exists /\ pooler.phase = "active"
    /\ LET n == pooler.instances
       IN  DeploymentChanges(
               [deploy EXCEPT !.exists = TRUE, !.replicas = n,
                              !.ready = IF @ < n THEN @ ELSE n])
    /\ UNCHANGED faults

DeploymentPodReady ==
    /\ deploy.exists /\ deploy.ready < deploy.replicas
    /\ DeploymentChanges([deploy EXCEPT !.ready = @ + 1])
    /\ UNCHANGED faults

DeploymentPodFails ==
    /\ deploy.exists /\ deploy.ready > 0 /\ Fault
    /\ DeploymentChanges([deploy EXCEPT !.ready = @ - 1])

\* Garbage collection, also after a new Pooler has taken the name.
DeploymentIsCollected ==
    /\ deploy.orphan
    /\ DeploymentChanges(NoDeployment)
    /\ UNCHANGED faults

-----------------------------------------------------------------------------

Sync == SyncStorage \/ SyncCluster \/ syncPodMonitor \/ syncPooler
Status ==
    \/ StatusGetCluster \/ StatusGetSecret \/ StatusGetPooler \/ StatusGetDeployment
    \/ StatusPublish
Reconcile == ReconcileStart \/ Sync \/ Status

Environment ==
    \/ UserEdits \/ ClusterVanishes \/ CrdInstalled \/ StorageBreaks \/ StorageRecovers
    \/ CnpgScales \/ CnpgPodReady \/ CnpgPodFails \/ CnpgInitializes \/ CnpgCondition
    \/ CnpgFails \/ CnpgRepaired \/ CnpgReconcilesRole
    \/ PoolerActivates \/ PoolerFails \/ PoolerDeploys
    \/ DeploymentPodReady \/ DeploymentPodFails \/ DeploymentIsCollected

Next == Reconcile \/ ReconcileFails \/ Resync \/ Environment

Spec == Init /\ [][Next]_vars

(* The worker takes what is queued, the informers resync, CNPG and the     *)
(* Deployment controller do their work, what is broken gets repaired.      *)
(* Nothing is assumed of users and of the installation of the CRD.         *)
Fairness ==
    /\ WF_vars(Reconcile) /\ WF_vars(Resync)
    /\ WF_vars(CnpgScales) /\ WF_vars(CnpgPodReady)
    /\ WF_vars(CnpgInitializes) /\ WF_vars(CnpgCondition)
    /\ WF_vars(CnpgRepaired) /\ WF_vars(cluster.roles # "reconciled" /\ CnpgReconcilesRole)
    /\ WF_vars(PoolerActivates) /\ WF_vars(PoolerDeploys)
    /\ WF_vars(DeploymentPodReady) /\ WF_vars(DeploymentIsCollected)
    /\ WF_vars(StorageRecovers)

FairSpec == Spec /\ Fairness

-----------------------------------------------------------------------------
(* Properties.                                                             *)

Phases == {"None", "Pending", "Failed", "Initializing", "Provisioning", "Ready"}
Hosts == {"none", "rw", "pooler"}

Clusters == [exists : BOOLEAN, replicas : Nat, role : BOOLEAN, instances : Nat,
             ready : Nat, initialized : BOOLEAN, conditioned : BOOLEAN, failed : BOOLEAN,
             roles : {"none", "reconciled", "cannot"}]
Poolers == [exists : BOOLEAN, instances : Nat, phase : {"new", "active", "failed"}]
Deployments == [exists : BOOLEAN, replicas : Nat, ready : Nat, orphan : BOOLEAN]
Published == [phase : Phases, host : Hosts, ro : BOOLEAN, misread : BOOLEAN]
Reconciles == [pc : {"idle", "storage", "cluster", "monitor", "pooler", "getcluster",
                     "getsecret", "getpooler", "getdeployment", "publish"},
               want : Specs, need : Nat, answer : Phases, host : Hosts, ro : BOOLEAN,
               misread : BOOLEAN]

TypeOK ==
    /\ want \in Specs /\ cluster \in Clusters /\ pooler \in Poolers
    /\ deploy \in Deployments /\ stored \in Published /\ rc \in Reconciles
    /\ monitor \in BOOLEAN /\ crd \in BOOLEAN /\ storage \in BOOLEAN /\ queued \in BOOLEAN
    /\ edits \in 0 .. MaxEdits /\ faults \in 0 .. MaxFaults

\* No reconcile is due or running for a spec the provider accepts.
Quiet == ~queued /\ rc.pc = "idle" /\ Validate(want)

\* What Status would answer now if it could read everything.
CurrentAnswer ==
    IF ClusterStatus(cluster) # "Unblocked" THEN ClusterStatus(cluster)
    ELSE IF want.pool = NotSet THEN "Ready"
    ELSE IF PoolerStatus(pooler) # "Unblocked" THEN PoolerStatus(pooler)
    ELSE DeploymentStatus(deploy, pooler.instances)

HostOf(w) == IF w.pool = NotSet THEN "rw" ELSE "pooler"

StatusIsCurrent ==
    /\ stored.phase = CurrentAnswer
    /\ CurrentAnswer = "Ready" => stored.host = HostOf(want) /\ stored.ro = HasReadOnly(cluster)

ClusterIsCurrent ==
    cluster.exists /\ cluster.replicas = want.replicas /\ cluster.role = want.role

PoolerIsCurrent ==
    IF want.pool = NotSet THEN ~pooler.exists
    ELSE pooler.exists /\ pooler.instances = want.pool

\* No lost wake-up (WatchConfigs): whatever happens to Cluster, Pooler and
\* Deployment between the reads of Status, before or after them, once no reconcile
\* is due the stored status is the one Status would compute now, and a Ready
\* Instance publishes the host that serves it.  The exception is an answer for a
\* Cluster or a Secret that could not be read: Status returns it without an error
\* and it stays until something else makes a reconcile due, but it only ever asks
\* users to wait.
NoLostWakeup ==
    Quiet => IF stored.misread THEN stored.phase \in {"Pending", "Provisioning"}
             ELSE StatusIsCurrent

\* No lost edit (the order of the steps of Sync, an error of one of them, an
\* object somebody removes): once no reconcile is due, Cluster and Pooler are
\* those of the spec.
NoLostEdit == Quiet => ClusterIsCurrent /\ PoolerIsCurrent

\* A spec that is accepted and stays as it is gets served: all its instances and
\* pooler pods, Ready, and the pooler as host exactly if it has one, through
\* failing pods, outages, a vanished Cluster, orphaned Deployments and answers of
\* Status for what it could not read.
ValidSpecIsServed ==
    <>[]Validate(want) =>
        <>[](/\ stored.phase = "Ready" /\ stored.host = HostOf(want)
             /\ cluster.ready = want.replicas
             /\ want.pool # NotSet => deploy.ready = want.pool)

\* The PodMonitor comes with the CRD, also one installed later, and goes when
\* Prometheus is turned off (syncPodMonitor).
MonitorFollows ==
    <>[](Validate(want) /\ crd) => <>[](monitor = want.prometheus)
=============================================================================
