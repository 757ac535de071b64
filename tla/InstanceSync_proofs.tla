-------------------------- MODULE InstanceSync_proofs --------------------------
(***************************************************************************)
(* Proofs about InstanceSync, for every set of specs and any number of     *)
(* edits and faults.  The two properties of a quiet Instance are not       *)
(* inductive: what a reconcile has read or written so far must be current  *)
(* unless another reconcile is due.                                        *)
(***************************************************************************)
EXTENDS InstanceSync, TLAPS

\* A reconcile works on a spec that Validate accepted.
SyncIsValid == rc.pc \notin {"idle", "publish"} => Validate(rc.want)

\* No other reconcile is due, and this one has got to one of these steps.
Alone(pcs) == ~queued /\ rc.pc \in pcs

ReadSecret == {"getpooler", "getdeployment"}
ReadCluster == {"getsecret"} \cup ReadSecret
WrotePooler == {"getcluster", "publish"} \cup ReadCluster
WroteCluster == {"monitor", "pooler"} \cup WrotePooler

\* Locals that are not reset yet are those of the current spec.
SpecIsCurrent == Alone({"storage", "cluster"} \cup (WroteCluster \ {"publish"})) => rc.want = want

WritesAreCurrent ==
    /\ Alone(WroteCluster) => ClusterIsCurrent
    /\ Alone(WrotePooler) => PoolerIsCurrent

\* What Status has found so far is what it would find now.
ReadsAreCurrent ==
    /\ Alone(ReadCluster) => ClusterStatus(cluster) = "Unblocked" /\ rc.ro = HasReadOnly(cluster)
    /\ Alone(ReadSecret) => want.pool # NotSet
    /\ Alone({"getdeployment"}) =>
          PoolerStatus(pooler) = "Unblocked" /\ rc.need = pooler.instances

\* An answer is what Status would find now, or stands for a failed Get.
AnswerIsCurrent ==
    Alone({"publish"}) =>
        IF rc.misread THEN rc.answer \in {"Pending", "Provisioning"}
        ELSE /\ rc.answer = CurrentAnswer
             /\ CurrentAnswer = "Ready" => rc.host = HostOf(want) /\ rc.ro = HasReadOnly(cluster)

IInv ==
    /\ TypeOK /\ SyncIsValid /\ SpecIsCurrent /\ WritesAreCurrent /\ ReadsAreCurrent
    /\ AnswerIsCurrent /\ NoLostWakeup /\ NoLostEdit

-----------------------------------------------------------------------------
(* Types.                                                                  *)

\* The fields of a spec.
LEMMA SpecTyped ==
    ASSUME NEW w \in Specs
    PROVE  w.replicas \in Nat /\ w.role \in BOOLEAN /\ w.pool \in Nat \cup {NotSet}
BY SpecsAssumption

\* The values the actions write are of their types.
LEMMA ValuesTyped ==
    /\ NoCluster \in Clusters /\ NoPooler \in Poolers /\ NoDeployment \in Deployments
    /\ Specs # {} => Idle \in Reconciles /\ Idle.pc = "idle" /\ Idle.misread = FALSE
<1>1. NoCluster \in Clusters
  BY DEF NoCluster, Clusters
<1>2. NoPooler \in Poolers /\ NoDeployment \in Deployments
  BY DEF NoPooler, Poolers, NoDeployment, Deployments
<1>3. ASSUME Specs # {} PROVE Idle \in Reconciles /\ Idle.pc = "idle" /\ Idle.misread = FALSE
  <2>1. (CHOOSE w \in Specs : TRUE) \in Specs
    BY <1>3
  <2> QED
    BY <2>1 DEF Idle, Reconciles, Phases, Hosts
<1> QED
  BY <1>1, <1>2, <1>3

\* What the parts of Status answer; none of the first two says Ready.
LEMMA Answers ==
    /\ \A c \in Clusters :
          ClusterStatus(c) \in {"Pending", "Failed", "Initializing", "Provisioning", "Unblocked"}
    /\ \A p \in Poolers : PoolerStatus(p) \in {"Failed", "Provisioning", "Unblocked"}
    /\ \A d \in Deployments, n \in Nat : DeploymentStatus(d, n) \in {"Ready", "Provisioning"}
BY DEF ClusterStatus, ManagedRolesStatus, PoolerStatus, DeploymentStatus

\* What Status returns: a reconcile whose next step is to publish it.
LEMMA ReturnsTyped ==
    ASSUME Specs # {}, NEW status \in Phases, NEW host \in Hosts, NEW ro \in BOOLEAN
    PROVE  /\ Returns(status, host, ro) \in Reconciles
           /\ Returns(status, host, ro).pc = "publish"
           /\ Returns(status, host, ro).answer = status
           /\ Returns(status, host, ro).host = host
           /\ Returns(status, host, ro).ro = ro
           /\ Returns(status, host, ro).misread = FALSE
<1>1. Idle \in Reconciles /\ Idle.misread = FALSE
  BY ValuesTyped
<1> QED
  BY <1>1 DEF Returns, Reconciles

\* The same without connection details.
LEMMA AnswerTyped ==
    ASSUME Specs # {}, NEW status \in Phases
    PROVE  /\ Answer(status) \in Reconciles /\ Answer(status).pc = "publish"
           /\ Answer(status).answer = status /\ Answer(status).misread = FALSE
<1>1. "none" \in Hosts /\ FALSE \in BOOLEAN
  BY DEF Hosts
<1> QED
  BY <1>1, ReturnsTyped DEF Answer

\* The answer for what could not be read.
LEMMA MisreadTyped ==
    ASSUME Specs # {}, NEW status \in {"Pending", "Provisioning"}
    PROVE  /\ Misread(status) \in Reconciles /\ Misread(status).pc = "publish"
           /\ Misread(status).answer = status /\ Misread(status).misread = TRUE
<1>1. status \in Phases
  BY DEF Phases
<1>2. /\ Answer(status) \in Reconciles /\ Answer(status).pc = "publish"
      /\ Answer(status).answer = status
  BY <1>1, AnswerTyped
<1> QED
  BY <1>2 DEF Misread, Reconciles

\* The initial state is well typed.
LEMMA TypeInit == Init => TypeOK
<1> SUFFICES ASSUME Init PROVE TypeOK
  OBVIOUS
<1>1. want \in Specs /\ cluster \in Clusters /\ pooler \in Poolers /\ deploy \in Deployments
  BY ValuesTyped DEF Init
<1>2. rc \in Reconciles
  BY <1>1, ValuesTyped DEF Init
<1>3. stored \in Published
  BY DEF Init, Published, Phases, Hosts
<1>4. edits \in 0 .. MaxEdits /\ faults \in 0 .. MaxFaults
  BY LimitsAssumption DEF Init
<1> QED
  BY <1>1, <1>2, <1>3, <1>4 DEF Init, TypeOK

\* A change of the Cluster's status.
LEMMA ReportedTyped ==
    ASSUME TypeOK, NEW c \in Clusters, Reported(c), UNCHANGED faults \/ Fault
    PROVE  TypeOK'
<1>1. faults' \in 0 .. MaxFaults
  BY LimitsAssumption DEF TypeOK, Fault
<1> QED
  BY <1>1 DEF Reported, Event, TypeOK

\* A change of the Deployment.
LEMMA DeploymentTyped ==
    ASSUME TypeOK, NEW d \in Deployments, DeploymentChanges(d), UNCHANGED faults \/ Fault
    PROVE  TypeOK'
<1>1. faults' \in 0 .. MaxFaults
  BY LimitsAssumption DEF TypeOK, Fault
<1> QED
  BY <1>1 DEF DeploymentChanges, Event, TypeOK

\* A change of the Pooler's phase.
LEMMA PoolerTyped ==
    ASSUME TypeOK, NEW phase \in {"active", "failed"}, PoolerPhase(phase), UNCHANGED faults \/ Fault
    PROVE  TypeOK'
<1>1. faults' \in 0 .. MaxFaults
  BY LimitsAssumption DEF TypeOK, Fault
<1>2. pooler' \in Poolers
  BY DEF TypeOK, PoolerPhase, Poolers
<1> QED
  BY <1>1, <1>2 DEF PoolerPhase, Event, TypeOK

\* Every step of a reconcile keeps the types.
LEMMA TypeReconcile == TypeOK /\ Reconcile => TypeOK'
<1> SUFFICES ASSUME TypeOK, Reconcile PROVE TypeOK'
  OBVIOUS
<1>1. Idle \in Reconciles /\ Idle.pc = "idle" /\ rc.want \in Specs
  BY ValuesTyped DEF TypeOK, Reconciles
<1>2. CASE ReconcileStart
  <2>1. rc' \in Reconciles
    BY <1>1, <1>2 DEF ReconcileStart, TypeOK, Reconciles
  <2> QED
    BY <1>2, <2>1 DEF ReconcileStart, TypeOK
<1>3. CASE SyncStorage
  <2>1. rc' \in Reconciles
    BY <1>1, <1>3 DEF SyncStorage, TypeOK, Reconciles
  <2> QED
    BY <1>3, <2>1 DEF SyncStorage, TypeOK
<1>4. CASE SyncCluster
  <2>1. rc' \in Reconciles
    BY <1>1, <1>4 DEF SyncCluster, TypeOK, Reconciles
  <2>2. rc.want.replicas \in Nat /\ rc.want.role \in BOOLEAN
    BY <1>1, SpecTyped
  <2>3. cluster' \in Clusters
    BY <1>4, <2>2 DEF SyncCluster, buildClusterSpec, TypeOK, Clusters
  <2> QED
    BY <1>4, <2>1, <2>3 DEF SyncCluster, Event, TypeOK
<1>5. CASE syncPodMonitor
  <2>1. rc' \in Reconciles
    BY <1>5 DEF syncPodMonitor, TypeOK, Reconciles
  <2>2. monitor' \in BOOLEAN
    BY <1>5 DEF syncPodMonitor, MonitorAfter
  <2> QED
    BY <1>5, <2>1, <2>2 DEF syncPodMonitor, TypeOK
<1>6. CASE syncPooler
  <2>1. rc' \in Reconciles
    BY <1>6 DEF syncPooler, TypeOK, Reconciles
  <2>2. rc.want.pool \in Nat \cup {NotSet}
    BY <1>1, SpecTyped
  <2>3. pooler' \in Poolers
    BY <1>6, <2>2, ValuesTyped DEF syncPooler, buildPooler, TypeOK, Poolers
  <2>4. deploy' \in Deployments
    BY <1>6, <2>3 DEF syncPooler, TypeOK, Deployments
  <2> QED
    BY <1>6, <2>1, <2>3, <2>4 DEF syncPooler, Event, TypeOK
<1>7. CASE StatusGetCluster
  <2>1. ClusterStatus(cluster) \in Phases \cup {"Unblocked"} /\ HasReadOnly(cluster) \in BOOLEAN
    BY Answers DEF TypeOK, Phases, HasReadOnly
  <2>2. [rc EXCEPT !.pc = "getsecret", !.ro = HasReadOnly(cluster)] \in Reconciles
    BY <2>1 DEF TypeOK, Reconciles
  <2>3. ClusterStatus(cluster) # "Unblocked" => Answer(ClusterStatus(cluster)) \in Reconciles
    BY <1>1, <2>1, AnswerTyped
  <2>4. rc' \in Reconciles
    BY <1>1, <1>7, <2>2, <2>3, MisreadTyped DEF StatusGetCluster
  <2>5. faults' \in 0 .. MaxFaults
    BY <1>7, LimitsAssumption DEF StatusGetCluster, Fault, TypeOK
  <2> QED
    BY <1>7, <2>4, <2>5 DEF StatusGetCluster, TypeOK
<1>8. CASE StatusGetSecret
  <2>1. Returns("Ready", "rw", rc.ro) \in Reconciles
    <3>1. "Ready" \in Phases /\ "rw" \in Hosts /\ rc.ro \in BOOLEAN
      BY DEF TypeOK, Reconciles, Phases, Hosts
    <3> QED
      BY <1>1, <3>1, ReturnsTyped
  <2>2. [rc EXCEPT !.pc = "getpooler"] \in Reconciles
    BY DEF TypeOK, Reconciles
  <2>3. rc' \in Reconciles
    BY <1>1, <1>8, <2>1, <2>2, MisreadTyped DEF StatusGetSecret
  <2>4. faults' \in 0 .. MaxFaults
    BY <1>8, LimitsAssumption DEF StatusGetSecret, Fault, TypeOK
  <2> QED
    BY <1>8, <2>3, <2>4 DEF StatusGetSecret, TypeOK
<1>9. CASE StatusGetPooler
  <2>1. PoolerStatus(pooler) \in Phases \cup {"Unblocked"} /\ pooler.instances \in Nat
    BY Answers DEF TypeOK, Phases, Poolers
  <2>2. [rc EXCEPT !.pc = "getdeployment", !.need = pooler.instances] \in Reconciles
    BY <2>1 DEF TypeOK, Reconciles
  <2>3. PoolerStatus(pooler) # "Unblocked" => Answer(PoolerStatus(pooler)) \in Reconciles
    BY <1>1, <2>1, AnswerTyped
  <2>4. rc' \in Reconciles
    BY <1>9, <2>2, <2>3 DEF StatusGetPooler
  <2> QED
    BY <1>9, <2>4 DEF StatusGetPooler, TypeOK
<1>10. CASE StatusGetDeployment
  <2>1. rc.need \in Nat /\ rc.ro \in BOOLEAN /\ DeploymentStatus(deploy, rc.need) \in Phases
    BY Answers DEF TypeOK, Phases, Reconciles
  <2>2. rc' \in Reconciles
    BY <1>1, <1>10, <2>1, ReturnsTyped DEF StatusGetDeployment, Hosts
  <2> QED
    BY <1>10, <2>2 DEF StatusGetDeployment, TypeOK
<1>11. CASE StatusPublish
  <2>1. rc.answer \in Phases /\ rc.host \in Hosts /\ rc.ro \in BOOLEAN /\ rc.misread \in BOOLEAN
    BY DEF TypeOK, Reconciles
  <2>2. stored' \in Published
    BY <1>11, <2>1 DEF StatusPublish, TypeOK, Published, Phases
  <2> QED
    BY <1>1, <1>11, <2>2 DEF StatusPublish, TypeOK
<1> QED
  BY <1>2, <1>3, <1>4, <1>5, <1>6, <1>7, <1>8, <1>9, <1>10, <1>11 DEF Reconcile, Sync, Status

\* Every step of users, CNPG and the controllers keeps the types.
LEMMA TypeEnvironment == TypeOK /\ Environment => TypeOK'
<1> SUFFICES ASSUME TypeOK, Environment PROVE TypeOK'
  OBVIOUS
<1> USE LimitsAssumption
<1>1. CASE UserEdits
  BY <1>1 DEF UserEdits, Edit, TypeOK
<1>2. CASE ClusterVanishes
  BY <1>2, ValuesTyped DEF ClusterVanishes, Fault, Event, TypeOK
<1>3. CASE CrdInstalled
  BY <1>3 DEF CrdInstalled, TypeOK
<1>4. CASE StorageBreaks
  <2>1. faults' \in 0 .. MaxFaults
    BY <1>4 DEF StorageBreaks, Fault, TypeOK
  <2>2. storage' \in BOOLEAN
    BY <1>4 DEF StorageBreaks
  <2> QED
    BY <1>4, <2>1, <2>2 DEF StorageBreaks, TypeOK
<1>5. CASE StorageRecovers
  BY <1>5 DEF StorageRecovers, TypeOK
<1>6. CASE CnpgScales
  <2> DEFINE n == IF cluster.instances < cluster.replicas
                  THEN cluster.instances + 1 ELSE cluster.instances - 1
             c == [cluster EXCEPT !.instances = n, !.conditioned = FALSE,
                                  !.ready = IF @ < n THEN @ ELSE n]
  <2>1. n \in Nat
    BY <1>6 DEF CnpgScales, TypeOK, Clusters
  <2>2. c \in Clusters
    BY <2>1 DEF TypeOK, Clusters
  <2>3. Reported(c) /\ UNCHANGED faults
    BY <1>6 DEF CnpgScales
  <2> QED
    BY <2>2, <2>3, ReportedTyped
<1>7. CASE CnpgPodReady
  <2>1. [cluster EXCEPT !.ready = @ + 1] \in Clusters
    BY DEF TypeOK, Clusters
  <2> QED
    BY <1>7, <2>1, ReportedTyped DEF CnpgPodReady
<1>8. CASE CnpgPodFails
  <2>1. [cluster EXCEPT !.ready = @ - 1] \in Clusters
    BY <1>8 DEF CnpgPodFails, TypeOK, Clusters
  <2> QED
    BY <1>8, <2>1, ReportedTyped DEF CnpgPodFails
<1>9. CASE CnpgCondition
  <2>1. [cluster EXCEPT !.conditioned =
           cluster.instances = cluster.replicas /\ cluster.ready = cluster.instances] \in Clusters
    BY DEF TypeOK, Clusters
  <2> QED
    BY <1>9, <2>1, ReportedTyped DEF CnpgCondition
<1>10. CASE CnpgFails
  <2>1. [cluster EXCEPT !.failed = TRUE] \in Clusters
    BY DEF TypeOK, Clusters
  <2> QED
    BY <1>10, <2>1, ReportedTyped DEF CnpgFails
<1>11. CASE CnpgRepaired
  <2>1. [cluster EXCEPT !.failed = FALSE] \in Clusters
    BY DEF TypeOK, Clusters
  <2> QED
    BY <1>11, <2>1, ReportedTyped DEF CnpgRepaired
<1>12. CASE CnpgReconcilesRole
  <2>1. /\ [cluster EXCEPT !.roles = "reconciled"] \in Clusters
        /\ [cluster EXCEPT !.roles = "cannot"] \in Clusters
    BY DEF TypeOK, Clusters
  <2> QED
    BY <1>12, <2>1, ReportedTyped DEF CnpgReconcilesRole
<1>13. CASE CnpgInitializes
  <2>1. [cluster EXCEPT !.initialized = TRUE] \in Clusters
    BY DEF TypeOK, Clusters
  <2> QED
    BY <1>13, <2>1, ReportedTyped DEF CnpgInitializes
<1>14. CASE PoolerActivates
  BY <1>14, PoolerTyped DEF PoolerActivates
<1>15. CASE PoolerFails
  BY <1>15, PoolerTyped DEF PoolerFails
<1>16. CASE PoolerDeploys
  <2> DEFINE n == pooler.instances
             d == [deploy EXCEPT !.exists = TRUE, !.replicas = n,
                                 !.ready = IF @ < n THEN @ ELSE n]
  <2>1. n \in Nat
    BY DEF TypeOK, Poolers
  <2>2. d \in Deployments
    BY <2>1 DEF TypeOK, Deployments
  <2>3. DeploymentChanges(d) /\ UNCHANGED faults
    BY <1>16 DEF PoolerDeploys
  <2> QED
    BY <2>2, <2>3, DeploymentTyped
<1>17. CASE DeploymentPodReady
  <2>1. [deploy EXCEPT !.ready = @ + 1] \in Deployments
    BY DEF TypeOK, Deployments
  <2> QED
    BY <1>17, <2>1, DeploymentTyped DEF DeploymentPodReady
<1>18. CASE DeploymentPodFails
  <2>1. [deploy EXCEPT !.ready = @ - 1] \in Deployments
    BY <1>18 DEF DeploymentPodFails, TypeOK, Deployments
  <2> QED
    BY <1>18, <2>1, DeploymentTyped DEF DeploymentPodFails
<1>19. CASE DeploymentIsCollected
  BY <1>19, ValuesTyped, DeploymentTyped DEF DeploymentIsCollected
<1> QED
  BY <1>1, <1>2, <1>3, <1>4, <1>5, <1>6, <1>7, <1>8, <1>9, <1>10, <1>11, <1>12, <1>13, <1>14,
     <1>15, <1>16, <1>17, <1>18, <1>19
  DEF Environment

\* Every step keeps the types.
LEMMA TypeStep == TypeOK /\ [Next]_vars => TypeOK'
<1> SUFFICES ASSUME TypeOK, [Next]_vars PROVE TypeOK'
  OBVIOUS
<1>1. CASE Reconcile
  BY <1>1, TypeReconcile
<1>2. CASE ReconcileFails
  BY <1>2, ValuesTyped, LimitsAssumption DEF ReconcileFails, Fault, TypeOK
<1>3. CASE Resync
  BY <1>3 DEF Resync, TypeOK
<1>4. CASE Environment
  BY <1>4, TypeEnvironment
<1>5. CASE UNCHANGED vars
  BY <1>5 DEF vars, TypeOK
<1> QED
  BY <1>1, <1>2, <1>3, <1>4, <1>5 DEF Next

-----------------------------------------------------------------------------
(* The inductive invariant.                                                *)

\* Initially a reconcile is due.
LEMMA InitIInv == Init => IInv
<1> SUFFICES ASSUME Init PROVE IInv
  OBVIOUS
<1>1. TypeOK /\ queued /\ rc.pc = "idle"
  BY TypeInit, ValuesTyped DEF Init
<1> QED
  BY <1>1
  DEF IInv, SyncIsValid, SpecIsCurrent, WritesAreCurrent, ReadsAreCurrent, AnswerIsCurrent,
      NoLostWakeup, NoLostEdit, Quiet, Alone

\* Whatever else changes, nothing is claimed while a reconcile is due.
LEMMA WhileQueued ==
    ASSUME IInv, TypeOK', queued', rc' = rc \/ rc' = Idle
    PROVE  IInv'
<1>1. SyncIsValid'
  <2>1. CASE rc' = rc
    BY <2>1 DEF IInv, SyncIsValid, Validate, ValidateEngine, ValidateSynchronous, validateProxy
  <2>2. CASE rc' = Idle
    BY <2>2, ValuesTyped DEF IInv, TypeOK, SyncIsValid
  <2> QED
    BY <2>1, <2>2
<1> QED
  BY <1>1
  DEF IInv, SpecIsCurrent, WritesAreCurrent, ReadsAreCurrent, AnswerIsCurrent,
      NoLostWakeup, NoLostEdit, Quiet, Alone

\* What a reconcile that changes nothing but its locals leaves as it is.
LEMMA SameObjects ==
    ASSUME UNCHANGED <<want, cluster, pooler, deploy, queued>>
    PROVE  /\ ClusterIsCurrent' = ClusterIsCurrent /\ PoolerIsCurrent' = PoolerIsCurrent
           /\ ClusterStatus(cluster)' = ClusterStatus(cluster)
           /\ PoolerStatus(pooler)' = PoolerStatus(pooler)
           /\ CurrentAnswer' = CurrentAnswer
           /\ HostOf(want)' = HostOf(want) /\ HasReadOnly(cluster)' = HasReadOnly(cluster)
           /\ Validate(want)' = Validate(want)
<1>1. ClusterIsCurrent' = ClusterIsCurrent
  BY DEF ClusterIsCurrent
<1>2. PoolerIsCurrent' = PoolerIsCurrent
  BY DEF PoolerIsCurrent
<1>3. ClusterStatus(cluster)' = ClusterStatus(cluster)
  BY DEF ClusterStatus, IsReady, ManagedRolesStatus, IsInitialized
<1>4. PoolerStatus(pooler)' = PoolerStatus(pooler)
  BY DEF PoolerStatus
<1>5. DeploymentStatus(deploy, pooler.instances)' = DeploymentStatus(deploy, pooler.instances)
  BY DEF DeploymentStatus
<1>6. CurrentAnswer' = CurrentAnswer
  BY <1>3, <1>4, <1>5 DEF CurrentAnswer
<1>7. HostOf(want)' = HostOf(want) /\ HasReadOnly(cluster)' = HasReadOnly(cluster)
  BY DEF HostOf, HasReadOnly
<1>8. Validate(want)' = Validate(want)
  BY DEF Validate, ValidateEngine, ValidateSynchronous, validateProxy
<1> QED
  BY <1>1, <1>2, <1>3, <1>4, <1>6, <1>7, <1>8

\* Where a step leads, what is claimed there and whom it concerns.
LEMMA StepReconcileStart == IInv /\ TypeOK' /\ ReconcileStart => IInv'
<1> SUFFICES ASSUME IInv, TypeOK', ReconcileStart PROVE IInv'
  OBVIOUS
<1>1. UNCHANGED <<want, cluster, pooler, deploy>> /\ ~queued'
  BY DEF ReconcileStart
<1>2. Idle \in Reconciles /\ Idle.pc = "idle"
  BY ValuesTyped DEF IInv, TypeOK
<1>3. CASE Validate(want)
  <2>1. rc'.pc = "storage" /\ rc'.want = want
    BY <1>2, <1>3 DEF ReconcileStart, Reconciles
  <2>2. Validate(want)'
    BY <1>1, <1>3 DEF Validate, ValidateEngine, ValidateSynchronous, validateProxy
  <2>3. SyncIsValid'
    BY <1>1, <1>3, <2>1 DEF SyncIsValid, Validate, ValidateEngine, ValidateSynchronous, validateProxy
  <2> QED
    BY <1>1, <2>1, <2>3
    DEF IInv, SpecIsCurrent, WritesAreCurrent, ReadsAreCurrent, AnswerIsCurrent,
        NoLostWakeup, NoLostEdit, Quiet, Alone, WroteCluster, WrotePooler, ReadCluster, ReadSecret
<1>4. CASE ~Validate(want)
  <2>1. rc'.pc = "idle" /\ ~Validate(want)'
    BY <1>1, <1>2, <1>4
    DEF ReconcileStart, Validate, ValidateEngine, ValidateSynchronous, validateProxy
  <2> QED
    BY <1>1, <2>1
    DEF IInv, SyncIsValid, SpecIsCurrent, WritesAreCurrent, ReadsAreCurrent, AnswerIsCurrent,
        NoLostWakeup, NoLostEdit, Quiet, Alone, WroteCluster, WrotePooler, ReadCluster, ReadSecret
<1> QED
  BY <1>3, <1>4

LEMMA StepSyncStorage == IInv /\ TypeOK' /\ SyncStorage => IInv'
<1> SUFFICES ASSUME IInv, TypeOK', SyncStorage PROVE IInv'
  OBVIOUS
<1>1. CASE ~storage
  BY <1>1, WhileQueued DEF SyncStorage
<1>2. CASE storage
  <2>1. /\ rc'.pc = "cluster" /\ rc'.want = rc.want /\ rc.pc = "storage"
        /\ UNCHANGED <<want, queued>>
    BY <1>2 DEF SyncStorage, IInv, TypeOK, Reconciles
  <2>2. SyncIsValid'
    BY <2>1 DEF IInv, SyncIsValid, Validate, ValidateEngine, ValidateSynchronous, validateProxy
  <2> QED
    BY <2>1, <2>2
    DEF IInv, SpecIsCurrent, WritesAreCurrent, ReadsAreCurrent, AnswerIsCurrent,
        NoLostWakeup, NoLostEdit, Quiet, Alone, WroteCluster, WrotePooler, ReadCluster, ReadSecret
<1> QED
  BY <1>1, <1>2

\* The Cluster that is applied is that of the current spec.
LEMMA StepSyncCluster == IInv /\ TypeOK' /\ SyncCluster => IInv'
<1> SUFFICES ASSUME IInv, TypeOK', SyncCluster PROVE IInv'
  OBVIOUS
<1>1. /\ rc'.pc = "monitor" /\ rc'.want = rc.want /\ rc.pc = "cluster"
      /\ UNCHANGED want /\ (~queued' => ~queued)
  BY DEF SyncCluster, Event, IInv, TypeOK, Reconciles
<1>2. SyncIsValid'
  BY <1>1 DEF IInv, SyncIsValid, Validate, ValidateEngine, ValidateSynchronous, validateProxy
<1>3. cluster'.exists /\ cluster'.replicas = rc.want.replicas /\ cluster'.role = rc.want.role
  BY DEF SyncCluster, buildClusterSpec, IInv, TypeOK, Clusters
<1>4. ~queued' => rc.want = want /\ ClusterIsCurrent'
  BY <1>1, <1>3 DEF IInv, SpecIsCurrent, Alone, ClusterIsCurrent
<1> QED
  BY <1>1, <1>2, <1>4
  DEF IInv, SpecIsCurrent, WritesAreCurrent, ReadsAreCurrent, AnswerIsCurrent,
      NoLostWakeup, NoLostEdit, Quiet, Alone, WroteCluster, WrotePooler, ReadCluster, ReadSecret

LEMMA StepSyncPodMonitor == IInv /\ TypeOK' /\ syncPodMonitor => IInv'
<1> SUFFICES ASSUME IInv, TypeOK', syncPodMonitor PROVE IInv'
  OBVIOUS
<1>1. /\ rc'.pc = "pooler" /\ rc'.want = rc.want /\ rc.pc = "monitor"
      /\ UNCHANGED <<want, cluster, pooler, deploy, queued>>
  BY DEF syncPodMonitor, IInv, TypeOK, Reconciles
<1>2. SyncIsValid'
  BY <1>1 DEF IInv, SyncIsValid, Validate, ValidateEngine, ValidateSynchronous, validateProxy
<1>3. ~queued => ClusterIsCurrent' /\ rc.want = want
  BY <1>1, SameObjects DEF IInv, WritesAreCurrent, SpecIsCurrent, Alone, WroteCluster
<1> QED
  BY <1>1, <1>2, <1>3
  DEF IInv, SpecIsCurrent, WritesAreCurrent, ReadsAreCurrent, AnswerIsCurrent,
      NoLostWakeup, NoLostEdit, Quiet, Alone, WroteCluster, WrotePooler, ReadCluster, ReadSecret

\* The Pooler is applied or deleted after the current spec.
LEMMA StepSyncPooler == IInv /\ TypeOK' /\ syncPooler => IInv'
<1> SUFFICES ASSUME IInv, TypeOK', syncPooler PROVE IInv'
  OBVIOUS
<1>1. /\ rc'.pc = "getcluster" /\ rc'.want = rc.want /\ rc.pc = "pooler"
      /\ UNCHANGED <<want, cluster>> /\ (~queued' => ~queued)
  BY DEF syncPooler, Event, IInv, TypeOK, Reconciles
<1>2. SyncIsValid'
  BY <1>1 DEF IInv, SyncIsValid, Validate, ValidateEngine, ValidateSynchronous, validateProxy
<1>3. ~queued' => rc.want = want /\ ClusterIsCurrent'
  BY <1>1 DEF IInv, WritesAreCurrent, SpecIsCurrent, Alone, WroteCluster, ClusterIsCurrent
<1>4. IF rc.want.pool = NotSet THEN ~pooler'.exists
      ELSE pooler'.exists /\ pooler'.instances = rc.want.pool
  BY DEF syncPooler, buildPooler, NoPooler, IInv, TypeOK, Poolers
<1>5. ~queued' => PoolerIsCurrent'
  BY <1>1, <1>3, <1>4 DEF PoolerIsCurrent
<1> QED
  BY <1>1, <1>2, <1>3, <1>5
  DEF IInv, SpecIsCurrent, WritesAreCurrent, ReadsAreCurrent, AnswerIsCurrent,
      NoLostWakeup, NoLostEdit, Quiet, Alone, WroteCluster, WrotePooler, ReadCluster, ReadSecret

\* The first Get of Status: an answer that is not Ready is final, and so is the
\* answer to a failed Get.
LEMMA StepStatusGetCluster == IInv /\ TypeOK' /\ StatusGetCluster => IInv'
<1> SUFFICES ASSUME IInv, TypeOK', StatusGetCluster PROVE IInv'
  OBVIOUS
<1>1. UNCHANGED <<want, cluster, pooler, deploy, queued>> /\ rc.pc = "getcluster"
  BY DEF StatusGetCluster
<1>2. ~queued => rc.want = want /\ ClusterIsCurrent' /\ PoolerIsCurrent'
  BY <1>1, SameObjects
  DEF IInv, SpecIsCurrent, WritesAreCurrent, Alone, WroteCluster, WrotePooler
<1>3. Specs # {}
  BY DEF IInv, TypeOK
<1>4. ASSUME rc'.pc = "publish", AnswerIsCurrent' PROVE IInv'
  BY <1>1, <1>2, <1>4
  DEF IInv, SyncIsValid, SpecIsCurrent, WritesAreCurrent, ReadsAreCurrent,
      NoLostWakeup, NoLostEdit, Quiet, Alone, WroteCluster, WrotePooler, ReadCluster, ReadSecret
<1>5. CASE rc' = Misread("Pending")
  <2>1. rc'.pc = "publish" /\ rc'.misread = TRUE /\ rc'.answer = "Pending"
    BY <1>3, <1>5, MisreadTyped
  <2> QED
    BY <1>4, <2>1 DEF AnswerIsCurrent
<1>6. CASE ClusterStatus(cluster) # "Unblocked" /\ rc' = Answer(ClusterStatus(cluster))
  <2>1. rc'.pc = "publish" /\ rc'.answer = ClusterStatus(cluster) /\ rc'.misread = FALSE
    <3>1. ClusterStatus(cluster) \in Phases
      BY <1>6, Answers DEF IInv, TypeOK, Phases
    <3> QED
      BY <1>3, <1>6, <3>1, AnswerTyped
  <2>2. CurrentAnswer = ClusterStatus(cluster) /\ CurrentAnswer # "Ready"
    BY <1>6, Answers DEF CurrentAnswer, IInv, TypeOK
  <2>3. AnswerIsCurrent'
    BY <1>1, <2>1, <2>2, SameObjects DEF AnswerIsCurrent, Alone
  <2> QED
    BY <1>4, <2>1, <2>3
<1>7. CASE /\ ClusterStatus(cluster) = "Unblocked"
           /\ rc' = [rc EXCEPT !.pc = "getsecret", !.ro = HasReadOnly(cluster)]
  <2>1. rc'.pc = "getsecret" /\ rc'.want = rc.want /\ rc'.ro = HasReadOnly(cluster)
    BY <1>7 DEF IInv, TypeOK, Reconciles
  <2>2. SyncIsValid'
    BY <1>1, <2>1 DEF IInv, SyncIsValid, Validate, ValidateEngine, ValidateSynchronous, validateProxy
  <2>3. ReadsAreCurrent'
    BY <1>1, <1>7, <2>1, SameObjects DEF ReadsAreCurrent, Alone, ReadSecret
  <2> QED
    BY <1>1, <1>2, <2>1, <2>2, <2>3
    DEF IInv, SpecIsCurrent, WritesAreCurrent, AnswerIsCurrent,
        NoLostWakeup, NoLostEdit, Quiet, Alone, WroteCluster, WrotePooler, ReadCluster, ReadSecret
<1> QED
  BY <1>5, <1>6, <1>7 DEF StatusGetCluster

\* The Secret: without a Pooler the Instance is Ready.
LEMMA StepStatusGetSecret == IInv /\ TypeOK' /\ StatusGetSecret => IInv'
<1> SUFFICES ASSUME IInv, TypeOK', StatusGetSecret PROVE IInv'
  OBVIOUS
<1>1. UNCHANGED <<want, cluster, pooler, deploy, queued>> /\ rc.pc = "getsecret"
  BY DEF StatusGetSecret
<1>2. ~queued => /\ rc.want = want /\ ClusterIsCurrent' /\ PoolerIsCurrent'
                 /\ ClusterStatus(cluster) = "Unblocked" /\ rc.ro = HasReadOnly(cluster)
  BY <1>1, SameObjects
  DEF IInv, SpecIsCurrent, WritesAreCurrent, ReadsAreCurrent, Alone, WroteCluster, WrotePooler,
      ReadCluster
<1>3. Specs # {}
  BY DEF IInv, TypeOK
<1>4. ASSUME rc'.pc = "publish", AnswerIsCurrent' PROVE IInv'
  BY <1>1, <1>2, <1>4
  DEF IInv, SyncIsValid, SpecIsCurrent, WritesAreCurrent, ReadsAreCurrent,
      NoLostWakeup, NoLostEdit, Quiet, Alone, WroteCluster, WrotePooler, ReadCluster, ReadSecret
<1>5. CASE rc' = Misread("Provisioning")
  <2>1. rc'.pc = "publish" /\ rc'.misread = TRUE /\ rc'.answer = "Provisioning"
    BY <1>3, <1>5, MisreadTyped
  <2> QED
    BY <1>4, <2>1 DEF AnswerIsCurrent
<1>6. CASE rc.want.pool = NotSet /\ rc' = Returns("Ready", "rw", rc.ro)
  <2>1. /\ rc'.pc = "publish" /\ rc'.answer = "Ready" /\ rc'.host = "rw" /\ rc'.ro = rc.ro
        /\ rc'.misread = FALSE
    BY <1>3, <1>6, ValuesTyped DEF Returns, Reconciles
  <2>2. ~queued => CurrentAnswer = "Ready" /\ HostOf(want) = "rw"
    BY <1>2, <1>6 DEF CurrentAnswer, HostOf
  <2>3. AnswerIsCurrent'
    BY <1>1, <1>2, <2>1, <2>2, SameObjects DEF AnswerIsCurrent, Alone
  <2> QED
    BY <1>4, <2>1, <2>3
<1>7. CASE rc.want.pool # NotSet /\ rc' = [rc EXCEPT !.pc = "getpooler"]
  <2>1. rc'.pc = "getpooler" /\ rc'.want = rc.want /\ rc'.ro = rc.ro
    BY <1>7 DEF IInv, TypeOK, Reconciles
  <2>2. SyncIsValid'
    BY <1>1, <2>1 DEF IInv, SyncIsValid, Validate, ValidateEngine, ValidateSynchronous, validateProxy
  <2>3. ReadsAreCurrent'
    BY <1>1, <1>2, <1>7, <2>1, SameObjects DEF ReadsAreCurrent, Alone
  <2> QED
    BY <1>1, <1>2, <2>1, <2>2, <2>3
    DEF IInv, SpecIsCurrent, WritesAreCurrent, AnswerIsCurrent,
        NoLostWakeup, NoLostEdit, Quiet, Alone, WroteCluster, WrotePooler, ReadCluster, ReadSecret
<1> QED
  BY <1>5, <1>6, <1>7 DEF StatusGetSecret

LEMMA StepStatusGetPooler == IInv /\ TypeOK' /\ StatusGetPooler => IInv'
<1> SUFFICES ASSUME IInv, TypeOK', StatusGetPooler PROVE IInv'
  OBVIOUS
<1>1. UNCHANGED <<want, cluster, pooler, deploy, queued>> /\ rc.pc = "getpooler"
  BY DEF StatusGetPooler
<1>2. ~queued => /\ rc.want = want /\ ClusterIsCurrent' /\ PoolerIsCurrent'
                 /\ want.pool # NotSet /\ ClusterStatus(cluster) = "Unblocked"
                 /\ rc.ro = HasReadOnly(cluster)
  BY <1>1, SameObjects
  DEF IInv, SpecIsCurrent, WritesAreCurrent, ReadsAreCurrent, Alone, WroteCluster, WrotePooler,
      ReadCluster, ReadSecret
<1>3. Specs # {}
  BY DEF IInv, TypeOK
<1>4. CASE PoolerStatus(pooler) # "Unblocked"
  <2>1. rc'.pc = "publish" /\ rc'.answer = PoolerStatus(pooler) /\ rc'.misread = FALSE
    <3>1. PoolerStatus(pooler) \in Phases
      BY <1>4, Answers DEF IInv, TypeOK, Phases
    <3> QED
      BY <1>3, <1>4, <3>1, AnswerTyped DEF StatusGetPooler
  <2>2. ~queued => CurrentAnswer = PoolerStatus(pooler) /\ CurrentAnswer # "Ready"
    BY <1>2, <1>4, Answers DEF CurrentAnswer, IInv, TypeOK
  <2>3. AnswerIsCurrent'
    BY <1>1, <2>1, <2>2, SameObjects DEF AnswerIsCurrent, Alone
  <2> QED
    BY <1>1, <1>2, <2>1, <2>3
    DEF IInv, SyncIsValid, SpecIsCurrent, WritesAreCurrent, ReadsAreCurrent,
        NoLostWakeup, NoLostEdit, Quiet, Alone, WroteCluster, WrotePooler, ReadCluster, ReadSecret
<1>5. CASE PoolerStatus(pooler) = "Unblocked"
  <2>1. /\ rc'.pc = "getdeployment" /\ rc'.need = pooler.instances
        /\ rc'.want = rc.want /\ rc'.ro = rc.ro
    BY <1>5 DEF StatusGetPooler, IInv, TypeOK, Reconciles
  <2>2. SyncIsValid'
    BY <1>1, <2>1 DEF IInv, SyncIsValid, Validate, ValidateEngine, ValidateSynchronous, validateProxy
  <2>3. ReadsAreCurrent'
    BY <1>1, <1>2, <1>5, <2>1, SameObjects DEF ReadsAreCurrent, Alone
  <2> QED
    BY <1>1, <1>2, <2>1, <2>2, <2>3
    DEF IInv, SpecIsCurrent, WritesAreCurrent, AnswerIsCurrent,
        NoLostWakeup, NoLostEdit, Quiet, Alone, WroteCluster, WrotePooler, ReadCluster, ReadSecret
<1> QED
  BY <1>4, <1>5

LEMMA StepStatusGetDeployment == IInv /\ TypeOK' /\ StatusGetDeployment => IInv'
<1> SUFFICES ASSUME IInv, TypeOK', StatusGetDeployment PROVE IInv'
  OBVIOUS
<1>1. UNCHANGED <<want, cluster, pooler, deploy, queued>> /\ rc.pc = "getdeployment"
  BY DEF StatusGetDeployment
<1>2. ~queued => /\ ClusterIsCurrent' /\ PoolerIsCurrent'
                 /\ want.pool # NotSet /\ ClusterStatus(cluster) = "Unblocked"
                 /\ PoolerStatus(pooler) = "Unblocked" /\ rc.need = pooler.instances
                 /\ rc.ro = HasReadOnly(cluster)
  BY <1>1, SameObjects
  DEF IInv, WritesAreCurrent, ReadsAreCurrent, Alone, WroteCluster, WrotePooler, ReadCluster,
      ReadSecret
<1>3. /\ rc'.pc = "publish" /\ rc'.answer = DeploymentStatus(deploy, rc.need)
      /\ rc'.host = "pooler" /\ rc'.ro = rc.ro /\ rc'.misread = FALSE
  <2>1. Specs # {}
    BY DEF IInv, TypeOK
  <2> QED
    BY <2>1, ValuesTyped DEF StatusGetDeployment, Returns, Reconciles
<1>4. ~queued => CurrentAnswer = rc'.answer /\ HostOf(want) = "pooler"
  BY <1>2, <1>3 DEF CurrentAnswer, HostOf
<1>5. AnswerIsCurrent'
  BY <1>1, <1>2, <1>3, <1>4, SameObjects DEF AnswerIsCurrent, Alone
<1> QED
  BY <1>1, <1>2, <1>3, <1>5
  DEF IInv, SyncIsValid, SpecIsCurrent, WritesAreCurrent, ReadsAreCurrent,
      NoLostWakeup, NoLostEdit, Quiet, Alone, WroteCluster, WrotePooler, ReadCluster, ReadSecret

\* What is published is current or marked, and the Instance is quiet from here on.
LEMMA StepStatusPublish == IInv /\ TypeOK' /\ StatusPublish => IInv'
<1> SUFFICES ASSUME IInv, TypeOK', StatusPublish PROVE IInv'
  OBVIOUS
<1>1. UNCHANGED <<want, cluster, pooler, deploy, queued>> /\ rc.pc = "publish"
  BY DEF StatusPublish
<1>2. rc'.pc = "idle"
  BY ValuesTyped DEF StatusPublish, IInv, TypeOK
<1>3. ~queued => ClusterIsCurrent' /\ PoolerIsCurrent' /\ AnswerIsCurrent
  BY <1>1, SameObjects
  DEF IInv, WritesAreCurrent, Alone, WroteCluster, WrotePooler
<1>4. /\ stored'.phase = rc.answer
      /\ rc.answer = "Ready" => /\ stored'.host = rc.host /\ stored'.ro = rc.ro
                                /\ stored'.misread = FALSE
      /\ rc.answer # "Ready" => stored'.misread = rc.misread
  BY DEF StatusPublish, IInv, TypeOK, Published
<1>5. ~queued => IF rc.misread THEN rc.answer \in {"Pending", "Provisioning"}
                 ELSE StatusIsCurrent'
  BY <1>1, <1>3, <1>4, SameObjects DEF AnswerIsCurrent, Alone, StatusIsCurrent
<1>6. NoLostWakeup'
  BY <1>1, <1>4, <1>5 DEF NoLostWakeup, Quiet
<1> QED
  BY <1>1, <1>2, <1>3, <1>6
  DEF IInv, SyncIsValid, SpecIsCurrent, WritesAreCurrent, ReadsAreCurrent, AnswerIsCurrent,
      NoLostEdit, Quiet, Alone, WroteCluster, WrotePooler, ReadCluster, ReadSecret

\* Users, CNPG and the controllers: whoever changes something that is watched, or
\* the spec, makes a reconcile due.
LEMMA EnvironmentIsNoticed ==
    Environment =>
        /\ rc' = rc
        /\ queued' \/ UNCHANGED <<want, cluster, pooler, deploy, stored, queued>>
BY DEF Environment, UserEdits, ClusterVanishes, CrdInstalled, StorageBreaks, StorageRecovers,
       CnpgScales, CnpgInitializes, CnpgPodReady, CnpgPodFails, CnpgCondition, CnpgFails,
       CnpgRepaired,
       CnpgReconcilesRole, Reported, PoolerActivates, PoolerFails, PoolerPhase, PoolerDeploys,
       DeploymentPodReady, DeploymentPodFails, DeploymentIsCollected, DeploymentChanges,
       Event, Watched

\* Nothing that the invariant is about changes.
LEMMA WhileUnchanged ==
    ASSUME IInv, TypeOK', rc' = rc, UNCHANGED <<want, cluster, pooler, deploy, stored, queued>>
    PROVE  IInv'
<1>1. SyncIsValid' /\ SpecIsCurrent'
  BY DEF IInv, SyncIsValid, SpecIsCurrent, Alone, Validate, ValidateEngine, ValidateSynchronous,
         validateProxy
<1>2. WritesAreCurrent' /\ ReadsAreCurrent' /\ AnswerIsCurrent'
  BY SameObjects DEF IInv, WritesAreCurrent, ReadsAreCurrent, AnswerIsCurrent, Alone
<1>3. StatusIsCurrent' = StatusIsCurrent
  BY SameObjects DEF StatusIsCurrent
<1>4. NoLostWakeup' /\ NoLostEdit'
  BY <1>3, SameObjects DEF IInv, NoLostWakeup, NoLostEdit, Quiet
<1> QED
  BY <1>1, <1>2, <1>4 DEF IInv

\* Every step keeps the inductive invariant.
LEMMA StepIInv == IInv /\ [Next]_vars => IInv'
<1> SUFFICES ASSUME IInv, [Next]_vars PROVE IInv'
  OBVIOUS
<1>1. TypeOK'
  BY TypeStep DEF IInv
<1>2. CASE Reconcile
  BY <1>1, <1>2, StepReconcileStart, StepSyncStorage, StepSyncCluster, StepSyncPodMonitor,
     StepSyncPooler, StepStatusGetCluster, StepStatusGetSecret, StepStatusGetPooler,
     StepStatusGetDeployment, StepStatusPublish
  DEF Reconcile, Sync, Status
<1>3. CASE ReconcileFails
  BY <1>1, <1>3, WhileQueued DEF ReconcileFails
<1>4. CASE Resync
  BY <1>1, <1>4, WhileQueued DEF Resync
<1>5. CASE Environment
  BY <1>1, <1>5, EnvironmentIsNoticed, WhileQueued, WhileUnchanged
<1>6. CASE UNCHANGED vars
  BY <1>1, <1>6, WhileUnchanged DEF vars
<1> QED
  BY <1>2, <1>3, <1>4, <1>5, <1>6 DEF Next

-----------------------------------------------------------------------------
(* The theorems.                                                           *)

\* The whole inductive invariant, for citing.
THEOREM Invariance == Spec => []IInv
BY InitIInv, StepIInv, PTL DEF Spec

\* Type correctness: in particular Status always answers one of its phases.
THEOREM TypeCorrect == Spec => []TypeOK
<1>1. IInv => TypeOK
  BY DEF IInv
<1> QED
  BY <1>1, Invariance, PTL

\* Once no reconcile is due or running, the stored status is the one Status would
\* compute, whatever happened between its Gets, unless it stands for a Cluster or a
\* Secret that could not be read; then it asks users to wait.
THEOREM NoWakeupIsLost == Spec => []NoLostWakeup
<1>1. IInv => NoLostWakeup
  BY DEF IInv
<1> QED
  BY <1>1, Invariance, PTL

\* Once no reconcile is due or running, Cluster and Pooler are those of the spec.
THEOREM NoEditIsLost == Spec => []NoLostEdit
<1>1. IInv => NoLostEdit
  BY DEF IInv
<1> QED
  BY <1>1, Invariance, PTL
=============================================================================
