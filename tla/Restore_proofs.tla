----------------------------- MODULE Restore_proofs -----------------------------
(***************************************************************************)
(* Proofs about Restore, for any number of backups, edits and faults.  The *)
(* two invariants are made inductive by what the locals and the Cluster    *)
(* remember: the base backup that was resolved, and signs of a recovery.   *)
(***************************************************************************)
EXTENDS Restore, TLAPS

\* A completed CNPG Backup that has a Barman ID has a completed base backup, and a
\* resolved data source is one, even if record and CNPG Backup are gone by now.
ResolvedIsCompleted ==
    /\ origin.phase = "completed" /\ origin.id # 0 => origin.id \in completed
    /\ kind = "backup" /\ rc.pc = "apply" => rc.from \in completed

\* A Cluster that is healthy, has a primary or has been ready was recovered.
SignsOfRecovery ==
    cluster.phase = "healthy" \/ cluster.primary \/ cluster.conditioned => recoveries # {}

\* Nobody takes the restore for done before.
NotDoneBefore == rr = "Succeeded" \/ rc.done => recoveries # {}

IInv ==
    /\ TypeOK /\ ResolvedIsCompleted /\ RecoversCompleted
    /\ SignsOfRecovery /\ NotDoneBefore /\ DoneMeansRecovered

-----------------------------------------------------------------------------
(* Types.                                                                  *)

\* The values the actions write are of their types.
LEMMA ValuesTyped ==
    /\ \A s \in 0 .. MaxEdits, from \in 0 .. MaxBackups :
          /\ NewCluster(s, from) \in Clusters
          /\ NewCluster(s, from).from = from /\ NewCluster(s, from).phase = "setup"
          /\ ~NewCluster(s, from).primary /\ ~NewCluster(s, from).conditioned
    /\ NoCluster \in Clusters /\ ~NoCluster.exists
    /\ NoCluster.phase = "setup" /\ ~NoCluster.primary /\ ~NoCluster.conditioned
    /\ Idle \in Reconciles /\ Idle.pc = "idle" /\ ~Idle.done
    /\ Source!NoOrigin \in Origins /\ Source!NewOrigin \in Origins
    /\ Source!NoOrigin.phase = "absent" /\ Source!NewOrigin.phase = "incomplete"
<1> USE LimitsAssumption
<1>1. \A s \in 0 .. MaxEdits, from \in 0 .. MaxBackups :
        /\ NewCluster(s, from) \in Clusters
        /\ NewCluster(s, from).from = from /\ NewCluster(s, from).phase = "setup"
        /\ ~NewCluster(s, from).primary /\ ~NewCluster(s, from).conditioned
  BY DEF NewCluster, Clusters, Phases
<1>2. \A c \in Clusters :
        /\ [c EXCEPT !.exists = FALSE] \in Clusters /\ ~[c EXCEPT !.exists = FALSE].exists
        /\ [c EXCEPT !.exists = FALSE].phase = c.phase
        /\ [c EXCEPT !.exists = FALSE].primary = c.primary
        /\ [c EXCEPT !.exists = FALSE].conditioned = c.conditioned
  BY DEF Clusters
<1>3. /\ NoCluster \in Clusters /\ ~NoCluster.exists
      /\ NoCluster.phase = "setup" /\ ~NoCluster.primary /\ ~NoCluster.conditioned
  <2>1. Archive \in 0 .. MaxBackups /\ 0 \in 0 .. MaxEdits
    BY DEF Archive
  <2> QED
    BY <1>1, <1>2, <2>1 DEF NoCluster
<1>4. Idle \in Reconciles /\ Idle.pc = "idle" /\ ~Idle.done
  BY DEF Idle, Reconciles, Archive
<1>5. /\ Source!NoOrigin \in Origins /\ Source!NewOrigin \in Origins
      /\ Source!NoOrigin.phase = "absent" /\ Source!NewOrigin.phase = "incomplete"
  BY DEF Origins, Source!NoOrigin, Source!NewOrigin
<1> QED
  BY <1>1, <1>3, <1>4, <1>5

\* The initial state is well typed.
LEMMA TypeInit == Init => TypeOK
<1> SUFFICES ASSUME Init PROVE TypeOK
  OBVIOUS
<1>1. origin \in Origins /\ cluster \in Clusters /\ rc \in Reconciles
  BY ValuesTyped DEF Init, Source!Init
<1>2. ended \in 0 .. MaxBackups /\ spec \in 0 .. MaxEdits /\ faults \in 0 .. MaxFaults
  BY LimitsAssumption DEF Init, Source!Init
<1>3. reported \in BOOLEAN /\ extras \in BOOLEAN
  BY DEF Init, Source!Init
<1>4. /\ catalog \subseteq BackupIds /\ completed \subseteq BackupIds
      /\ recoveries \subseteq 0 .. MaxBackups
  BY DEF Init, Source!Init
<1>5. restore \in RestoreStates /\ rr \in RestoreStates \cup {"idle"}
  BY DEF Init, RestoreStates
<1>6. /\ kind \in {"backup", "pointInTime"}
      /\ stored \in {"None", "Restoring", "Pending", "Failed", "Ready", "Provisioning"}
  BY DEF Init
<1> QED
  BY <1>1, <1>2, <1>3, <1>4, <1>5, <1>6 DEF TypeOK

\* Every step of a reconcile of the Instance or of the Restore keeps the types.
LEMMA TypeReconcile ==
    TypeOK /\ (Reconcile \/ ReconcileFails \/ SyncRestore \/ RestoreStatusWrite) => TypeOK'
<1> SUFFICES ASSUME TypeOK, Reconcile \/ ReconcileFails \/ SyncRestore \/ RestoreStatusWrite
             PROVE  TypeOK'
  OBVIOUS
<1> USE LimitsAssumption
<1>1. CASE ReconcileStart
  <2>1. rc' \in Reconciles
    BY <1>1, ValuesTyped DEF ReconcileStart, TypeOK, Reconciles
  <2> QED
    BY <1>1, <2>1 DEF ReconcileStart, source, TypeOK
<1>2. CASE ResolveRecord
  <2>1. rc' \in Reconciles
    BY <1>2, ValuesTyped DEF ResolveRecord, TypeOK, Reconciles
  <2> QED
    BY <1>2, <2>1 DEF ResolveRecord, source, TypeOK
<1>3. CASE ResolveOrigin
  <2>1. origin.id \in 0 .. MaxBackups
    BY DEF TypeOK, Origins
  <2>2. rc' \in Reconciles
    BY <1>3, <2>1, ValuesTyped DEF ResolveOrigin, TypeOK, Reconciles
  <2> QED
    BY <1>3, <2>2 DEF ResolveOrigin, source, TypeOK
<1>4. CASE SyncCluster
  <2>1. rc' \in Reconciles
    BY <1>4 DEF SyncCluster, TypeOK, Reconciles
  <2>2. rc.spec \in 0 .. MaxEdits /\ rc.from \in 0 .. MaxBackups
    BY DEF TypeOK, Reconciles
  <2>3. [cluster EXCEPT !.spec = rc.spec, !.from = rc.from] \in Clusters
    BY <2>2 DEF TypeOK, Clusters
  <2>4. cluster' \in Clusters
    BY <1>4, <2>2, <2>3, ValuesTyped DEF SyncCluster, RecoveryCluster
  <2> QED
    BY <1>4, <2>1, <2>4 DEF SyncCluster, source, TypeOK
<1>5. CASE SyncExtras
  <2>1. rc' \in Reconciles /\ rc.done \in BOOLEAN
    BY <1>5 DEF SyncExtras, TypeOK, Reconciles
  <2>2. extras' \in BOOLEAN
    BY <1>5, <2>1 DEF SyncExtras, TypeOK
  <2> QED
    BY <1>5, <2>1, <2>2 DEF SyncExtras, source, TypeOK
<1>6. CASE Status
  <2>1. faults' \in 0 .. MaxFaults
    BY <1>6, LimitsAssumption DEF Status, Fault, TypeOK
  <2> QED
    BY <1>6, <2>1, ValuesTyped DEF Status, source, TypeOK
<1>7. CASE ReconcileFails
  BY <1>7, ValuesTyped DEF ReconcileFails, Fault, source, TypeOK
<1>8. CASE SyncRestore
  <2>1. rr' \in RestoreStates
    BY <1>8 DEF SyncRestore, RestoreState, RestoreStates
  <2> QED
    BY <1>8, <2>1 DEF SyncRestore, source, TypeOK
<1>9. CASE RestoreStatusWrite
  BY <1>9 DEF RestoreStatusWrite, source, TypeOK
<1> QED
  BY <1>1, <1>2, <1>3, <1>4, <1>5, <1>6, <1>7, <1>8, <1>9 DEF Reconcile, Sync

\* Every step of the source keeps the types.
LEMMA TypeSource == TypeOK /\ SourceMoves => TypeOK'
<1> SUFFICES ASSUME TypeOK, SourceMoves PROVE TypeOK'
  OBVIOUS
<1> USE LimitsAssumption
<1>1. /\ reported' \in BOOLEAN /\ origin' \in Origins /\ ended' \in 0 .. MaxBackups
      /\ catalog' \subseteq BackupIds
  <2>1. CASE Source!RecordChanges
    BY <2>1 DEF Source!RecordChanges, TypeOK
  <2>2. CASE Source!OriginAppears \/ Source!OriginGoes
    BY <2>2, ValuesTyped DEF Source!OriginAppears, Source!OriginGoes, TypeOK
  <2>3. CASE Source!RunEnds
    <3>1. ended' \in BackupIds
      BY <2>3 DEF Source!RunEnds, TypeOK, BackupIds
    <3>2. catalog' \subseteq BackupIds
      BY <2>3, <3>1 DEF Source!RunEnds, TypeOK
    <3>3. {0} \cup ({ended'} \cap catalog') \subseteq 0 .. MaxBackups
      BY <3>1 DEF BackupIds
    <3>4. origin' \in Origins
      BY <2>3, <3>3 DEF Source!RunEnds, TypeOK, Origins
    <3> QED
      BY <2>3, <3>1, <3>2, <3>4 DEF Source!RunEnds, TypeOK, BackupIds
  <2>4. CASE Source!RunExpires
    BY <2>4 DEF Source!RunExpires, TypeOK
  <2> QED
    BY <2>1, <2>2, <2>3, <2>4 DEF SourceMoves, Source!Next
<1>2. completed' \subseteq BackupIds
  <2>1. origin'.id # 0 => origin'.id \in BackupIds
    BY <1>1 DEF Origins, BackupIds
  <2>2. completed \subseteq BackupIds
    BY DEF TypeOK
  <2>3. \A id \in completed' : id \in completed \/ (id = origin'.id /\ id # 0)
    BY DEF SourceMoves
  <2> QED
    BY <2>1, <2>2, <2>3
<1>3. faults' \in 0 .. MaxFaults
  BY DEF SourceMoves, Fault, TypeOK
<1> QED
  BY <1>1, <1>2, <1>3 DEF SourceMoves, restored, TypeOK

\* Every step of users and of CNPG keeps the types.
LEMMA TypeTarget == TypeOK /\ (UserEdits \/ ClusterVanishes \/ Cnpg) => TypeOK'
<1> SUFFICES ASSUME TypeOK, UserEdits \/ ClusterVanishes \/ Cnpg PROVE TypeOK'
  OBVIOUS
<1> USE LimitsAssumption
<1>1. CASE UserEdits
  BY <1>1 DEF UserEdits, source, TypeOK
<1>2. CASE ClusterVanishes
  BY <1>2, ValuesTyped DEF ClusterVanishes, Fault, source, TypeOK
<1>3. CASE CnpgRecovers
  <2>1. cluster' \in Clusters /\ cluster.from \in 0 .. MaxBackups
    BY <1>3 DEF CnpgRecovers, TypeOK, Clusters, Phases
  <2> QED
    BY <1>3, <2>1 DEF CnpgRecovers, source, TypeOK
<1>4. CASE CnpgPodFails
  <2>1. cluster' \in Clusters
    BY <1>4 DEF CnpgPodFails, TypeOK, Clusters
  <2> QED
    BY <1>4, <2>1 DEF CnpgPodFails, Fault, source, TypeOK
<1>5. CASE CnpgCondition
  <2>1. cluster' \in Clusters
    BY <1>5 DEF CnpgCondition, TypeOK, Clusters
  <2> QED
    BY <1>5, <2>1 DEF CnpgCondition, source, TypeOK
<1>6. CASE CnpgPodReady
  <2>1. cluster' \in Clusters
    BY <1>6 DEF CnpgPodReady, TypeOK, Clusters
  <2> QED
    BY <1>6, <2>1 DEF CnpgPodReady, source, TypeOK
<1>7. CASE CnpgFails
  <2>1. cluster' \in Clusters
    BY <1>7 DEF CnpgFails, TerminalPhases, TypeOK, Clusters, Phases
  <2> QED
    BY <1>7, <2>1 DEF CnpgFails, Fault, source, TypeOK
<1>8. CASE CnpgRepaired
  <2>1. cluster' \in Clusters
    BY <1>8 DEF CnpgRepaired, TypeOK, Clusters, Phases
  <2> QED
    BY <1>8, <2>1 DEF CnpgRepaired, source, TypeOK
<1> QED
  BY <1>1, <1>2, <1>3, <1>4, <1>5, <1>6, <1>7, <1>8 DEF Cnpg

\* Every step keeps the types.
LEMMA TypeStep == TypeOK /\ Next => TypeOK'
BY TypeReconcile, TypeSource, TypeTarget DEF Next

-----------------------------------------------------------------------------
(* The invariant.                                                          *)

\* The parts of IInv besides the types.
Parts ==
    /\ ResolvedIsCompleted /\ RecoversCompleted
    /\ SignsOfRecovery /\ NotDoneBefore /\ DoneMeansRecovered

\* It holds initially.
LEMMA InitIInv == Init => IInv
<1> SUFFICES ASSUME Init PROVE IInv
  OBVIOUS
<1>1. /\ origin.phase # "completed" /\ rc.pc = "idle" /\ ~rc.done /\ ~cluster.exists
      /\ cluster.phase = "setup" /\ ~cluster.primary /\ ~cluster.conditioned
      /\ restore = "New" /\ ~extras /\ rr = "idle"
  BY ValuesTyped DEF Init, Source!Init
<1>2. Parts
  BY <1>1 DEF Parts, ResolvedIsCompleted, RecoversCompleted,
     SignsOfRecovery, NotDoneBefore, DoneMeansRecovered
<1> QED
  BY <1>2, TypeInit DEF IInv, Parts

\* Sync reads the source before it uses it, and uses what it has read.
LEMMA ReconcileKeeps == IInv /\ (Reconcile \/ ReconcileFails) => Parts'
<1> SUFFICES ASSUME IInv, Reconcile \/ ReconcileFails PROVE Parts'
  OBVIOUS
<1> USE DEF IInv
<1>1. rc \in Reconciles /\ cluster \in Clusters
  BY DEF TypeOK
<1>2. UNCHANGED <<kind, origin, completed, recoveries, restore, rr>>
  BY DEF Reconcile, Sync, ReconcileStart, ResolveRecord, ResolveOrigin, SyncCluster,
     SyncExtras, Status, ReconcileFails, source
<1>3. CASE ReconcileStart
  <2>1. /\ rc' = [Idle EXCEPT !.pc = IF kind = "backup" THEN "record" ELSE "apply",
                              !.spec = spec, !.done = restore = "Succeeded"]
        /\ UNCHANGED <<cluster, extras>>
    BY <1>3 DEF ReconcileStart
  <2>2. rc'.done => restore = "Succeeded"
    BY <2>1, ValuesTyped DEF Reconciles
  <2>3. kind = "backup" => rc'.pc # "apply"
    BY <2>1, ValuesTyped DEF Reconciles
  <2> QED
    BY <1>2, <2>1, <2>2, <2>3 DEF Parts, ResolvedIsCompleted, RecoversCompleted,
       SignsOfRecovery, NotDoneBefore, DoneMeansRecovered
<1>4. CASE ResolveRecord \/ ReconcileFails \/ Status
  <2>1. UNCHANGED <<cluster, extras>>
    BY <1>4 DEF ResolveRecord, ReconcileFails, Status, source
  <2>2. rc' = Idle \/ rc' = [rc EXCEPT !.pc = "origin"]
    BY <1>4 DEF ResolveRecord, ReconcileFails, Status
  <2>3. (rc'.done => rc.done) /\ rc'.pc # "apply"
    BY <1>1, <2>2, ValuesTyped DEF Reconciles
  <2> QED
    BY <1>2, <2>1, <2>3 DEF Parts, ResolvedIsCompleted, RecoversCompleted,
       SignsOfRecovery, NotDoneBefore, DoneMeansRecovered
<1>5. CASE ResolveOrigin
  <2>1. UNCHANGED <<cluster, extras>>
    BY <1>5 DEF ResolveOrigin, source
  <2>2. \/ rc' = Idle
        \/ OriginIsUsable /\ rc' = [rc EXCEPT !.pc = "apply", !.from = origin.id]
    BY <1>5 DEF ResolveOrigin
  <2>3. (rc'.done => rc.done) /\ (rc'.pc = "apply" => rc'.from \in completed)
    BY <1>1, <2>2, ValuesTyped DEF Reconciles, ResolvedIsCompleted, OriginIsUsable
  <2> QED
    BY <1>2, <2>1, <2>3 DEF Parts, ResolvedIsCompleted, RecoversCompleted,
       SignsOfRecovery, NotDoneBefore, DoneMeansRecovered
<1>6. CASE SyncCluster
  <2>1. rc'.done = rc.done /\ rc'.pc = "extras" /\ UNCHANGED extras
    BY <1>1, <1>6 DEF SyncCluster, Reconciles
  <2>2. rc.pc = "apply" /\ rc.spec \in 0 .. MaxEdits /\ rc.from \in 0 .. MaxBackups
    BY <1>1, <1>6 DEF SyncCluster, Reconciles
  <2>3. /\ cluster'.from = rc.from
        /\ \/ /\ cluster'.phase = cluster.phase /\ cluster'.primary = cluster.primary
              /\ cluster'.conditioned = cluster.conditioned
           \/ cluster'.phase = "setup" /\ ~cluster'.primary /\ ~cluster'.conditioned
    <3>1. CASE cluster.exists
      <4>1. cluster' = [cluster EXCEPT !.spec = rc.spec, !.from = rc.from]
        BY <1>6, <3>1 DEF SyncCluster, RecoveryCluster
      <4> QED
        BY <1>1, <4>1 DEF Clusters
    <3>2. CASE ~cluster.exists
      <4>1. cluster' = NewCluster(rc.spec, rc.from)
        BY <1>6, <3>2 DEF SyncCluster, RecoveryCluster
      <4> QED
        BY <2>2, <4>1, ValuesTyped
    <3> QED
      BY <3>1, <3>2
  <2>4. RecoversCompleted'
    BY <1>2, <2>2, <2>3 DEF RecoversCompleted, ResolvedIsCompleted
  <2>5. SignsOfRecovery'
    BY <1>2, <2>3 DEF SignsOfRecovery
  <2>6. ResolvedIsCompleted' /\ NotDoneBefore' /\ DoneMeansRecovered'
    BY <1>2, <2>1 DEF ResolvedIsCompleted, NotDoneBefore, DoneMeansRecovered
  <2> QED
    BY <2>4, <2>5, <2>6 DEF Parts
<1>7. CASE SyncExtras
  <2>1. rc'.done = rc.done /\ rc'.pc = "status" /\ UNCHANGED cluster
    BY <1>1, <1>7 DEF SyncExtras, Reconciles
  <2>2. extras' => extras \/ rc.done
    BY <1>7 DEF SyncExtras
  <2> QED
    BY <1>2, <2>1, <2>2 DEF Parts, ResolvedIsCompleted, RecoversCompleted,
       SignsOfRecovery, NotDoneBefore, DoneMeansRecovered
<1> QED
  BY <1>3, <1>4, <1>5, <1>6, <1>7 DEF Reconcile, Sync

\* SyncRestore answers Succeeded only with signs of a recovery.
LEMMA RestoreKeeps == IInv /\ (SyncRestore \/ RestoreStatusWrite) => Parts'
<1> SUFFICES ASSUME IInv, SyncRestore \/ RestoreStatusWrite PROVE Parts'
  OBVIOUS
<1> USE DEF IInv
<1>1. UNCHANGED <<kind, origin, completed, cluster, recoveries, extras, rc>>
  BY DEF SyncRestore, RestoreStatusWrite, source
<1>2. ResolvedIsCompleted' /\ RecoversCompleted' /\ SignsOfRecovery'
  BY <1>1 DEF ResolvedIsCompleted, RecoversCompleted, SignsOfRecovery
<1>3. CASE SyncRestore
  <2>1. rr' = "Succeeded" => cluster.conditioned
    BY <1>3 DEF SyncRestore, RestoreState, IsRecovered
  <2>2. UNCHANGED restore
    BY <1>3 DEF SyncRestore
  <2> QED
    BY <1>1, <1>2, <2>1, <2>2 DEF Parts, SignsOfRecovery, NotDoneBefore, DoneMeansRecovered
<1>4. CASE RestoreStatusWrite
  <2>1. restore' = rr /\ rr' = "idle"
    BY <1>4 DEF RestoreStatusWrite
  <2> QED
    BY <1>1, <1>2, <2>1 DEF Parts, NotDoneBefore, DoneMeansRecovered
<1> QED
  BY <1>3, <1>4

\* Whatever becomes of the source, what has completed has completed.
LEMMA SourceKeeps == IInv /\ SourceMoves => Parts'
<1> SUFFICES ASSUME IInv, SourceMoves PROVE Parts'
  OBVIOUS
<1> USE DEF IInv
<1>1. UNCHANGED <<kind, cluster, recoveries, restore, extras, rc, rr>>
  BY DEF SourceMoves, restored
<1>2. /\ completed \subseteq completed'
      /\ origin'.phase = "completed" /\ origin'.id # 0 => origin'.id \in completed'
  BY DEF SourceMoves
<1> QED
  BY <1>1, <1>2 DEF Parts, ResolvedIsCompleted, RecoversCompleted, SignsOfRecovery,
     NotDoneBefore, DoneMeansRecovered

\* A Cluster only gets well by being recovered.
LEMMA TargetKeeps == IInv /\ (UserEdits \/ ClusterVanishes \/ Cnpg) => Parts'
<1> SUFFICES ASSUME IInv, UserEdits \/ ClusterVanishes \/ Cnpg PROVE Parts'
  OBVIOUS
<1> USE DEF IInv
<1>1. cluster \in Clusters
  BY DEF TypeOK
<1>2. UNCHANGED <<kind, origin, completed, restore, extras, rc, rr>>
  BY DEF Cnpg, UserEdits, ClusterVanishes, CnpgRecovers, CnpgPodFails, CnpgCondition,
     CnpgPodReady, CnpgFails, CnpgRepaired, source
<1>3. recoveries \subseteq recoveries' /\ ResolvedIsCompleted'
  <2>1. recoveries \subseteq recoveries'
    BY DEF Cnpg, UserEdits, ClusterVanishes, CnpgRecovers, CnpgPodFails, CnpgCondition,
       CnpgPodReady, CnpgFails, CnpgRepaired
  <2> QED
    BY <1>2, <2>1 DEF ResolvedIsCompleted
<1>4. NotDoneBefore' /\ DoneMeansRecovered'
  BY <1>2, <1>3 DEF NotDoneBefore, DoneMeansRecovered
<1>5. CASE UserEdits
  BY <1>2, <1>3, <1>4, <1>5 DEF UserEdits, Parts, RecoversCompleted, SignsOfRecovery
<1>6. CASE ClusterVanishes
  <2>1. cluster' = NoCluster
    BY <1>6 DEF ClusterVanishes
  <2> QED
    BY <1>3, <1>4, <2>1, ValuesTyped DEF Parts, RecoversCompleted, SignsOfRecovery
<1>7. CASE CnpgRecovers
  <2>1. cluster'.from = cluster.from /\ cluster'.exists = cluster.exists
    BY <1>1, <1>7 DEF CnpgRecovers, Clusters
  <2>2. recoveries' # {}
    BY <1>7 DEF CnpgRecovers
  <2> QED
    BY <1>2, <1>3, <1>4, <2>1, <2>2 DEF Parts, RecoversCompleted, SignsOfRecovery
<1>8. CASE CnpgPodFails \/ CnpgPodReady
  <2>1. /\ cluster'.from = cluster.from /\ cluster'.exists = cluster.exists
        /\ cluster'.phase = cluster.phase /\ cluster'.primary = cluster.primary
        /\ cluster'.conditioned = cluster.conditioned
    BY <1>1, <1>8 DEF CnpgPodFails, CnpgPodReady, Clusters
  <2> QED
    BY <1>2, <1>3, <1>4, <2>1 DEF Parts, RecoversCompleted, SignsOfRecovery
<1>9. CASE CnpgCondition
  <2>1. /\ cluster'.from = cluster.from /\ cluster'.exists = cluster.exists
        /\ cluster.phase = "healthy"
    BY <1>1, <1>9 DEF CnpgCondition, Clusters
  <2> QED
    BY <1>2, <1>3, <1>4, <2>1 DEF Parts, RecoversCompleted, SignsOfRecovery
<1>10. CASE CnpgFails
  <2>1. /\ cluster'.from = cluster.from /\ cluster'.exists = cluster.exists
        /\ cluster'.phase # "healthy" /\ cluster'.primary = cluster.primary
        /\ ~cluster'.conditioned
    BY <1>1, <1>10 DEF CnpgFails, Clusters, TerminalPhases
  <2> QED
    BY <1>2, <1>3, <1>4, <2>1 DEF Parts, RecoversCompleted, SignsOfRecovery
<1>11. CASE CnpgRepaired
  <2>1. /\ cluster'.from = cluster.from /\ cluster'.exists = cluster.exists
        /\ cluster'.phase = (IF cluster.primary THEN "healthy" ELSE "setup")
        /\ cluster'.primary = cluster.primary
        /\ cluster'.conditioned = cluster.conditioned
    BY <1>1, <1>11 DEF CnpgRepaired, Clusters
  <2> QED
    BY <1>2, <1>3, <1>4, <2>1 DEF Parts, RecoversCompleted, SignsOfRecovery
<1> QED
  BY <1>5, <1>6, <1>7, <1>8, <1>9, <1>10, <1>11 DEF Cnpg

\* Every step keeps it.
LEMMA StepIInv == IInv /\ [Next]_vars => IInv'
<1> SUFFICES ASSUME IInv, [Next]_vars PROVE IInv'
  OBVIOUS
<1>1. CASE Next
  <2>1. TypeOK'
    BY <1>1, TypeStep DEF IInv
  <2>2. Parts'
    BY <1>1, ReconcileKeeps, RestoreKeeps, SourceKeeps, TargetKeeps DEF Next
  <2> QED
    BY <2>1, <2>2 DEF IInv, Parts
<1>2. CASE UNCHANGED vars
  BY <1>2 DEF vars, source, IInv, TypeOK, ResolvedIsCompleted,
     RecoversCompleted, SignsOfRecovery, NotDoneBefore, DoneMeansRecovered
<1> QED
  BY <1>1, <1>2

-----------------------------------------------------------------------------
(* The theorems.                                                           *)

\* restore.go, SyncRestore: the inductive invariant of the restored Instance.
THEOREM Invariance == Spec => []IInv
BY InitIInv, StepIInv, PTL DEF Spec

\* The values of the variables are of their types.
THEOREM TypeCorrect == Spec => []TypeOK
<1>1. IInv => TypeOK
  BY DEF IInv
<1> QED
  BY <1>1, Invariance, PTL

\* resolveSourceBackup: whatever happens between its reads and after them, a
\* Cluster is told to recover from a base backup that completed.
THEOREM ResolvesCompleted == Spec => []RecoversCompleted
<1>1. IInv => RecoversCompleted
  BY DEF IInv
<1> QED
  BY <1>1, Invariance, PTL

\* SyncRestore, Provider.Sync: the Restore record does not say Succeeded, and the
\* Database and the schedules do not appear, before a recovery.
THEOREM DoneIsRecovered == Spec => []DoneMeansRecovered
<1>1. IInv => DoneMeansRecovered
  BY DEF IInv
<1> QED
  BY <1>1, Invariance, PTL
=============================================================================
