------------------------ MODULE BackupRefinement_proofs ------------------------
(***************************************************************************)
(* BackupLifecycle implements BackupPromise, what users are promised, and  *)
(* BackupSource, what Restore relies on, for every number of base backups, *)
(* records and disturbances.  The handlers' reads, the mirror and most of  *)
(* what CNPG does are stuttering steps of either; each of the other steps  *)
(* is one of its actions.                                                  *)
(***************************************************************************)
EXTENDS BackupLifecycle_proofs

Purging == job.st = "running" /\ job.owner = backup.uid

\* A record is not let go while its Job is at work.
PurgeInv ==
    /\ Purging => backup.st = "deleting"
    /\ rc.pc = "release" => ~Purging

-----------------------------------------------------------------------------

\* Every step keeps it: CleanupBackup starts a Job only for a record that is being
\* deleted, and lets the record go only when it found none at work.
LEMMA PurgeStep == IInv /\ PurgeInv /\ Next => PurgeInv'
<1> SUFFICES ASSUME IInv, PurgeInv, Next PROVE PurgeInv'
  OBVIOUS
<1> USE DEF PurgeInv, Purging
<1>1. /\ backup.uid \in Nat /\ job.owner \in Nat /\ job.owner <= backup.uid
      /\ backup \in Backups /\ rc \in Handlers /\ job \in Jobs
  BY BoundsAssumption DEF IInv, TypeOK, JobInv, Backups, Jobs
<1>2. /\ rc.pc # "idle" => backup.st # "absent"
      /\ rc.pc \in CleanupPcs => backup.st = "deleting"
  BY DEF IInv, HandlerInv
<1>3. CASE rc'.pc # "release" /\ UNCHANGED <<backup, job>>
  BY <1>3
<1>4. CASE UNCHANGED <<backup, job, rc>>
  BY <1>4
<1>5. CASE SyncBackup \/ ReconcileStart \/ ReconcileFails \/ CleanupGetStore \/ CleanupDelete
  <2>1. rc'.pc # "release"
    BY <1>1, <1>5, SyncGetClusterMoves, SyncExistsMoves, SyncCreateOrUpdateMoves, Fields,
       ValuesTyped
       DEF IInv, SyncBackup, ReconcileStart, ReconcileFails, CleanupGetStore, CleanupDelete,
           Handlers
  <2>2. UNCHANGED <<backup, job>>
    BY <1>5 DEF SyncBackup, SyncGetCluster, SyncExists, SyncCreateOrUpdate, ReconcileStart,
       ReconcileFails, CleanupGetStore, CleanupDelete
  <2> QED
    BY <1>3, <2>1, <2>2
<1>6. CASE StatusWrite
  <2>1. rc'.pc = "idle" /\ UNCHANGED job
    BY <1>6, Fields DEF StatusWrite
  <2>2. backup'.st = backup.st /\ backup'.uid = backup.uid
    BY <1>1, <1>6 DEF StatusWrite, Backups
  <2> QED
    BY <2>1, <2>2
<1>7. CASE CleanupGet
  <2>1. UNCHANGED <<backup, job>>
    BY <1>7 DEF CleanupGet
  <2>2. rc'.pc = "release" => ~DeletesData
    BY <1>1, <1>7, Fields, ValuesTyped DEF CleanupGet, Handlers
  <2>3. ~DeletesData => ~Purging
    BY DEF IInv, JobInv, JobIsCurrent, DeletesData
  <2> QED
    BY <2>1, <2>2, <2>3
<1>8. CASE CleanupOrphan
  <2>1. UNCHANGED <<backup, job>>
    BY <1>8 DEF CleanupOrphan
  <2>2. rc'.pc = "release" => NothingToWaitFor
    BY <1>8, Fields DEF CleanupOrphan
  <2> QED
    BY <2>1, <2>2 DEF NothingToWaitFor
<1>9. CASE CleanupJob
  <2>1. rc'.pc # "release"
    BY <1>9, CleanupJobMoves DEF IInv
  <2>2. backup.st = "deleting" /\ UNCHANGED backup
    BY <1>2, <1>9 DEF CleanupJob, buildBackupDeletionJob, CleanupPcs
  <2> QED
    BY <2>1, <2>2
<1>10. CASE Release
  <2>1. /\ backup'.uid = backup.uid /\ UNCHANGED job /\ rc'.pc = "idle" /\ rc.pc = "release"
    BY <1>1, <1>10, Fields DEF Release, Backups
  <2> QED
    BY <2>1
<1>11. CASE MirrorCreate \/ UserCreates
  <2>1. UNCHANGED <<job, rc>>
    BY <1>11 DEF MirrorCreate, UserCreates
  <2>2. CASE backup' = backup
    BY <2>1, <2>2
  <2>3. CASE backup.st = "absent" /\ backup'.uid = backup.uid + 1
    BY <1>1, <1>2, <2>1, <2>3
  <2> QED
    BY <1>11, <2>2, <2>3, NewRecord DEF IInv
<1>12. CASE UserDeletes
  <2>1. /\ backup.st = "live" /\ backup'.st = "deleting" /\ backup'.uid = backup.uid
        /\ UNCHANGED <<job, rc>>
    BY <1>1, <1>12 DEF UserDeletes, Backups
  <2> QED
    BY <2>1
<1>13. CASE AdminDeletesJob \/ JobSucceeds \/ JobFails \/ JobIsCollected
  <2>1. job'.st # "running" /\ UNCHANGED <<backup, rc>>
    BY <1>1, <1>13, Fields
       DEF AdminDeletesJob, JobSucceeds, JobFails, JobIsCollected, Jobs
  <2> QED
    BY <2>1
<1>14. CASE \/ MirrorRead \/ CnpgStarts \/ CnpgRuns \/ CnpgFinalizes \/ CnpgStops
            \/ RetentionExpires \/ CatalogMaintenance \/ CnpgBackupTerminates
            \/ JobRemovesData \/ ForegroundCollects \/ WorldBreaks \/ WorldRecovers
  <2>1. UNCHANGED <<backup, job, rc>>
    BY <1>14 DEF MirrorRead, CnpgStarts, CnpgRuns, CnpgFinalizes, CnpgStops,
       RetentionExpires, CatalogMaintenance, CnpgBackupTerminates, JobRemovesData,
       ForegroundCollects, WorldBreaks, WorldRecovers
  <2> QED
    BY <1>4, <2>1
<1> QED
  BY <1>5, <1>6, <1>7, <1>8, <1>9, <1>10, <1>11, <1>12, <1>13, <1>14
     DEF Next, Reconcile, CleanupBackup, Environment

-----------------------------------------------------------------------------

\* The initial states are initial states of the promise.
LEMMA PromiseInit == Init => Promise!Init
<1> SUFFICES ASSUME Init PROVE Promise!Init
  OBVIOUS
<1>1. backup.st = "absent" /\ backup.policy = "Delete"
  BY DEF Init, NoBackup, FreshBackup
<1>2. ~(job.st = "running" /\ job.owner = backup.uid)
  BY Fields DEF Init
<1>3. runs = 0 /\ catalog = {} /\ owed \ cascaded = {}
  BY DEF Init
<1> QED
  BY <1>1, <1>2, <1>3 DEF Promise!Init

\* Every step is a step of the promise or leaves what it speaks of unchanged.
LEMMA PromiseStep == IInv /\ OwedInv /\ PurgeInv /\ Next => [Promise!Next]_(Promise!vars)
<1> SUFFICES ASSUME IInv, OwedInv, PurgeInv, Next
             PROVE  Promise!Next \/ UNCHANGED Promise!vars
  OBVIOUS
<1>1. /\ backup \in Backups /\ job \in Jobs /\ runs \in Nat /\ running \in Nat
      /\ backup.uid \in Nat /\ job.owner \in Nat /\ job.owner <= backup.uid
      /\ owed \subseteq Runs
  BY BoundsAssumption DEF IInv, TypeOK, JobInv, Backups, Jobs, Runs
<1>2. CASE UNCHANGED <<backup, job, runs, catalog, owed, cascaded>>
  BY <1>2 DEF Promise!vars
<1>3. CASE \/ ReconcileStart \/ SyncBackup \/ CleanupGet \/ CleanupOrphan
           \/ CleanupGetStore \/ CleanupDelete \/ ReconcileFails \/ MirrorRead
           \/ CnpgStarts \/ CnpgFinalizes \/ CatalogMaintenance \/ CnpgBackupTerminates
           \/ WorldBreaks \/ WorldRecovers
  BY <1>2, <1>3 DEF ReconcileStart, SyncBackup, SyncGetCluster, SyncExists,
     SyncCreateOrUpdate, CleanupGet, CleanupOrphan, CleanupGetStore, CleanupDelete,
     ReconcileFails, MirrorRead, CnpgStarts, CnpgFinalizes, CatalogMaintenance,
     CnpgBackupTerminates, WorldBreaks, WorldRecovers
<1>4. CASE StatusWrite
  <2>1. /\ backup'.st = backup.st /\ backup'.uid = backup.uid
        /\ backup'.policy = backup.policy
        /\ UNCHANGED <<job, runs, catalog, owed, cascaded>>
    BY <1>1, <1>4 DEF StatusWrite, Backups
  <2> QED
    BY <2>1 DEF Promise!vars
<1>5. CASE CleanupJob
  <2>1. backup.st = "deleting" /\ backup.policy = "Delete"
    BY <1>1, <1>5 DEF IInv, HandlerInv, CleanupJob, CleanupPcs, DeletesData, Backups, Policies
  <2>2. UNCHANGED <<backup, runs, catalog, owed, cascaded>>
    BY <1>5 DEF CleanupJob
  <2>3. CASE job' = job
    BY <1>2, <2>2, <2>3
  <2>4. CASE job.st = "absent" /\ job'.st = "running" /\ job'.owner = backup.uid
    <3>1. /\ ~(job.st = "running" /\ job.owner = backup.uid)
          /\ job'.st = "running" /\ job'.owner = backup'.uid
      BY <2>2, <2>4
    <3>2. Promise!Purge
      BY <2>1, <2>2, <3>1 DEF Promise!Purge
    <3> QED
      BY <3>2 DEF Promise!Next
  <2>5. job' = job \/ (job.st = "absent" /\ job'.st = "running" /\ job'.owner = backup.uid)
    BY <1>5 DEF CleanupJob, buildBackupDeletionJob
  <2> QED
    BY <2>3, <2>4, <2>5
<1>6. CASE Release
  <2>1. rc.pc = "release" /\ backup.st = "deleting" /\ cnpg.st = "absent"
    BY <1>6 DEF Release, IInv, HandlerInv, CleanupPcs
  <2>2. (owed \ cascaded) \cap catalog = {}
    BY <2>1 DEF OwedInv
  <2>3. ~(job.st = "running" /\ job.owner = backup.uid)
    BY <2>1 DEF PurgeInv, Purging
  <2>4. /\ backup'.st = "absent" /\ backup'.uid = backup.uid
        /\ backup'.policy = backup.policy
        /\ UNCHANGED <<job, runs, catalog, owed, cascaded>>
    BY <1>1, <1>6 DEF Release, Backups
  <2>5. Promise!LetGo
    BY <2>1, <2>2, <2>3, <2>4 DEF Promise!LetGo
  <2> QED
    BY <2>5 DEF Promise!Next
<1>7. CASE MirrorCreate \/ UserCreates
  <2>1. UNCHANGED <<job, runs, catalog, owed, cascaded>>
    BY <1>7 DEF MirrorCreate, UserCreates
  <2>2. CASE backup' = backup
    BY <1>2, <2>1, <2>2
  <2>3. CASE backup.st = "absent" /\ backup' = FreshBackup(backup.uid + 1)
    <3>1. backup'.st = "live" /\ backup'.policy = "Delete" /\ backup'.uid = backup.uid + 1
      BY <2>3 DEF FreshBackup
    <3>2. ~(job.st = "running" /\ job.owner = backup.uid)
      BY <2>3 DEF PurgeInv, Purging
    <3>3. ~(job'.st = "running" /\ job'.owner = backup'.uid)
      BY <1>1, <2>1, <3>1
    <3>4. Promise!Request
      BY <2>1, <2>3, <3>1, <3>2, <3>3 DEF Promise!Request
    <3> QED
      BY <3>4 DEF Promise!Next
  <2> QED
    BY <1>7, <2>2, <2>3 DEF MirrorCreate, UserCreates
<1>8. CASE UserDeletes
  <2>1. PICK policy \in Policies :
          /\ backup' = [backup EXCEPT !.st = "deleting", !.policy = policy]
          /\ owed' = IF policy = "Delete" /\ cnpg.id # 0 THEN owed \cup {cnpg.id} ELSE owed
    BY <1>8 DEF UserDeletes
  <2>2. backup.st = "live" /\ UNCHANGED <<job, runs, catalog, cascaded>>
    BY <1>8 DEF UserDeletes
  <2>3. backup'.st = "deleting" /\ backup'.policy = policy /\ backup'.uid = backup.uid
    BY <1>1, <2>1 DEF Backups
  <2>4. \/ owed' \ cascaded' = owed \ cascaded
        \/ /\ policy = "Delete"
           /\ \E r \in 1 .. runs : owed' \ cascaded' = (owed \ cascaded) \cup {r}
    <3>1. CASE owed' = owed
      BY <2>2, <3>1
    <3>2. CASE policy = "Delete" /\ cnpg.id # 0 /\ owed' = owed \cup {cnpg.id}
      <4>1. cnpg.id \in 1 .. runs
        BY <1>1, <3>2, BoundsAssumption
           DEF IInv, TypeOK, CnpgBackups, Runs, RunsInv, Settled
      <4>2. CASE cnpg.id \in cascaded
        BY <2>2, <3>2, <4>2
      <4>3. CASE cnpg.id \notin cascaded
        BY <2>2, <3>2, <4>1, <4>3
      <4> QED
        BY <4>2, <4>3
    <3> QED
      BY <2>1, <3>1, <3>2
  <2>5. (job'.st = "running" /\ job'.owner = backup'.uid)
          <=> (job.st = "running" /\ job.owner = backup.uid)
    BY <2>2, <2>3
  <2>6. policy \in {"Delete", "Retain"}
    BY DEF Policies
  <2>7. Promise!AskDeletion
    BY <2>2, <2>3, <2>4, <2>5, <2>6 DEF Promise!AskDeletion
  <2> QED
    BY <2>7 DEF Promise!Next
<1>9. CASE AdminDeletesJob \/ JobIsCollected
  <2>1. /\ UNCHANGED <<backup, runs, catalog, owed, cascaded>>
        /\ ~(job.st = "running" /\ job.owner = backup.uid)
        /\ job' = NoJob
    BY <1>9 DEF AdminDeletesJob, JobIsCollected, PurgeInv, Purging
  <2>2. ~(job'.st = "running" /\ job'.owner = backup'.uid)
    BY <2>1, Fields
  <2> QED
    BY <2>1, <2>2 DEF Promise!vars
<1>10. CASE JobSucceeds \/ JobFails
  <2>1. /\ UNCHANGED <<backup, runs, catalog, owed, cascaded>>
        /\ job.st = "running" /\ job'.st # "running"
    BY <1>1, <1>10 DEF JobSucceeds, JobFails, Jobs
  <2>2. CASE job.owner = backup.uid
    <3>1. backup.st = "deleting" /\ backup.policy = "Delete"
      BY <2>1, <2>2 DEF PurgeInv, Purging, IInv, JobInv, JobIsCurrent
    <3>2. Promise!Purge
      BY <2>1, <2>2, <3>1 DEF Promise!Purge
    <3> QED
      BY <3>2 DEF Promise!Next
  <2>3. CASE job.owner # backup.uid
    BY <2>1, <2>3 DEF Promise!vars
  <2> QED
    BY <2>2, <2>3
<1>11. CASE CnpgRuns
  <2>1. /\ UNCHANGED <<backup, job, catalog, owed, cascaded>>
        /\ runs < MaxRuns /\ runs' = runs + 1
    BY <1>11 DEF CnpgRuns
  <2>2. Promise!Start
    BY <2>1 DEF Promise!Start
  <2> QED
    BY <2>2 DEF Promise!Next
<1>12. CASE CnpgStops
  <2>1. UNCHANGED <<backup, job, runs, owed, cascaded>> /\ running # 0
    BY <1>12 DEF CnpgStops
  <2>2. catalog' = catalog \/ catalog' = catalog \cup {running}
    BY <1>12 DEF CnpgStops
  <2>3. running \in (1 .. runs) \ (owed \ cascaded)
    <3>1. running <= runs /\ running \notin owed
      BY DEF IInv, RunsInv, Settled
    <3> QED
      BY <1>1, <2>1, <3>1
  <2>4. CASE catalog' = catalog \cup {running}
    <3>1. Promise!Take
      BY <2>1, <2>3, <2>4 DEF Promise!Take
    <3> QED
      BY <3>1 DEF Promise!Next
  <2> QED
    BY <1>2, <2>1, <2>2, <2>4
<1>13. CASE RetentionExpires \/ JobRemovesData
  <2>1. UNCHANGED <<backup, job, runs, owed, cascaded>>
    BY <1>13 DEF RetentionExpires, JobRemovesData
  <2>2. \E r \in catalog : catalog' = catalog \ {r}
    BY <1>13 DEF RetentionExpires, JobRemovesData
  <2>3. Promise!Lose
    BY <2>1, <2>2 DEF Promise!Lose
  <2> QED
    BY <2>3 DEF Promise!Next
<1>14. CASE ForegroundCollects
  <2>1. UNCHANGED <<backup, job, runs, catalog, owed>> /\ backup.st = "deleting"
    BY <1>14 DEF ForegroundCollects
  <2>2. owed' \ cascaded' = (owed \ cascaded) \ {cnpg.id}
    BY <1>14 DEF ForegroundCollects
  <2>3. CASE cnpg.id \in owed \ cascaded
    <3>1. Promise!Forget
      BY <2>1, <2>2, <2>3 DEF Promise!Forget
    <3> QED
      BY <3>1 DEF Promise!Next
  <2>4. CASE cnpg.id \notin owed \ cascaded
    <3>1. owed' \ cascaded' = owed \ cascaded
      BY <2>2, <2>4
    <3> QED
      BY <2>1, <3>1 DEF Promise!vars
  <2> QED
    BY <2>3, <2>4
<1> QED
  BY <1>3, <1>4, <1>5, <1>6, <1>7, <1>8, <1>9, <1>10, <1>11, <1>12, <1>13, <1>14
     DEF Next, Reconcile, CleanupBackup, Environment

-----------------------------------------------------------------------------

\* SyncBackup, CleanupBackup and Mirror together keep the promise made to the users
\* of a backup name: the lifecycle implements BackupPromise.
THEOREM PromiseIsKept == Spec => KeepsPromise
<1>1. Init => PurgeInv
  BY Fields DEF Init, PurgeInv, Purging
<1>2. IInv /\ PurgeInv /\ [Next]_vars => PurgeInv'
  <2>1. PurgeInv /\ UNCHANGED vars => PurgeInv'
    BY DEF PurgeInv, Purging, vars
  <2> QED
    BY <2>1, PurgeStep
<1>3. IInv /\ OwedInv /\ PurgeInv /\ [Next]_vars => [Promise!Next]_(Promise!vars)
  <2>1. UNCHANGED vars => UNCHANGED Promise!vars
    BY DEF vars, Promise!vars
  <2> QED
    BY <2>1, PromiseStep
<1> QED
  BY <1>1, <1>2, <1>3, PromiseInit, OwedInvariance, PTL DEF Spec, KeepsPromise, Promise!Spec

-----------------------------------------------------------------------------
(* BackupSource.                                                           *)

Reported == backup.st # "absent" /\ backup.state = "Succeeded"
Origin == IF cnpg.st = "absent" THEN [phase |-> "absent", id |-> 0]
          ELSE [phase |-> IF cnpg.phase = "completed" THEN "completed" ELSE "incomplete",
                id    |-> cnpg.id]
Ended == IF running = 0 THEN runs ELSE runs - 1

\* Base backups are taken one at a time, a completed CNPG Backup has a Barman ID, and
\* no record says Succeeded, or is about to, before one has ended.
SourceInv ==
    /\ running \in {0, runs}
    /\ cnpg.phase = "completed" => cnpg.id # 0
    /\ Reported => Ended > 0
    /\ rc.pc = "status" /\ rc.answer = "Succeeded" => Ended > 0

\* SyncBackup answers Succeeded only to a CNPG Backup that has completed.
LEMMA SucceededIsCompleted ==
    TypeOK /\ SyncBackup /\ rc'.pc = "status" /\ rc'.answer = "Succeeded" =>
        cnpg.phase = "completed"
<1> SUFFICES ASSUME TypeOK, SyncBackup, rc'.pc = "status", rc'.answer = "Succeeded"
             PROVE  cnpg.phase = "completed"
  OBVIOUS
<1>0. ASSUME NEW state, NEW seen, rc' = Answer(state, seen) PROVE state = "Succeeded"
  BY <1>0, AnswerFields
<1>1. CASE SyncGetCluster
  BY <1>1, SyncGetClusterMoves
<1>2. CASE SyncExists
  <2>1. \/ rc' = [rc EXCEPT !.pc = "create"]
        \/ rc' = Answer("Unavailable", FALSE) \/ rc' = Answer(backupStorageBlocker, FALSE)
    BY <1>2 DEF SyncExists
  <2>2. [rc EXCEPT !.pc = "create"].pc = "create"
    BY DEF TypeOK, Handlers
  <2>3. backupStorageBlocker # "Succeeded"
    BY DEF backupStorageBlocker
  <2> QED
    BY <1>0, <2>1, <2>2, <2>3
<1>3. CASE SyncCreateOrUpdate
  <2> DEFINE found == IF cnpg.st = "absent" THEN NewCnpgBackup ELSE cnpg
  <2>1. rc' = Answer(StateOf(found.phase), TRUE)
    BY <1>3 DEF SyncCreateOrUpdate
  <2>2. StateOf(found.phase) = "Succeeded"
    BY <1>0, <2>1
  <2>3. found.phase = "completed"
    BY <2>2 DEF StateOf
  <2> QED
    BY <2>3 DEF NewCnpgBackup
<1> QED
  BY <1>1, <1>2, <1>3 DEF SyncBackup

\* A base backup with a Barman ID has ended.
LEMMA NumberedHasEnded ==
    IInv /\ running \in {0, runs} /\ cnpg.id # 0 => Ended > 0
BY BoundsAssumption DEF IInv, TypeOK, RunsInv, Settled, Ended, CnpgBackups, Runs

\* Every step keeps it.
LEMMA SourceInvStep == IInv /\ SourceInv /\ Next => SourceInv'
<1> SUFFICES ASSUME IInv, SourceInv, Next PROVE SourceInv'
  OBVIOUS
<1> USE DEF SourceInv, Reported, Ended
<1>1. /\ backup \in Backups /\ cnpg \in CnpgBackups /\ rc \in Handlers
      /\ runs \in Nat /\ running \in Nat
  BY BoundsAssumption DEF IInv, TypeOK, Runs
<1>2. cnpg.phase = "completed" => Ended > 0
  BY NumberedHasEnded
<1>3. CASE UNCHANGED <<backup, cnpg, running, runs>> /\ rc'.pc # "status"
  BY <1>3
<1>4. CASE SyncBackup
  <2>1. UNCHANGED <<backup, running, runs>>
    BY <1>4 DEF SyncBackup, SyncGetCluster, SyncExists, SyncCreateOrUpdate
  <2>2. rc'.pc = "status" /\ rc'.answer = "Succeeded" => Ended > 0
    BY <1>2, <1>4, SucceededIsCompleted DEF IInv
  <2>3. cnpg'.phase = "completed" => cnpg'.id # 0
    <3>1. CASE UNCHANGED cnpg
      BY <3>1
    <3>2. CASE SyncCreateOrUpdate /\ cnpg.st = "absent"
      <4>1. cnpg' = [NewCnpgBackup EXCEPT !.owner = backup.uid]
        BY <3>2 DEF SyncCreateOrUpdate
      <4>2. cnpg'.phase = "new"
        BY <4>1 DEF NewCnpgBackup
      <4> QED
        BY <4>2
    <3>3. CASE SyncCreateOrUpdate /\ cnpg.st # "absent"
      BY <3>3, SyncCreateOrUpdateMoves DEF IInv
    <3> QED
      BY <1>4, <3>1, <3>2, <3>3 DEF SyncBackup, SyncGetCluster, SyncExists
  <2> QED
    BY <2>1, <2>2, <2>3
<1>5. CASE StatusWrite
  <2>1. /\ backup'.st = backup.st /\ backup'.state = rc.answer /\ rc.pc = "status"
        /\ rc'.pc = "idle" /\ UNCHANGED <<cnpg, running, runs>>
    BY <1>1, <1>5, Fields DEF StatusWrite, Backups
  <2> QED
    BY <2>1
<1>6. CASE ReconcileStart \/ CleanupGet \/ CleanupOrphan \/ CleanupGetStore \/ CleanupJob
           \/ ReconcileFails
  <2>1. UNCHANGED <<backup, cnpg, running, runs>>
    BY <1>6 DEF ReconcileStart, CleanupGet, CleanupOrphan, CleanupGetStore, CleanupJob,
       buildBackupDeletionJob, ReconcileFails
  <2>2. rc'.pc # "status"
    BY <1>1, <1>6, Fields, ValuesTyped, CleanupGetMoves, CleanupJobMoves
       DEF IInv, ReconcileStart, CleanupOrphan, CleanupGetStore, ReconcileFails, Handlers
  <2> QED
    BY <1>3, <2>1, <2>2
<1>7. CASE CleanupDelete
  <2>1. /\ rc'.pc = "idle" /\ UNCHANGED <<backup, running, runs>>
        /\ \/ cnpg' = cnpg \/ cnpg' = NoCnpgBackup \/ cnpg' = [cnpg EXCEPT !.st = "terminating"]
    BY <1>7, Fields DEF CleanupDelete
  <2>2. cnpg'.phase = "completed" => cnpg'.id # 0
    BY <1>1, <2>1 DEF NoCnpgBackup, NewCnpgBackup, CnpgBackups
  <2> QED
    BY <2>1, <2>2
<1>8. CASE Release
  <2>1. backup'.st = "absent" /\ rc'.pc = "idle" /\ UNCHANGED <<cnpg, running, runs>>
    BY <1>1, <1>8, Fields DEF Release, Backups
  <2> QED
    BY <2>1
<1>9. CASE MirrorCreate \/ UserCreates
  <2>1. UNCHANGED <<cnpg, running, runs, rc>>
    BY <1>9 DEF MirrorCreate, UserCreates
  <2>2. backup' = backup \/ backup'.state = "New"
    BY <1>9 DEF MirrorCreate, UserCreates, FreshBackup
  <2> QED
    BY <2>1, <2>2
<1>10. CASE UserDeletes
  <2>1. /\ backup.st = "live" /\ backup'.state = backup.state
        /\ UNCHANGED <<cnpg, running, runs, rc>>
    BY <1>1, <1>10 DEF UserDeletes, Backups
  <2> QED
    BY <2>1
<1>11. CASE CnpgStarts \/ CnpgFinalizes
  <2>1. cnpg'.phase # "completed" /\ UNCHANGED <<backup, running, runs, rc>>
    BY <1>1, <1>11 DEF CnpgStarts, CnpgFinalizes, CnpgBackups
  <2> QED
    BY <2>1
<1>12. CASE CnpgRuns
  <2>1. /\ cnpg'.phase # "completed" /\ UNCHANGED <<backup, rc>>
        /\ running = 0 /\ runs' = runs + 1 /\ running' = runs + 1
    BY <1>1, <1>12 DEF CnpgRuns, CnpgBackups
  <2>2. Ended' = Ended
    BY <1>1, <2>1
  <2> QED
    BY <2>1, <2>2
<1>13. CASE CnpgStops
  <2>1. running # 0 /\ running' = 0 /\ UNCHANGED <<backup, runs, rc>>
    BY <1>13 DEF CnpgStops
  <2>2. Ended' > 0
    BY <1>1, <2>1
  <2>3. cnpg'.phase = "completed" => cnpg'.id # 0
    BY <1>1, <1>13 DEF CnpgStops, CnpgBackups
  <2> QED
    BY <2>1, <2>2, <2>3
<1>14. CASE CatalogMaintenance \/ CnpgBackupTerminates \/ ForegroundCollects
  <2>1. cnpg' = NoCnpgBackup /\ UNCHANGED <<backup, running, runs, rc>>
    BY <1>14 DEF CatalogMaintenance, CnpgBackupTerminates, ForegroundCollects
  <2>2. cnpg'.phase = "new"
    BY <2>1 DEF NoCnpgBackup, NewCnpgBackup
  <2> QED
    BY <2>1, <2>2
<1>15. CASE \/ MirrorRead \/ AdminDeletesJob \/ RetentionExpires \/ JobRemovesData
            \/ JobSucceeds \/ JobFails \/ JobIsCollected \/ WorldBreaks \/ WorldRecovers
  <2>1. UNCHANGED <<backup, cnpg, running, runs, rc>>
    BY <1>15 DEF MirrorRead, AdminDeletesJob, RetentionExpires, JobRemovesData,
       JobSucceeds, JobFails, JobIsCollected, WorldBreaks, WorldRecovers
  <2> QED
    BY <2>1
<1> QED
  BY <1>4, <1>5, <1>6, <1>7, <1>8, <1>9, <1>10, <1>11, <1>12, <1>13, <1>14, <1>15
     DEF Next, Reconcile, CleanupBackup, Environment

-----------------------------------------------------------------------------

\* The initial states are initial states of the source.
LEMMA SourceInit == Init => SourceInv /\ Source!Init
<1> SUFFICES ASSUME Init PROVE SourceInv /\ Source!Init
  OBVIOUS
<1>1. backup.st = "absent" /\ rc.pc = "idle" /\ running = 0 /\ runs = 0 /\ catalog = {}
  BY Fields DEF Init
<1>2. cnpg.phase = "new" /\ cnpg.id = 0
  <2>1. CASE cnpg = NoCnpgBackup
    BY <2>1 DEF NoCnpgBackup, NewCnpgBackup
  <2>2. CASE cnpg = [NewCnpgBackup EXCEPT !.scheduled = TRUE]
    BY <2>2 DEF NewCnpgBackup
  <2> QED
    BY <2>1, <2>2 DEF Init
<1>3. SourceInv
  BY <1>1, <1>2 DEF SourceInv, Reported
<1> QED
  BY <1>1, <1>2, <1>3 DEF Source!Init, Source!NoOrigin, Source!NewOrigin

\* Every step is a step of the source or leaves what can be read of it unchanged.
LEMMA SourceStep == IInv /\ SourceInv /\ Next => [Source!Next]_(Source!vars)
<1> SUFFICES ASSUME IInv, SourceInv, Next
             PROVE  Source!Next \/ UNCHANGED Source!vars
  OBVIOUS
<1>1. /\ backup \in Backups /\ cnpg \in CnpgBackups /\ rc \in Handlers
      /\ runs \in 0 .. MaxRuns /\ running \in Nat /\ MaxRuns \in Nat /\ Ended \in Int
  BY BoundsAssumption DEF IInv, TypeOK, Runs, Ended
<1>2. SourceInv'
  BY SourceInvStep
<1>3. CASE UNCHANGED <<Reported, Origin, Ended, catalog>>
  BY <1>3 DEF Source!vars, Reported, Origin, Ended
<1>4. CASE Reported # Reported' /\ UNCHANGED <<Origin, Ended, catalog>>
  <2>1. Reported \in BOOLEAN /\ Reported' \in BOOLEAN
    BY DEF Reported
  <2>2. Reported' = ~Reported /\ (Reported' => Ended > 0)
    BY <1>2, <1>4, <2>1 DEF SourceInv
  <2>3. Source!RecordChanges
    BY <1>4, <2>2 DEF Source!RecordChanges, Reported, Origin, Ended
  <2> QED
    BY <2>3 DEF Source!Next
<1>5. CASE cnpg'.st = "absent" /\ UNCHANGED <<Reported, Ended, catalog>>
  <2>1. CASE cnpg.st = "absent"
    BY <1>3, <1>5, <2>1 DEF Origin
  <2>2. CASE cnpg.st # "absent"
    <3>1. Source!OriginGoes
      BY <1>5, <2>2 DEF Source!OriginGoes, Source!NoOrigin, Reported, Origin, Ended
    <3> QED
      BY <3>1 DEF Source!Next
  <2> QED
    BY <2>1, <2>2
<1>6. CASE UNCHANGED <<cnpg, running, runs, catalog>>
  <2>1. UNCHANGED <<Origin, Ended, catalog>>
    BY <1>6 DEF Origin, Ended
  <2> QED
    BY <1>3, <1>4, <2>1
<1>7. CASE \/ ReconcileStart \/ SyncGetCluster \/ SyncExists \/ StatusWrite \/ CleanupGet
           \/ CleanupOrphan \/ CleanupGetStore \/ CleanupJob \/ Release \/ ReconcileFails
           \/ MirrorRead \/ MirrorCreate \/ UserCreates \/ UserDeletes \/ AdminDeletesJob
           \/ JobSucceeds \/ JobFails \/ JobIsCollected \/ WorldBreaks \/ WorldRecovers
  BY <1>6, <1>7 DEF ReconcileStart, SyncGetCluster, SyncExists, StatusWrite, CleanupGet,
     CleanupOrphan, CleanupGetStore, CleanupJob, buildBackupDeletionJob, Release,
     ReconcileFails, MirrorRead, MirrorCreate, UserCreates, UserDeletes, AdminDeletesJob,
     JobSucceeds, JobFails, JobIsCollected, WorldBreaks, WorldRecovers
<1>8. CASE SyncCreateOrUpdate
  <2>1. UNCHANGED <<Reported, Ended, catalog>>
    BY <1>8 DEF SyncCreateOrUpdate, Reported, Ended
  <2>2. CASE cnpg.st = "absent"
    <3>1. cnpg' = [NewCnpgBackup EXCEPT !.owner = backup.uid]
      BY <1>8, <2>2 DEF SyncCreateOrUpdate
    <3>2. cnpg'.st = "live" /\ cnpg'.phase = "new" /\ cnpg'.id = 0
      BY <3>1 DEF NewCnpgBackup
    <3>3. Source!OriginAppears
      BY <2>1, <2>2, <3>2
         DEF Source!OriginAppears, Source!NoOrigin, Source!NewOrigin, Reported, Ended
    <3> QED
      BY <3>3 DEF Source!Next
  <2>3. CASE cnpg.st # "absent"
    <3>1. UNCHANGED Origin
      BY <1>8, <2>3, SyncCreateOrUpdateMoves DEF Origin, IInv
    <3> QED
      BY <1>3, <2>1, <3>1
  <2> QED
    BY <2>2, <2>3
<1>9. CASE CleanupDelete
  <2>1. UNCHANGED <<Reported, Ended, catalog>>
    BY <1>9 DEF CleanupDelete, Reported, Ended
  <2>2. \/ cnpg' = cnpg \/ cnpg' = NoCnpgBackup
        \/ cnpg.st = "live" /\ cnpg' = [cnpg EXCEPT !.st = "terminating"]
    BY <1>9 DEF CleanupDelete
  <2>3. cnpg'.st = "absent" \/ UNCHANGED Origin
    BY <1>1, <2>2, Fields DEF Origin, CnpgBackups
  <2> QED
    BY <1>3, <1>5, <2>1, <2>3
<1>10. CASE CatalogMaintenance \/ CnpgBackupTerminates \/ ForegroundCollects
  <2>1. cnpg'.st = "absent" /\ UNCHANGED <<Reported, Ended, catalog>>
    BY <1>10, Fields
       DEF CatalogMaintenance, CnpgBackupTerminates, ForegroundCollects, Reported, Ended
  <2> QED
    BY <1>5, <2>1
<1>11. CASE CnpgStarts \/ CnpgFinalizes
  <2>1. UNCHANGED <<Reported, Ended, catalog>>
    BY <1>11 DEF CnpgStarts, CnpgFinalizes, Reported, Ended
  <2>2. UNCHANGED Origin
    BY <1>1, <1>11 DEF CnpgStarts, CnpgFinalizes, Origin, CnpgBackups
  <2> QED
    BY <1>3, <2>1, <2>2
<1>12. CASE CnpgRuns
  <2>1. UNCHANGED <<Reported, catalog>>
    BY <1>12 DEF CnpgRuns, Reported
  <2>2. running = 0 /\ runs' = runs + 1 /\ running' = runs + 1
    BY <1>12 DEF CnpgRuns
  <2>3. UNCHANGED Ended
    BY <1>1, <2>2 DEF Ended
  <2>4. UNCHANGED Origin
    BY <1>1, <1>12 DEF CnpgRuns, Origin, CnpgBackups
  <2> QED
    BY <1>3, <2>1, <2>3, <2>4
<1>13. CASE CnpgStops
  <2>1. running # 0 /\ running = runs /\ running' = 0 /\ runs' = runs /\ UNCHANGED Reported
    BY <1>13 DEF CnpgStops, SourceInv, Reported
  <2>2. Ended < MaxRuns /\ Ended' = Ended + 1 /\ Ended' = running
    BY <1>1, <2>1 DEF Ended
  <2>3. PICK ok, written \in BOOLEAN :
          /\ ok => written
          /\ catalog' = IF written THEN catalog \cup {running} ELSE catalog
          /\ cnpg' = IF cnpg.st # "absent" /\ cnpg.run = running
                     THEN [cnpg EXCEPT !.phase = IF ok THEN "completed" ELSE "failed",
                                       !.id = IF written THEN running ELSE 0]
                     ELSE cnpg
    BY <1>13 DEF CnpgStops
  <2>4. \/ UNCHANGED Origin
        \/ /\ Origin = [phase |-> "incomplete", id |-> 0]
           /\ Origin' \in [phase : {"incomplete", "completed"},
                           id : {0} \cup ({Ended'} \cap catalog')]
    <3>1. CASE cnpg.st # "absent" /\ cnpg.run = running
      <4>1. cnpg.id = 0
        BY <3>1 DEF IInv, RunsInv, Settled
      <4>2. Origin = [phase |-> "incomplete", id |-> 0]
        BY <3>1, <4>1 DEF Origin, SourceInv
      <4>3. /\ cnpg'.st # "absent"
            /\ cnpg'.id = IF written THEN running ELSE 0
        BY <1>1, <2>3, <3>1 DEF CnpgBackups
      <4>4. cnpg'.id \in {0} \cup ({Ended'} \cap catalog')
        BY <2>2, <2>3, <4>3
      <4> QED
        BY <4>2, <4>3, <4>4 DEF Origin
    <3>2. CASE ~(cnpg.st # "absent" /\ cnpg.run = running)
      BY <2>3, <3>2 DEF Origin
    <3> QED
      BY <3>1, <3>2
  <2>5. catalog' \in {catalog, catalog \cup {Ended'}}
    BY <2>2, <2>3
  <2>6. Source!RunEnds
    BY <2>1, <2>2, <2>4, <2>5 DEF Source!RunEnds, Source!NewOrigin, Reported, Origin, Ended
  <2> QED
    BY <2>6 DEF Source!Next
<1>14. CASE RetentionExpires \/ JobRemovesData
  <2>1. UNCHANGED <<Reported, Origin, Ended>>
    BY <1>14 DEF RetentionExpires, JobRemovesData, Reported, Origin, Ended
  <2>2. \E r \in catalog : catalog' = catalog \ {r}
    BY <1>14 DEF RetentionExpires, JobRemovesData
  <2>3. Source!RunExpires
    BY <2>1, <2>2 DEF Source!RunExpires, Reported, Origin, Ended
  <2> QED
    BY <2>3 DEF Source!Next
<1> QED
  BY <1>7, <1>8, <1>9, <1>10, <1>11, <1>12, <1>13, <1>14
     DEF Next, Reconcile, SyncBackup, CleanupBackup, Environment

\* Whatever becomes of a backup name, those who restore from it find what module
\* BackupSource says (SyncBackup and CleanupBackup as resolveSourceBackup sees them):
\* what is proved of Restore on its assumptions holds of it with the lifecycle.
THEOREM LifecycleIsASource == Spec => IsASource
<1>1. IInv /\ SourceInv /\ [Next]_vars => SourceInv'
  <2>1. SourceInv /\ UNCHANGED vars => SourceInv'
    BY DEF SourceInv, Reported, Ended, vars
  <2> QED
    BY <2>1, SourceInvStep
<1>2. IInv /\ SourceInv /\ [Next]_vars => [Source!Next]_(Source!vars)
  <2>1. UNCHANGED vars => UNCHANGED Source!vars
    BY DEF vars, Source!vars
  <2> QED
    BY <2>1, SourceStep
<1> QED
  BY <1>1, <1>2, SourceInit, Invariance, PTL DEF Spec, IsASource, Source!Spec
=============================================================================
