----------------------- MODULE BackupLifecycle_proofs -----------------------
(***************************************************************************)
(* Proofs about BackupLifecycle for every number of base backups, records  *)
(* and disturbances.  The inductive invariant IInv says which base backup  *)
(* each actor talks about: the handler's copy of the Barman ID, the Job's  *)
(* and the CNPG Backup's agree as long as they belong to the record that   *)
(* is being deleted, and none of them is the one still being written.      *)
(***************************************************************************)
EXTENDS BackupLifecycle, TLAPS

SyncPcs == {"sync", "exists", "create"}
CleanupPcs == {"lookup", "orphan", "store", "job", "delete", "release"}
JobIsCurrent == job.st # "absent" /\ job.owner = backup.uid

\* A base backup that somebody may ask to delete has been started and is over.
Settled(r) == r <= runs /\ r # running

\* Base backups are numbered as they start; recorded, catalogued and owed ones
\* are settled.
RunsInv ==
    /\ running <= runs /\ cnpg.run <= runs
    /\ \A r \in catalog \cup owed : Settled(r)
    /\ cnpg.id # 0 => /\ cnpg.id = cnpg.run /\ Settled(cnpg.id)
                      /\ cnpg.st # "absent" /\ cnpg.phase \notin {"new"} \cup InProgressPhases
    /\ rc.id # 0 => Settled(rc.id)
    /\ job.st # "absent" => job.id # 0 /\ Settled(job.id)

\* Where the handler is tells which branch the record took, and what the
\* handler saw of the CNPG Backup is still so.
HandlerInv ==
    /\ rc.pc # "idle" => backup.st # "absent"
    /\ rc.pc \in CleanupPcs => backup.st = "deleting"
    /\ rc.pc \in {"store", "job"} => DeletesData /\ rc.id # 0
    /\ rc.pc \in {"orphan", "release"} => cnpg.st = "absent"
    /\ rc.pc \in {"store", "job"} /\ cnpg.st # "absent" => cnpg.id = rc.id
    /\ rc.pc \in {"store", "job"} /\ JobIsCurrent => job.id = rc.id
    /\ cnpg.st = "terminating" => backup.st = "deleting"
    /\ DataRemovedFirst

\* A Job is about the CNPG Backup of the record that owns it; it is complete
\* only when its base backup is out of the catalog.
JobInv ==
    /\ job.owner <= backup.uid
    /\ job.st = "complete" => job.id \notin catalog
    /\ JobIsCurrent => /\ backup.st # "live" /\ backup.policy = "Delete"
                       /\ rc.pc \notin SyncPcs
                       /\ cnpg.st # "absent" => cnpg.id = job.id

\* A record reported as unavailable has a reference and no CNPG Backup.
LostInv ==
    /\ \A u \in lost : u <= backup.uid
    /\ backup.uid \in lost => cnpg.st = "absent" /\ backup.ref /\ rc.pc # "create"
    /\ rc.pc = "status" /\ rc.answer = "Unavailable" => cnpg.st = "absent" /\ backup.ref

IInv == TypeOK /\ RunsInv /\ HandlerInv /\ JobInv /\ LostInv

\* Unless foreground cascading has taken its CNPG Backup, an owed base backup still
\* in the catalog is the one the CNPG Backup of the record being deleted recorded.
OwedInv ==
    \A r \in (owed \cap catalog) \ cascaded :
        /\ backup.st = "deleting" /\ DeletesData
        /\ cnpg.st = "live" /\ cnpg.id = r
        /\ rc.pc # "delete"

-----------------------------------------------------------------------------
(* Types.                                                                  *)

\* The values the actions build have the types of the variables they go to.
LEMMA ValuesTyped ==
    /\ Idle \in Handlers
    /\ \A state \in States, seen \in BOOLEAN : Answer(state, seen) \in Handlers
    /\ \A uid \in 0 .. MaxUids : FreshBackup(uid) \in Backups
    /\ NoBackup \in Backups
    /\ NewCnpgBackup \in CnpgBackups /\ NoCnpgBackup \in CnpgBackups
    /\ [NewCnpgBackup EXCEPT !.scheduled = TRUE] \in CnpgBackups
    /\ NoJob \in Jobs
<1> USE BoundsAssumption
<1>1. Idle \in Handlers
  BY DEF Idle, Handlers, States
<1>2. ASSUME NEW state \in States, NEW seen \in BOOLEAN
      PROVE  Answer(state, seen) \in Handlers
  BY DEF Answer, Idle, Handlers
<1>3. ASSUME NEW uid \in 0 .. MaxUids
      PROVE  FreshBackup(uid) \in Backups
  BY DEF FreshBackup, Backups, Policies, States
<1>4. NoBackup \in Backups
  <2>1. 0 \in 0 .. MaxUids
    OBVIOUS
  <2>2. FreshBackup(0) \in Backups
    BY <1>3, <2>1
  <2> QED
    BY <2>2 DEF NoBackup, Backups
<1>5. NewCnpgBackup \in CnpgBackups
  BY DEF NewCnpgBackup, CnpgBackups, Phases
<1>6. /\ NoCnpgBackup \in CnpgBackups
      /\ [NewCnpgBackup EXCEPT !.scheduled = TRUE] \in CnpgBackups
  BY <1>5 DEF NoCnpgBackup, CnpgBackups
<1>7. NoJob \in Jobs
  BY DEF NoJob, Jobs
<1> QED
  BY <1>1, <1>2, <1>3, <1>4, <1>5, <1>6, <1>7

\* The initial states are well typed.
LEMMA TypeInit == Init => TypeOK
<1> SUFFICES ASSUME Init PROVE TypeOK
  OBVIOUS
<1>1. world \in Worlds
  BY DEF Init, Worlds
<1>2. backup \in Backups /\ cnpg \in CnpgBackups /\ job \in Jobs /\ rc \in Handlers
  BY ValuesTyped DEF Init
<1>3. /\ running \in Runs \cup {0} /\ runs \in 0 .. MaxRuns
      /\ catalog \subseteq Runs /\ owed \subseteq Runs /\ cascaded \subseteq Runs
      /\ mirror \in {"idle", "create"} /\ faults \in 0 .. MaxFaults
      /\ lost \subseteq 0 .. MaxUids
  BY BoundsAssumption DEF Init
<1> QED
  BY <1>1, <1>2, <1>3 DEF TypeOK

\* Every step keeps the types, within the named bounds.
LEMMA TypeStep == TypeOK /\ Next => TypeOK'
<1> SUFFICES ASSUME TypeOK, Next PROVE TypeOK'
  OBVIOUS
<1> USE BoundsAssumption, ValuesTyped DEF TypeOK
<1>1. CASE ReconcileStart
  BY <1>1 DEF ReconcileStart, Idle, Handlers
<1>2. CASE SyncGetCluster
  <2>1. Answer("Pending", FALSE) \in Handlers
    BY DEF States
  <2>2. world.archives \in BOOLEAN
    BY DEF Worlds, WorldParts
  <2>3. [rc EXCEPT !.pc = "exists", !.archives = world.archives] \in Handlers
    BY <2>2 DEF Handlers
  <2> QED
    BY <1>2, <2>1, <2>3 DEF SyncGetCluster
<1>3. CASE SyncExists
  <2>1. backupStorageBlocker # "none" => backupStorageBlocker \in States
    BY DEF backupStorageBlocker, States
  <2>2. "Unavailable" \in States
    BY DEF States
  <2>3. [rc EXCEPT !.pc = "create"] \in Handlers
    BY DEF Handlers
  <2> QED
    BY <1>3, <2>1, <2>2, <2>3 DEF SyncExists
<1>4. CASE SyncCreateOrUpdate
  <2> DEFINE found == IF cnpg.st = "absent" THEN NewCnpgBackup ELSE cnpg
  <2>1. found \in CnpgBackups /\ backup.uid \in 0 .. MaxUids
    BY DEF Backups
  <2>2. [found EXCEPT !.owner = backup.uid] \in CnpgBackups
    BY <2>1 DEF CnpgBackups
  <2>3. StateOf(found.phase) \in States
    BY DEF StateOf, States
  <2> QED
    BY <1>4, <2>2, <2>3 DEF SyncCreateOrUpdate
<1>5. CASE StatusWrite
  <2>1. backup' \in Backups
    BY <1>5 DEF StatusWrite, Backups, Handlers
  <2>2. lost' \subseteq 0 .. MaxUids
    BY <1>5 DEF StatusWrite, Backups
  <2> QED
    BY <1>5, <2>1, <2>2 DEF StatusWrite
<1>6. CASE CleanupGet
  <2>1. cnpg.id \in Runs \cup {0} /\ (cnpg.st = "live") \in BOOLEAN
    BY DEF CnpgBackups
  <2>2. /\ \A pc \in {"orphan", "release"} : [Idle EXCEPT !.pc = pc] \in Handlers
        /\ \A live \in BOOLEAN :
              [Idle EXCEPT !.pc = "delete", !.live = live] \in Handlers
        /\ \A pc \in {"delete", "store"}, live \in BOOLEAN, id \in Runs \cup {0} :
              [Idle EXCEPT !.pc = pc, !.live = live, !.id = id] \in Handlers
    BY DEF Handlers
  <2>3. rc' \in Handlers
    BY <1>6, <2>1, <2>2 DEF CleanupGet
  <2> QED
    BY <1>6, <2>3 DEF CleanupGet
<1>7. CASE CleanupOrphan
  BY <1>7 DEF CleanupOrphan, Idle, Handlers
<1>8. CASE CleanupGetStore
  <2>1. rc' \in Handlers
    BY <1>8 DEF CleanupGetStore, Handlers
  <2> QED
    BY <1>8, <2>1 DEF CleanupGetStore
<1>9. CASE CleanupJob
  <2>1. job' \in Jobs
    BY <1>9 DEF CleanupJob, buildBackupDeletionJob, Jobs, Backups, Handlers
  <2>2. rc' \in Handlers
    BY <1>9 DEF CleanupJob, buildBackupDeletionJob, Handlers
  <2> QED
    BY <1>9, <2>1, <2>2 DEF CleanupJob, buildBackupDeletionJob
<1>10. CASE CleanupDelete
  <2>1. cnpg' \in CnpgBackups
    BY <1>10 DEF CleanupDelete, CnpgBackups
  <2> QED
    BY <1>10, <2>1 DEF CleanupDelete
<1>11. CASE Release
  <2>1. backup' \in Backups
    BY <1>11 DEF Release, Backups
  <2> QED
    BY <1>11, <2>1 DEF Release
<1>12. CASE ReconcileFails
  BY <1>12 DEF ReconcileFails, Fault
<1>13. CASE MirrorRead
  BY <1>13 DEF MirrorRead
<1>14. CASE MirrorCreate
  <2>1. backup.uid < MaxUids => backup.uid + 1 \in 0 .. MaxUids
    BY DEF Backups
  <2> QED
    BY <1>14, <2>1 DEF MirrorCreate
<1>15. CASE UserCreates
  <2>1. backup.uid + 1 \in 0 .. MaxUids
    BY <1>15 DEF UserCreates, Backups
  <2> QED
    BY <1>15, <2>1 DEF UserCreates
<1>16. CASE UserDeletes
  <2>1. backup' \in Backups
    BY <1>16 DEF UserDeletes, Backups
  <2>2. owed' \subseteq Runs
    BY <1>16 DEF UserDeletes, CnpgBackups
  <2> QED
    BY <1>16, <2>1, <2>2 DEF UserDeletes
<1>17. CASE AdminDeletesJob
  BY <1>17 DEF AdminDeletesJob
<1>18. CASE CnpgStarts
  <2>1. cnpg' \in CnpgBackups
    BY <1>18 DEF CnpgStarts, CnpgBackups, Phases, InProgressPhases
  <2> QED
    BY <1>18, <2>1 DEF CnpgStarts
<1>19. CASE CnpgRuns
  <2>1. runs + 1 \in Runs
    BY <1>19 DEF CnpgRuns, Runs
  <2>2. cnpg' \in CnpgBackups
    BY <1>19, <2>1 DEF CnpgRuns, CnpgBackups, Phases, InProgressPhases
  <2> QED
    BY <1>19, <2>1, <2>2 DEF CnpgRuns, Runs
<1>20. CASE CnpgFinalizes
  <2>1. cnpg' \in CnpgBackups
    BY <1>20 DEF CnpgFinalizes, CnpgBackups, Phases, InProgressPhases
  <2> QED
    BY <1>20, <2>1 DEF CnpgFinalizes
<1>21. CASE CnpgStops
  <2>1. running \in Runs
    BY <1>21 DEF CnpgStops
  <2>2. cnpg' \in CnpgBackups
    BY <1>21, <2>1 DEF CnpgStops, CnpgBackups, Phases
  <2> QED
    BY <1>21, <2>1, <2>2 DEF CnpgStops
<1>22. CASE RetentionExpires
  BY <1>22 DEF RetentionExpires, Fault
<1>23. CASE CatalogMaintenance
  BY <1>23 DEF CatalogMaintenance
<1>24. CASE CnpgBackupTerminates
  BY <1>24 DEF CnpgBackupTerminates
<1>25. CASE JobRemovesData
  BY <1>25 DEF JobRemovesData
<1>26. CASE JobSucceeds
  <2>1. job' \in Jobs
    BY <1>26 DEF JobSucceeds, Jobs
  <2> QED
    BY <1>26, <2>1 DEF JobSucceeds
<1>27. CASE JobFails
  <2>1. job' \in Jobs
    BY <1>27 DEF JobFails, Jobs
  <2> QED
    BY <1>27, <2>1 DEF JobFails, Fault
<1>28. CASE JobIsCollected
  BY <1>28 DEF JobIsCollected
<1>29. CASE ForegroundCollects
  <2>1. cascaded' \subseteq Runs
    BY <1>29 DEF ForegroundCollects
  <2> QED
    BY <1>29, <2>1 DEF ForegroundCollects
<1>30. CASE WorldBreaks
  <2>1. world' \in Worlds
    BY <1>30 DEF WorldBreaks, Worlds
  <2> QED
    BY <1>30, <2>1 DEF WorldBreaks, Fault
<1>31. CASE WorldRecovers
  <2>1. world' \in Worlds
    BY <1>31 DEF WorldRecovers, Worlds
  <2> QED
    BY <1>31, <2>1 DEF WorldRecovers
<1>32. QED
  BY <1>1, <1>2, <1>3, <1>4, <1>5, <1>6, <1>7, <1>8, <1>9, <1>10, <1>11, <1>12,
     <1>13, <1>14, <1>15, <1>16, <1>17, <1>18, <1>19, <1>20, <1>21, <1>22, <1>23,
     <1>24, <1>25, <1>26, <1>27, <1>28, <1>29, <1>30, <1>31
  DEF Next, Reconcile, SyncBackup, CleanupBackup, Environment

-----------------------------------------------------------------------------
(* What single steps do.                                                   *)

\* Fields of the constant records.
LEMMA Fields ==
    /\ Idle.pc = "idle" /\ Idle.id = 0 /\ Idle.answer = "New"
    /\ NoBackup.st = "absent" /\ NoBackup.uid = 0
    /\ NewCnpgBackup.st = "live" /\ NewCnpgBackup.run = 0 /\ NewCnpgBackup.id = 0
    /\ NoCnpgBackup.st = "absent" /\ NoCnpgBackup.run = 0 /\ NoCnpgBackup.id = 0
    /\ NoJob.st = "absent" /\ NoJob.owner = 0 /\ NoJob.id = 0
BY DEF Idle, FreshBackup, NoBackup, NewCnpgBackup, NoCnpgBackup, NoJob

\* An answer waits to be stored and carries no Barman ID.
LEMMA AnswerFields ==
    ASSUME NEW state, NEW seen
    PROVE  /\ Answer(state, seen).pc = "status"
           /\ Answer(state, seen).id = 0
           /\ Answer(state, seen).answer = state
BY ValuesTyped, Fields DEF Answer, Handlers

\* A missing Cluster is answered Pending (backup.go:34).
LEMMA SyncGetClusterMoves ==
    TypeOK /\ SyncGetCluster =>
        /\ rc'.pc \in {"exists", "status"} /\ rc'.id \in {0, rc.id}
        /\ rc'.pc = "status" => rc'.answer = "Pending"
<1> SUFFICES ASSUME TypeOK, SyncGetCluster
             PROVE  /\ rc'.pc \in {"exists", "status"} /\ rc'.id \in {0, rc.id}
                    /\ rc'.pc = "status" => rc'.answer = "Pending"
  OBVIOUS
<1>1. CASE world.cluster
  BY <1>1 DEF SyncGetCluster, TypeOK, Handlers
<1>2. CASE ~world.cluster
  BY <1>2, AnswerFields DEF SyncGetCluster, States
<1> QED
  BY <1>1, <1>2

\* Creation goes on only without a reference or with a CNPG Backup in sight;
\* "Unavailable" is answered only with a reference and no CNPG Backup.
LEMMA SyncExistsMoves ==
    TypeOK /\ SyncExists =>
        /\ rc'.pc \in {"create", "status"} /\ rc'.id \in {0, rc.id}
        /\ rc'.pc = "create" => cnpg.st # "absent" \/ ~backup.ref
        /\ rc'.pc = "status" /\ rc'.answer = "Unavailable" => cnpg.st = "absent" /\ backup.ref
<1> SUFFICES ASSUME TypeOK, SyncExists
             PROVE  /\ rc'.pc \in {"create", "status"} /\ rc'.id \in {0, rc.id}
                    /\ rc'.pc = "create" => cnpg.st # "absent" \/ ~backup.ref
                    /\ rc'.pc = "status" /\ rc'.answer = "Unavailable"
                          => cnpg.st = "absent" /\ backup.ref
  OBVIOUS
<1>1. CASE rc' = [rc EXCEPT !.pc = "create"] /\ (cnpg.st # "absent" \/ ~ObservedBefore)
  BY <1>1 DEF TypeOK, Handlers, ObservedBefore
<1>2. CASE rc' = Answer("Unavailable", FALSE) /\ cnpg.st = "absent" /\ ObservedBefore
  <2>1. rc'.pc = "status" /\ rc'.id = 0
    BY <1>2, AnswerFields
  <2> QED
    BY <1>2, <2>1 DEF ObservedBefore
<1>3. CASE rc' = Answer(backupStorageBlocker, FALSE)
  <2>1. backupStorageBlocker \in {"Failed", "Pending", "none"}
    BY DEF backupStorageBlocker
  <2>2. rc'.pc = "status" /\ rc'.id = 0 /\ rc'.answer = backupStorageBlocker
    BY <1>3, AnswerFields
  <2> QED
    BY <2>1, <2>2
<1> QED
  BY <1>1, <1>2, <1>3 DEF SyncExists

\* CreateOrUpdate makes a fresh CNPG Backup or changes nothing but its owner.
LEMMA SyncCreateOrUpdateMoves ==
    TypeOK /\ SyncCreateOrUpdate =>
        /\ rc'.pc = "status" /\ rc'.id = 0 /\ rc'.answer # "Unavailable"
        /\ IF cnpg.st = "absent"
           THEN cnpg'.st = "live" /\ cnpg'.id = 0 /\ cnpg'.run = 0
           ELSE /\ cnpg'.st = cnpg.st /\ cnpg'.id = cnpg.id /\ cnpg'.run = cnpg.run
                /\ cnpg'.phase = cnpg.phase
<1> SUFFICES ASSUME TypeOK, SyncCreateOrUpdate
             PROVE  /\ rc'.pc = "status" /\ rc'.id = 0 /\ rc'.answer # "Unavailable"
                    /\ IF cnpg.st = "absent"
                       THEN cnpg'.st = "live" /\ cnpg'.id = 0 /\ cnpg'.run = 0
                       ELSE /\ cnpg'.st = cnpg.st /\ cnpg'.id = cnpg.id
                            /\ cnpg'.run = cnpg.run /\ cnpg'.phase = cnpg.phase
  OBVIOUS
<1> DEFINE found == IF cnpg.st = "absent" THEN NewCnpgBackup ELSE cnpg
<1>1. rc' = Answer(StateOf(found.phase), TRUE) /\ cnpg' = [found EXCEPT !.owner = backup.uid]
  BY DEF SyncCreateOrUpdate
<1>2. StateOf(found.phase) # "Unavailable"
  BY DEF StateOf
<1>3. rc'.pc = "status" /\ rc'.id = 0 /\ rc'.answer # "Unavailable"
  <2>1. ASSUME NEW state, state # "Unavailable", rc' = Answer(state, TRUE)
        PROVE  rc'.pc = "status" /\ rc'.id = 0 /\ rc'.answer # "Unavailable"
    BY <2>1, AnswerFields
  <2> QED
    BY <1>1, <1>2, <2>1
<1>4. found \in CnpgBackups
  BY ValuesTyped DEF TypeOK
<1>5. /\ cnpg'.st = found.st /\ cnpg'.id = found.id /\ cnpg'.run = found.run
      /\ cnpg'.phase = found.phase
  BY <1>1, <1>4 DEF CnpgBackups
<1> QED
  BY <1>3, <1>5, Fields

\* What CleanupBackup has learnt when it goes on after its first Get.
LEMMA CleanupGetMoves ==
    TypeOK /\ CleanupGet =>
        \/ rc'.pc = "idle" /\ rc'.id = 0
        \/ rc'.pc \in {"orphan", "release"} /\ rc'.id = 0 /\ cnpg.st = "absent"
        \/ rc'.pc = "delete" /\ rc'.id = 0 /\ cnpg.st # "absent" /\ (~DeletesData \/ cnpg.id = 0)
        \/ /\ rc'.pc = "store" /\ rc'.id = cnpg.id /\ cnpg.id # 0 /\ cnpg.st # "absent"
           /\ DeletesData
<1> SUFFICES ASSUME TypeOK, CleanupGet
             PROVE  \/ rc'.pc = "idle" /\ rc'.id = 0
                    \/ rc'.pc \in {"orphan", "release"} /\ rc'.id = 0 /\ cnpg.st = "absent"
                    \/ /\ rc'.pc = "delete" /\ rc'.id = 0 /\ cnpg.st # "absent"
                       /\ ~DeletesData \/ cnpg.id = 0
                    \/ /\ rc'.pc = "store" /\ rc'.id = cnpg.id /\ cnpg.id # 0
                       /\ cnpg.st # "absent" /\ DeletesData
  OBVIOUS
<1> USE ValuesTyped, Fields DEF Handlers
<1>1. CASE cnpg.st = "absent"
  BY <1>1 DEF CleanupGet
<1>2. CASE cnpg.st # "absent" /\ ~DeletesData
  BY <1>2 DEF CleanupGet
<1>3. CASE cnpg.st # "absent" /\ DeletesData /\ cnpg.phase \in InProgressPhases
  BY <1>3 DEF CleanupGet
<1>4. CASE cnpg.st # "absent" /\ DeletesData /\ cnpg.phase \notin InProgressPhases
  <2> DEFINE pc == IF cnpg.id = 0 THEN "delete" ELSE "store"
  <2>1. rc' = [Idle EXCEPT !.pc = pc, !.live = cnpg.st = "live", !.id = cnpg.id]
    BY <1>4 DEF CleanupGet
  <2>2. rc'.pc = pc /\ rc'.id = cnpg.id
    BY <2>1
  <2> QED
    BY <2>2, <1>4
<1> QED
  BY <1>1, <1>2, <1>3, <1>4

\* deleteBackupData creates a Job for the ID it saw, waits, or found its own
\* Job complete.
LEMMA CleanupJobMoves ==
    TypeOK /\ CleanupJob =>
        \/ /\ rc'.pc = "idle" /\ rc'.id = 0
           /\ job'.st = "running" /\ job'.owner = backup.uid /\ job'.id = rc.id
        \/ rc'.pc = "idle" /\ rc'.id = 0 /\ job' = job
        \/ /\ rc'.pc = "delete" /\ rc'.id = rc.id /\ job' = job
           /\ job.st = "complete" /\ job.owner = backup.uid
<1> SUFFICES ASSUME TypeOK, CleanupJob
             PROVE  \/ /\ rc'.pc = "idle" /\ rc'.id = 0
                       /\ job'.st = "running" /\ job'.owner = backup.uid /\ job'.id = rc.id
                    \/ rc'.pc = "idle" /\ rc'.id = 0 /\ job' = job
                    \/ /\ rc'.pc = "delete" /\ rc'.id = rc.id /\ job' = job
                       /\ job.st = "complete" /\ job.owner = backup.uid
  OBVIOUS
<1>1. CASE rc' = Idle
  BY <1>1, Fields DEF CleanupJob, buildBackupDeletionJob, TypeOK, Handlers
<1>2. CASE rc' = [rc EXCEPT !.pc = "delete"] /\ job' = job /\ JobIsControlled /\ deletionJobDone
  BY <1>2 DEF TypeOK, Handlers, JobIsControlled, deletionJobDone
<1> QED
  BY <1>1, <1>2 DEF CleanupJob, buildBackupDeletionJob

\* A new record has a UID no earlier one had, and no reference.
LEMMA NewRecord ==
    TypeOK /\ (MirrorCreate \/ UserCreates) =>
        \/ backup' = backup
        \/ /\ backup.st = "absent" /\ backup'.st = "live" /\ backup'.uid = backup.uid + 1
           /\ backup'.ref = FALSE
<1> SUFFICES ASSUME TypeOK,
                    backup.st = "absent", backup' = FreshBackup(backup.uid + 1)
             PROVE  /\ backup'.st = "live" /\ backup'.uid = backup.uid + 1
                    /\ backup'.ref = FALSE
  BY DEF MirrorCreate, UserCreates
<1> QED
  BY DEF FreshBackup

-----------------------------------------------------------------------------
(* Each part of the inductive invariant is kept by every step.             *)

\* Numbers stay consistent: nobody gets hold of the base backup being written.
LEMMA RunsStep == IInv /\ Next => RunsInv'
<1> SUFFICES ASSUME IInv, Next PROVE RunsInv'
  OBVIOUS
<1> USE BoundsAssumption, ValuesTyped, Fields DEF IInv, TypeOK, RunsInv, Settled, Backups,
        CnpgBackups, Jobs, Handlers, Runs
<1>1. CASE ReconcileStart
  BY <1>1 DEF ReconcileStart
<1>2. CASE SyncGetCluster
  <2>1. rc'.id \in {0, rc.id}
    BY <1>2, SyncGetClusterMoves
  <2>2. UNCHANGED <<cnpg, job, running, runs, catalog, owed>>
    BY <1>2 DEF SyncGetCluster
  <2> QED
    BY <2>1, <2>2
<1>3. CASE SyncExists
  <2>1. rc'.id \in {0, rc.id}
    BY <1>3, SyncExistsMoves
  <2>2. UNCHANGED <<cnpg, job, running, runs, catalog, owed>>
    BY <1>3 DEF SyncExists
  <2> QED
    BY <2>1, <2>2
<1>4. CASE SyncCreateOrUpdate
  <2>1. /\ rc'.pc = "status" /\ rc'.id = 0
        /\ IF cnpg.st = "absent"
           THEN cnpg'.st = "live" /\ cnpg'.id = 0 /\ cnpg'.run = 0
           ELSE /\ cnpg'.st = cnpg.st /\ cnpg'.id = cnpg.id /\ cnpg'.run = cnpg.run
                /\ cnpg'.phase = cnpg.phase
    BY <1>4, SyncCreateOrUpdateMoves
  <2>2. UNCHANGED <<job, running, runs, catalog, owed>>
    BY <1>4 DEF SyncCreateOrUpdate
  <2> QED
    BY <2>1, <2>2
<1>5. CASE StatusWrite
  BY <1>5 DEF StatusWrite
<1>6. CASE CleanupGet
  BY <1>6, CleanupGetMoves DEF CleanupGet
<1>7. CASE CleanupOrphan
  BY <1>7 DEF CleanupOrphan, NothingToWaitFor
<1>8. CASE CleanupGetStore
  BY <1>8 DEF CleanupGetStore
<1>9. CASE CleanupJob
  <2>1. \/ /\ rc'.pc = "idle" /\ rc'.id = 0
           /\ job'.st = "running" /\ job'.owner = backup.uid /\ job'.id = rc.id
        \/ rc'.pc = "idle" /\ rc'.id = 0 /\ job' = job
        \/ /\ rc'.pc = "delete" /\ rc'.id = rc.id /\ job' = job
    BY <1>9, CleanupJobMoves
  <2>2. rc.pc = "job" /\ UNCHANGED <<cnpg, running, runs, catalog, owed>>
    BY <1>9 DEF CleanupJob, buildBackupDeletionJob
  <2> QED
    BY <2>1, <2>2 DEF HandlerInv
<1>10. CASE CleanupDelete
  BY <1>10 DEF CleanupDelete
<1>11. CASE Release
  BY <1>11 DEF Release
<1>12. CASE ReconcileFails
  BY <1>12 DEF ReconcileFails, Fault
<1>13. CASE MirrorRead
  BY <1>13 DEF MirrorRead
<1>14. CASE MirrorCreate
  BY <1>14, NewRecord DEF MirrorCreate
<1>15. CASE UserCreates
  BY <1>15, NewRecord DEF UserCreates
<1>16. CASE UserDeletes
  BY <1>16 DEF UserDeletes, Policies
<1>17. CASE AdminDeletesJob
  BY <1>17 DEF AdminDeletesJob
<1>18. CASE CnpgStarts
  BY <1>18 DEF CnpgStarts, InProgressPhases
<1>19. CASE CnpgRuns
  BY <1>19 DEF CnpgRuns, InProgressPhases
<1>20. CASE CnpgFinalizes
  BY <1>20 DEF CnpgFinalizes, InProgressPhases
<1>21. CASE CnpgStops
  BY <1>21 DEF CnpgStops, InProgressPhases
<1>22. CASE RetentionExpires
  BY <1>22 DEF RetentionExpires, Fault
<1>23. CASE CatalogMaintenance
  BY <1>23 DEF CatalogMaintenance, InProgressPhases
<1>24. CASE CnpgBackupTerminates
  BY <1>24 DEF CnpgBackupTerminates
<1>25. CASE JobRemovesData
  BY <1>25 DEF JobRemovesData
<1>26. CASE JobSucceeds
  BY <1>26 DEF JobSucceeds
<1>27. CASE JobFails
  BY <1>27 DEF JobFails, Fault
<1>28. CASE JobIsCollected
  BY <1>28 DEF JobIsCollected
<1>29. CASE ForegroundCollects
  BY <1>29 DEF ForegroundCollects
<1>30. CASE WorldBreaks
  BY <1>30 DEF WorldBreaks, Fault
<1>31. CASE WorldRecovers
  BY <1>31 DEF WorldRecovers
<1>32. QED
  BY <1>1, <1>2, <1>3, <1>4, <1>5, <1>6, <1>7, <1>8, <1>9, <1>10, <1>11, <1>12, <1>13,
     <1>14, <1>15, <1>16, <1>17, <1>18, <1>19, <1>20, <1>21, <1>22, <1>23, <1>24, <1>25,
     <1>26, <1>27, <1>28, <1>29, <1>30, <1>31
  DEF Next, Reconcile, SyncBackup, CleanupBackup, Environment

\* What the handler saw stays true until it acts on it.
LEMMA HandlerStep == IInv /\ Next => HandlerInv'
<1> SUFFICES ASSUME IInv, Next PROVE HandlerInv'
  OBVIOUS
<1> USE BoundsAssumption, ValuesTyped, Fields DEF IInv, TypeOK, RunsInv, Settled,
        HandlerInv, JobInv, JobIsCurrent, CleanupPcs, SyncPcs, DataRemovedFirst,
        DeletesData, Backups, CnpgBackups, Jobs, Handlers, Runs
<1>1. CASE ReconcileStart
  BY <1>1 DEF ReconcileStart
<1>2. CASE SyncGetCluster
  BY <1>2, SyncGetClusterMoves DEF SyncGetCluster
<1>3. CASE SyncExists
  BY <1>3, SyncExistsMoves DEF SyncExists
<1>4. CASE SyncCreateOrUpdate
  BY <1>4, SyncCreateOrUpdateMoves DEF SyncCreateOrUpdate
<1>5. CASE StatusWrite
  BY <1>5 DEF StatusWrite
<1>6. CASE CleanupGet
  BY <1>6, CleanupGetMoves DEF CleanupGet
<1>7. CASE CleanupOrphan
  BY <1>7 DEF CleanupOrphan, NothingToWaitFor
<1>8. CASE CleanupGetStore
  BY <1>8 DEF CleanupGetStore
<1>9. CASE CleanupJob
  BY <1>9, CleanupJobMoves DEF CleanupJob, buildBackupDeletionJob
<1>10. CASE CleanupDelete
  BY <1>10 DEF CleanupDelete
<1>11. CASE Release
  BY <1>11 DEF Release
<1>12. CASE ReconcileFails
  BY <1>12 DEF ReconcileFails, Fault
<1>13. CASE MirrorRead
  BY <1>13 DEF MirrorRead
<1>14. CASE MirrorCreate
  BY <1>14, NewRecord DEF MirrorCreate
<1>15. CASE UserCreates
  BY <1>15, NewRecord DEF UserCreates
<1>16. CASE UserDeletes
  BY <1>16 DEF UserDeletes, Policies
<1>17. CASE AdminDeletesJob
  BY <1>17 DEF AdminDeletesJob
<1>18. CASE CnpgStarts
  BY <1>18 DEF CnpgStarts, InProgressPhases
<1>19. CASE CnpgRuns
  BY <1>19 DEF CnpgRuns, InProgressPhases
<1>20. CASE CnpgFinalizes
  BY <1>20 DEF CnpgFinalizes, InProgressPhases
<1>21. CASE CnpgStops
  BY <1>21 DEF CnpgStops, InProgressPhases
<1>22. CASE RetentionExpires
  BY <1>22 DEF RetentionExpires, Fault
<1>23. CASE CatalogMaintenance
  BY <1>23 DEF CatalogMaintenance, InProgressPhases
<1>24. CASE CnpgBackupTerminates
  BY <1>24 DEF CnpgBackupTerminates
<1>25. CASE JobRemovesData
  BY <1>25 DEF JobRemovesData
<1>26. CASE JobSucceeds
  BY <1>26 DEF JobSucceeds
<1>27. CASE JobFails
  BY <1>27 DEF JobFails, Fault
<1>28. CASE JobIsCollected
  BY <1>28 DEF JobIsCollected
<1>29. CASE ForegroundCollects
  BY <1>29 DEF ForegroundCollects
<1>30. CASE WorldBreaks
  BY <1>30 DEF WorldBreaks, Fault
<1>31. CASE WorldRecovers
  BY <1>31 DEF WorldRecovers
<1>32. QED
  BY <1>1, <1>2, <1>3, <1>4, <1>5, <1>6, <1>7, <1>8, <1>9, <1>10, <1>11, <1>12, <1>13,
     <1>14, <1>15, <1>16, <1>17, <1>18, <1>19, <1>20, <1>21, <1>22, <1>23, <1>24, <1>25,
     <1>26, <1>27, <1>28, <1>29, <1>30, <1>31
  DEF Next, Reconcile, SyncBackup, CleanupBackup, Environment

\* Jobs stay about the CNPG Backup of the record that owns them.
LEMMA JobStep == IInv /\ Next => JobInv'
<1> SUFFICES ASSUME IInv, Next PROVE JobInv'
  OBVIOUS
<1> USE BoundsAssumption, ValuesTyped, Fields DEF IInv, TypeOK, RunsInv, Settled,
        HandlerInv, JobInv, JobIsCurrent, CleanupPcs, SyncPcs, DeletesData, Backups,
        CnpgBackups, Jobs, Handlers, Runs
<1>1. CASE ReconcileStart
  BY <1>1 DEF ReconcileStart
<1>2. CASE SyncGetCluster
  BY <1>2, SyncGetClusterMoves DEF SyncGetCluster
<1>3. CASE SyncExists
  BY <1>3, SyncExistsMoves DEF SyncExists
<1>4. CASE SyncCreateOrUpdate
  BY <1>4, SyncCreateOrUpdateMoves DEF SyncCreateOrUpdate
<1>5. CASE StatusWrite
  BY <1>5 DEF StatusWrite
<1>6. CASE CleanupGet
  BY <1>6, CleanupGetMoves DEF CleanupGet
<1>7. CASE CleanupOrphan
  BY <1>7 DEF CleanupOrphan, NothingToWaitFor
<1>8. CASE CleanupGetStore
  BY <1>8 DEF CleanupGetStore
<1>9. CASE CleanupJob
  <2>1. \/ /\ rc'.pc = "idle" /\ rc'.id = 0
           /\ job'.st = "running" /\ job'.owner = backup.uid /\ job'.id = rc.id
        \/ rc'.pc = "idle" /\ rc'.id = 0 /\ job' = job
        \/ /\ rc'.pc = "delete" /\ rc'.id = rc.id /\ job' = job
    BY <1>9, CleanupJobMoves
  <2>2. rc.pc = "job" /\ UNCHANGED <<backup, cnpg, running, runs, catalog, owed>>
    BY <1>9 DEF CleanupJob, buildBackupDeletionJob
  <2> QED
    BY <2>1, <2>2 DEF Policies
<1>10. CASE CleanupDelete
  BY <1>10 DEF CleanupDelete
<1>11. CASE Release
  BY <1>11 DEF Release
<1>12. CASE ReconcileFails
  BY <1>12 DEF ReconcileFails, Fault
<1>13. CASE MirrorRead
  BY <1>13 DEF MirrorRead
<1>14. CASE MirrorCreate
  <2>1. \/ backup' = backup
        \/ /\ backup.st = "absent" /\ backup'.st = "live" /\ backup'.uid = backup.uid + 1
           /\ backup'.ref = FALSE
    BY <1>14, NewRecord
  <2>2. UNCHANGED <<cnpg, job, rc, catalog>>
    BY <1>14 DEF MirrorCreate
  <2> QED
    BY <2>1, <2>2
<1>15. CASE UserCreates
  <2>1. \/ backup' = backup
        \/ /\ backup.st = "absent" /\ backup'.st = "live" /\ backup'.uid = backup.uid + 1
           /\ backup'.ref = FALSE
    BY <1>15, NewRecord
  <2>2. UNCHANGED <<cnpg, job, rc, catalog>>
    BY <1>15 DEF UserCreates
  <2> QED
    BY <2>1, <2>2
<1>16. CASE UserDeletes
  BY <1>16 DEF UserDeletes, Policies
<1>17. CASE AdminDeletesJob
  BY <1>17 DEF AdminDeletesJob
<1>18. CASE CnpgStarts
  BY <1>18 DEF CnpgStarts, InProgressPhases
<1>19. CASE CnpgRuns
  BY <1>19 DEF CnpgRuns, InProgressPhases
<1>20. CASE CnpgFinalizes
  BY <1>20 DEF CnpgFinalizes, InProgressPhases
<1>21. CASE CnpgStops
  BY <1>21 DEF CnpgStops, InProgressPhases
<1>22. CASE RetentionExpires
  BY <1>22 DEF RetentionExpires, Fault
<1>23. CASE CatalogMaintenance
  BY <1>23 DEF CatalogMaintenance, InProgressPhases
<1>24. CASE CnpgBackupTerminates
  BY <1>24 DEF CnpgBackupTerminates
<1>25. CASE JobRemovesData
  BY <1>25 DEF JobRemovesData
<1>26. CASE JobSucceeds
  BY <1>26 DEF JobSucceeds
<1>27. CASE JobFails
  BY <1>27 DEF JobFails, Fault
<1>28. CASE JobIsCollected
  BY <1>28 DEF JobIsCollected
<1>29. CASE ForegroundCollects
  BY <1>29 DEF ForegroundCollects
<1>30. CASE WorldBreaks
  BY <1>30 DEF WorldBreaks, Fault
<1>31. CASE WorldRecovers
  BY <1>31 DEF WorldRecovers
<1>32. QED
  BY <1>1, <1>2, <1>3, <1>4, <1>5, <1>6, <1>7, <1>8, <1>9, <1>10, <1>11, <1>12, <1>13,
     <1>14, <1>15, <1>16, <1>17, <1>18, <1>19, <1>20, <1>21, <1>22, <1>23, <1>24, <1>25,
     <1>26, <1>27, <1>28, <1>29, <1>30, <1>31
  DEF Next, Reconcile, SyncBackup, CleanupBackup, Environment

\* Nothing is created again for a record reported as unavailable.
LEMMA LostStep == IInv /\ Next => LostInv'
<1> SUFFICES ASSUME IInv, Next PROVE LostInv'
  OBVIOUS
<1> USE BoundsAssumption, ValuesTyped, Fields DEF IInv, TypeOK, HandlerInv, LostInv,
        Backups, CnpgBackups, Jobs, Handlers, Runs
<1>1. CASE ReconcileStart
  BY <1>1 DEF ReconcileStart
<1>2. CASE SyncGetCluster
  BY <1>2, SyncGetClusterMoves DEF SyncGetCluster
<1>3. CASE SyncExists
  BY <1>3, SyncExistsMoves DEF SyncExists
<1>4. CASE SyncCreateOrUpdate
  BY <1>4, SyncCreateOrUpdateMoves DEF SyncCreateOrUpdate
<1>5. CASE StatusWrite
  BY <1>5 DEF StatusWrite
<1>6. CASE CleanupGet
  BY <1>6, CleanupGetMoves DEF CleanupGet
<1>7. CASE CleanupOrphan
  BY <1>7 DEF CleanupOrphan, NothingToWaitFor
<1>8. CASE CleanupGetStore
  BY <1>8 DEF CleanupGetStore
<1>9. CASE CleanupJob
  BY <1>9, CleanupJobMoves DEF CleanupJob, buildBackupDeletionJob
<1>10. CASE CleanupDelete
  BY <1>10 DEF CleanupDelete
<1>11. CASE Release
  BY <1>11 DEF Release
<1>12. CASE ReconcileFails
  BY <1>12 DEF ReconcileFails, Fault
<1>13. CASE MirrorRead
  BY <1>13 DEF MirrorRead
<1>14. CASE MirrorCreate
  <2>1. \/ backup' = backup
        \/ /\ backup.st = "absent" /\ backup'.st = "live" /\ backup'.uid = backup.uid + 1
           /\ backup'.ref = FALSE
    BY <1>14, NewRecord
  <2>2. UNCHANGED <<cnpg, rc, lost>>
    BY <1>14 DEF MirrorCreate
  <2> QED
    BY <2>1, <2>2
<1>15. CASE UserCreates
  <2>1. \/ backup' = backup
        \/ /\ backup.st = "absent" /\ backup'.st = "live" /\ backup'.uid = backup.uid + 1
           /\ backup'.ref = FALSE
    BY <1>15, NewRecord
  <2>2. UNCHANGED <<cnpg, rc, lost>>
    BY <1>15 DEF UserCreates
  <2> QED
    BY <2>1, <2>2
<1>16. CASE UserDeletes
  BY <1>16 DEF UserDeletes, Policies
<1>17. CASE AdminDeletesJob
  BY <1>17 DEF AdminDeletesJob
<1>18. CASE CnpgStarts
  BY <1>18 DEF CnpgStarts, InProgressPhases
<1>19. CASE CnpgRuns
  BY <1>19 DEF CnpgRuns, InProgressPhases
<1>20. CASE CnpgFinalizes
  BY <1>20 DEF CnpgFinalizes, InProgressPhases
<1>21. CASE CnpgStops
  BY <1>21 DEF CnpgStops, InProgressPhases
<1>22. CASE RetentionExpires
  BY <1>22 DEF RetentionExpires, Fault
<1>23. CASE CatalogMaintenance
  BY <1>23 DEF CatalogMaintenance, InProgressPhases
<1>24. CASE CnpgBackupTerminates
  BY <1>24 DEF CnpgBackupTerminates
<1>25. CASE JobRemovesData
  BY <1>25 DEF JobRemovesData
<1>26. CASE JobSucceeds
  BY <1>26 DEF JobSucceeds
<1>27. CASE JobFails
  BY <1>27 DEF JobFails, Fault
<1>28. CASE JobIsCollected
  BY <1>28 DEF JobIsCollected
<1>29. CASE ForegroundCollects
  BY <1>29 DEF ForegroundCollects
<1>30. CASE WorldBreaks
  BY <1>30 DEF WorldBreaks, Fault
<1>31. CASE WorldRecovers
  BY <1>31 DEF WorldRecovers
<1>32. QED
  BY <1>1, <1>2, <1>3, <1>4, <1>5, <1>6, <1>7, <1>8, <1>9, <1>10, <1>11, <1>12, <1>13,
     <1>14, <1>15, <1>16, <1>17, <1>18, <1>19, <1>20, <1>21, <1>22, <1>23, <1>24, <1>25,
     <1>26, <1>27, <1>28, <1>29, <1>30, <1>31
  DEF Next, Reconcile, SyncBackup, CleanupBackup, Environment

\* The CNPG Backup of an owed base backup is kept until the base backup is gone, or
\* until foreground cascading takes it.
LEMMA OwedStep == IInv /\ OwedInv /\ Next => OwedInv'
<1> SUFFICES ASSUME IInv /\ OwedInv, Next PROVE OwedInv'
  OBVIOUS
<1> USE BoundsAssumption, ValuesTyped, Fields DEF IInv, TypeOK, RunsInv, Settled,
        HandlerInv, JobInv, JobIsCurrent, OwedInv, CleanupPcs, SyncPcs, DeletesData,
        Backups, CnpgBackups, Jobs, Handlers, Runs
<1>1. CASE ReconcileStart
  BY <1>1 DEF ReconcileStart
<1>2. CASE SyncGetCluster
  <2>1. rc'.pc # "delete"
    BY <1>2, SyncGetClusterMoves
  <2>2. UNCHANGED <<backup, cnpg, catalog, owed, cascaded>>
    BY <1>2 DEF SyncGetCluster
  <2> QED
    BY <2>1, <2>2
<1>3. CASE SyncExists
  <2>1. rc'.pc # "delete"
    BY <1>3, SyncExistsMoves
  <2>2. UNCHANGED <<backup, cnpg, catalog, owed, cascaded>>
    BY <1>3 DEF SyncExists
  <2> QED
    BY <2>1, <2>2
<1>4. CASE SyncCreateOrUpdate
  <2>1. /\ rc'.pc = "status" /\ rc'.id = 0
        /\ IF cnpg.st = "absent"
           THEN cnpg'.st = "live" /\ cnpg'.id = 0 /\ cnpg'.run = 0
           ELSE /\ cnpg'.st = cnpg.st /\ cnpg'.id = cnpg.id /\ cnpg'.run = cnpg.run
                /\ cnpg'.phase = cnpg.phase
    BY <1>4, SyncCreateOrUpdateMoves
  <2>2. UNCHANGED <<backup, catalog, owed, cascaded>>
    BY <1>4 DEF SyncCreateOrUpdate
  <2> QED
    BY <2>1, <2>2
<1>5. CASE StatusWrite
  BY <1>5 DEF StatusWrite
<1>6. CASE CleanupGet
  BY <1>6, CleanupGetMoves DEF CleanupGet
<1>7. CASE CleanupOrphan
  BY <1>7 DEF CleanupOrphan, NothingToWaitFor
<1>8. CASE CleanupGetStore
  BY <1>8 DEF CleanupGetStore
<1>9. CASE CleanupJob
  BY <1>9, CleanupJobMoves DEF CleanupJob, buildBackupDeletionJob
<1>10. CASE CleanupDelete
  BY <1>10 DEF CleanupDelete
<1>11. CASE Release
  BY <1>11 DEF Release
<1>12. CASE ReconcileFails
  BY <1>12 DEF ReconcileFails, Fault
<1>13. CASE MirrorRead
  BY <1>13 DEF MirrorRead
<1>14. CASE MirrorCreate
  <2>1. \/ backup' = backup
        \/ /\ backup.st = "absent" /\ backup'.st = "live" /\ backup'.uid = backup.uid + 1
           /\ backup'.ref = FALSE
    BY <1>14, NewRecord
  <2>2. UNCHANGED <<cnpg, rc, catalog, owed, cascaded>>
    BY <1>14 DEF MirrorCreate
  <2> QED
    BY <2>1, <2>2
<1>15. CASE UserCreates
  BY <1>15, NewRecord DEF UserCreates
<1>16. CASE UserDeletes
  BY <1>16 DEF UserDeletes, Policies
<1>17. CASE AdminDeletesJob
  BY <1>17 DEF AdminDeletesJob
<1>18. CASE CnpgStarts
  BY <1>18 DEF CnpgStarts, InProgressPhases
<1>19. CASE CnpgRuns
  BY <1>19 DEF CnpgRuns, InProgressPhases
<1>20. CASE CnpgFinalizes
  BY <1>20 DEF CnpgFinalizes, InProgressPhases
<1>21. CASE CnpgStops
  BY <1>21 DEF CnpgStops, InProgressPhases
<1>22. CASE RetentionExpires
  BY <1>22 DEF RetentionExpires, Fault
<1>23. CASE CatalogMaintenance
  BY <1>23 DEF CatalogMaintenance, InProgressPhases
<1>24. CASE CnpgBackupTerminates
  BY <1>24 DEF CnpgBackupTerminates
<1>25. CASE JobRemovesData
  BY <1>25 DEF JobRemovesData
<1>26. CASE JobSucceeds
  BY <1>26 DEF JobSucceeds
<1>27. CASE JobFails
  BY <1>27 DEF JobFails, Fault
<1>28. CASE JobIsCollected
  BY <1>28 DEF JobIsCollected
<1>29. CASE ForegroundCollects
  BY <1>29 DEF ForegroundCollects
<1>30. CASE WorldBreaks
  BY <1>30 DEF WorldBreaks, Fault
<1>31. CASE WorldRecovers
  BY <1>31 DEF WorldRecovers
<1>32. QED
  BY <1>1, <1>2, <1>3, <1>4, <1>5, <1>6, <1>7, <1>8, <1>9, <1>10, <1>11, <1>12, <1>13,
     <1>14, <1>15, <1>16, <1>17, <1>18, <1>19, <1>20, <1>21, <1>22, <1>23, <1>24, <1>25,
     <1>26, <1>27, <1>28, <1>29, <1>30, <1>31
  DEF Next, Reconcile, SyncBackup, CleanupBackup, Environment

-----------------------------------------------------------------------------
(* The invariants hold in every reachable state.                           *)

\* The initial states satisfy the inductive invariant.
LEMMA InitIInv == Init => IInv /\ OwedInv
<1> SUFFICES ASSUME Init PROVE IInv /\ OwedInv
  OBVIOUS
<1>1. TypeOK
  BY TypeInit
<1>2. /\ rc = Idle /\ job = NoJob /\ backup = NoBackup
      /\ running = 0 /\ runs = 0 /\ catalog = {} /\ owed = {} /\ lost = {} /\ cascaded = {}
  BY DEF Init
<1>3. cnpg.st # "terminating" /\ cnpg.id = 0 /\ cnpg.run = 0
  <2>1. CASE cnpg = NoCnpgBackup
    BY <2>1, Fields
  <2>2. CASE cnpg = [NewCnpgBackup EXCEPT !.scheduled = TRUE]
    BY <2>2, Fields, ValuesTyped DEF CnpgBackups
  <2> QED
    BY <2>1, <2>2 DEF Init
<1>4. RunsInv
  BY <1>2, <1>3, Fields DEF RunsInv
<1>5. HandlerInv
  BY <1>2, <1>3, Fields DEF HandlerInv, CleanupPcs, DataRemovedFirst
<1>6. JobInv
  BY <1>2, Fields DEF JobInv, JobIsCurrent
<1>7. LostInv
  BY <1>2, Fields DEF LostInv
<1> QED
  BY <1>1, <1>2, <1>4, <1>5, <1>6, <1>7 DEF IInv, OwedInv

\* Every step keeps the inductive invariant.
LEMMA StepIInv == IInv /\ [Next]_vars => IInv'
<1>1. IInv /\ Next => IInv'
  BY TypeStep, RunsStep, HandlerStep, JobStep, LostStep DEF IInv
<1>2. IInv /\ UNCHANGED vars => IInv'
  BY DEF IInv, TypeOK, RunsInv, Settled, HandlerInv, JobInv, LostInv, JobIsCurrent,
         DataRemovedFirst, DeletesData, vars
<1> QED
  BY <1>1, <1>2

\* The whole inductive invariant, for citing.
THEOREM Invariance == Spec => []IInv
BY InitIInv, StepIInv, PTL DEF Spec

\* Type correctness of the lifecycle.
THEOREM TypeCorrect == Spec => []TypeOK
<1>1. IInv => TypeOK
  BY DEF IInv
<1> QED
  BY <1>1, Invariance, PTL

\* CleanupBackup never goes on to delete a CNPG Backup it saw with a Barman ID
\* before that base backup is gone, even if users delete in the foreground.
THEOREM DataIsRemovedFirst == Spec => []DataRemovedFirst
<1>1. IInv => DataRemovedFirst
  BY DEF IInv, HandlerInv
<1> QED
  BY <1>1, Invariance, PTL

\* A record that lives or is deleted with policy Retain never has a deletion Job.
THEOREM RetainIsSafe == Spec => []RetainKeepsData
<1>1. IInv => RetainKeepsData
  BY DEF IInv, JobInv, JobIsCurrent, RetainKeepsData
<1> QED
  BY <1>1, Invariance, PTL

\* SyncBackup starts no replacement for a record it reported as unavailable.
THEOREM UnavailableStays == Spec => []UnavailableIsFinal
<1>1. IInv => UnavailableIsFinal
  BY DEF IInv, LostInv, UnavailableIsFinal
<1> QED
  BY <1>1, Invariance, PTL

\* What is owed is never out of sight, for citing.
LEMMA OwedInvariance == Spec => [](IInv /\ OwedInv)
<1>1. IInv /\ OwedInv /\ [Next]_vars => OwedInv'
  <2>1. IInv /\ OwedInv /\ Next => OwedInv'
    BY OwedStep
  <2>2. OwedInv /\ UNCHANGED vars => OwedInv'
    BY DEF OwedInv, DeletesData, vars
  <2> QED
    BY <2>1, <2>2
<1> QED
  BY <1>1, InitIInv, StepIInv, PTL DEF Spec

\* CleanupBackup: a record deleted with policy Delete goes away only after the base
\* backup it had recorded is out of the catalog, unless foreground cascading took
\* the CNPG Backup that names it.
THEOREM DeletionIsHonoured == Spec => []DeletionHonoured
<1>1. OwedInv => DeletionHonoured
  BY DEF OwedInv, DeletionHonoured
<1> QED
  BY <1>1, OwedInvariance, PTL

-----------------------------------------------------------------------------
(* What the documents say of deletion holds but for one thing each.        *)

\* README, "deletionPolicy: Delete removes the Barman base backup": foreground
\* cascading is the only way around it.
THEOREM OnlyCascadingEscapes ==
    Spec /\ [][~ForegroundCollects]_vars => []DeletionAlwaysHonoured
<1>1. Init => cascaded = {}
  BY DEF Init
<1>2. cascaded = {} /\ [Next]_vars /\ [~ForegroundCollects]_vars => (cascaded = {})'
  <2>1. Next /\ ~ForegroundCollects => UNCHANGED cascaded
    BY DEF Next, Reconcile, ReconcileStart, SyncBackup, SyncGetCluster, SyncExists,
       SyncCreateOrUpdate, StatusWrite, CleanupBackup, CleanupGet, CleanupOrphan,
       CleanupGetStore, CleanupJob, buildBackupDeletionJob, CleanupDelete, Release,
       ReconcileFails, Environment, MirrorRead, MirrorCreate, UserCreates, UserDeletes,
       AdminDeletesJob, CnpgStarts, CnpgRuns, CnpgFinalizes, CnpgStops, RetentionExpires,
       CatalogMaintenance, CnpgBackupTerminates, JobRemovesData, JobSucceeds, JobFails,
       JobIsCollected, WorldBreaks, WorldRecovers
  <2>2. UNCHANGED vars => UNCHANGED cascaded
    BY DEF vars
  <2> QED
    BY <2>1, <2>2
<1>3. DeletionHonoured /\ cascaded = {} => DeletionAlwaysHonoured
  BY DEF DeletionHonoured, DeletionAlwaysHonoured
<1> QED
  BY <1>1, <1>2, <1>3, DeletionIsHonoured, PTL DEF Spec

\* A CNPG Backup that is over leaves a base backup only under its Barman ID, and one
\* that has not begun has none.
OverInv ==
    /\ cnpg.phase \in {"new", "started"} => cnpg.run = 0
    /\ cnpg.phase \in {"completed", "failed"} =>
          /\ cnpg.run # 0 /\ cnpg.run # running
          /\ cnpg.id = 0 => cnpg.run \notin catalog

\* What CleanupBackup is about to delete under policy Delete has not begun or is over.
BeforeDeleteInv ==
    rc.pc = "delete" /\ DeletesData /\ cnpg.st # "absent" =>
        \/ cnpg.phase = "new"
        \/ cnpg.phase \in {"completed", "failed"} /\ cnpg.id = rc.id

\* Every step keeps the first, ...
LEMMA OverStep == IInv /\ OverInv /\ Next => OverInv'
<1> SUFFICES ASSUME IInv, OverInv, Next PROVE OverInv'
  OBVIOUS
<1> USE DEF OverInv
<1>1. cnpg \in CnpgBackups /\ catalog \subseteq Runs
  BY DEF IInv, TypeOK
<1>2. CASE UNCHANGED <<cnpg, running>> /\ catalog' \subseteq catalog
  BY <1>2
<1>3. CASE cnpg'.phase = "new" /\ cnpg'.run = 0
  BY <1>3
<1>4. CASE SyncCreateOrUpdate
  <2>1. CASE cnpg.st = "absent"
    <3>1. cnpg' = [NewCnpgBackup EXCEPT !.owner = backup.uid]
      BY <1>4, <2>1 DEF SyncCreateOrUpdate
    <3> QED
      BY <1>3, <3>1 DEF NewCnpgBackup
  <2>2. CASE cnpg.st # "absent"
    <3>1. cnpg'.phase = cnpg.phase /\ cnpg'.run = cnpg.run /\ cnpg'.id = cnpg.id
      BY <1>4, <2>2, SyncCreateOrUpdateMoves DEF IInv
    <3> QED
      BY <1>4, <3>1 DEF SyncCreateOrUpdate
  <2> QED
    BY <2>1, <2>2
<1>5. CASE CleanupDelete
  <2>1. \/ cnpg' = NoCnpgBackup
        \/ cnpg' = cnpg \/ cnpg' = [cnpg EXCEPT !.st = "terminating"]
    BY <1>5 DEF CleanupDelete
  <2>2. NoCnpgBackup.phase = "new" /\ NoCnpgBackup.run = 0
    BY DEF NoCnpgBackup, NewCnpgBackup
  <2>3. /\ [cnpg EXCEPT !.st = "terminating"].phase = cnpg.phase
        /\ [cnpg EXCEPT !.st = "terminating"].run = cnpg.run
        /\ [cnpg EXCEPT !.st = "terminating"].id = cnpg.id
    BY <1>1 DEF CnpgBackups
  <2> QED
    BY <1>3, <1>5, <2>1, <2>2, <2>3 DEF CleanupDelete
<1>6. CASE CnpgStarts \/ CnpgFinalizes
  <2>1. /\ cnpg'.run = cnpg.run /\ cnpg'.phase \in {"started", "finalizing"}
        /\ cnpg'.phase = "started" => cnpg.phase = "new"
    BY <1>1, <1>6 DEF CnpgStarts, CnpgFinalizes, CnpgBackups
  <2> QED
    BY <2>1
<1>7. CASE CnpgRuns
  <2>1. cnpg'.phase = "running"
    BY <1>1, <1>7 DEF CnpgRuns, CnpgBackups
  <2> QED
    BY <2>1
<1>8. CASE CnpgStops
  <2>1. PICK ok, written \in BOOLEAN :
          /\ ok => written
          /\ catalog' = IF written THEN catalog \cup {running} ELSE catalog
          /\ cnpg' = IF cnpg.st # "absent" /\ cnpg.run = running
                     THEN [cnpg EXCEPT !.phase = IF ok THEN "completed" ELSE "failed",
                                       !.id = IF written THEN running ELSE 0]
                     ELSE cnpg
    BY <1>8 DEF CnpgStops
  <2>2. running # 0 /\ running' = 0
    BY <1>8 DEF CnpgStops
  <2>3. CASE cnpg.st # "absent" /\ cnpg.run = running
    <3>1. /\ cnpg'.phase \in {"completed", "failed"} /\ cnpg'.run = running
          /\ cnpg'.id = IF written THEN running ELSE 0
      BY <1>1, <2>1, <2>3 DEF CnpgBackups
    <3>2. running \notin catalog
      BY DEF IInv, RunsInv, Settled
    <3> QED
      BY <2>1, <2>2, <3>1, <3>2
  <2>4. CASE ~(cnpg.st # "absent" /\ cnpg.run = running)
    <3>1. UNCHANGED cnpg
      BY <2>1, <2>4
    <3> QED
      BY <2>1, <2>2, <3>1
  <2> QED
    BY <2>3, <2>4
<1>9. CASE CatalogMaintenance \/ CnpgBackupTerminates \/ ForegroundCollects
  <2>1. cnpg' = NoCnpgBackup
    BY <1>9 DEF CatalogMaintenance, CnpgBackupTerminates, ForegroundCollects
  <2> QED
    BY <1>3, <2>1 DEF NoCnpgBackup, NewCnpgBackup
<1>10. CASE \/ ReconcileStart \/ SyncGetCluster \/ SyncExists \/ StatusWrite \/ CleanupGet
            \/ CleanupOrphan \/ CleanupGetStore \/ CleanupJob \/ Release \/ ReconcileFails
            \/ MirrorRead \/ MirrorCreate \/ UserCreates \/ UserDeletes \/ AdminDeletesJob
            \/ RetentionExpires \/ JobRemovesData
            \/ JobSucceeds \/ JobFails \/ JobIsCollected \/ WorldBreaks \/ WorldRecovers
  BY <1>2, <1>10 DEF ReconcileStart, SyncGetCluster, SyncExists, StatusWrite, CleanupGet,
     CleanupOrphan, CleanupGetStore, CleanupJob, buildBackupDeletionJob, Release,
     ReconcileFails, MirrorRead, MirrorCreate, UserCreates, UserDeletes, AdminDeletesJob,
     RetentionExpires, JobRemovesData, JobSucceeds, JobFails, JobIsCollected, WorldBreaks,
     WorldRecovers
<1> QED
  BY <1>4, <1>5, <1>6, <1>7, <1>8, <1>9, <1>10
     DEF Next, Reconcile, SyncBackup, CleanupBackup, Environment

\* ... and the second, if no CNPG Backup starts while it is about to be deleted.
LEMMA BeforeDeleteStep ==
    IInv /\ OverInv /\ BeforeDeleteInv /\ Next /\ (CnpgStarts => rc.pc # "delete") =>
        BeforeDeleteInv'
<1> SUFFICES ASSUME IInv, OverInv, BeforeDeleteInv, Next, CnpgStarts => rc.pc # "delete",
                    rc'.pc = "delete"
             PROVE  BeforeDeleteInv'
  BY DEF BeforeDeleteInv
<1> USE DEF BeforeDeleteInv, DeletesData
<1>1. cnpg \in CnpgBackups /\ rc \in Handlers
  BY DEF IInv, TypeOK
<1>2. /\ rc.pc # "idle" => backup.st # "absent"
      /\ rc.pc \in CleanupPcs => backup.st = "deleting"
  BY DEF IInv, HandlerInv
<1>3. CASE SyncBackup \/ ReconcileStart \/ StatusWrite \/ CleanupOrphan \/ CleanupGetStore
           \/ CleanupDelete \/ Release \/ ReconcileFails
  <2>1. rc'.pc # "delete"
    BY <1>1, <1>3, SyncGetClusterMoves, SyncExistsMoves, SyncCreateOrUpdateMoves, Fields,
       ValuesTyped
       DEF IInv, SyncBackup, ReconcileStart, StatusWrite, CleanupOrphan, CleanupGetStore,
           CleanupDelete, Release, ReconcileFails, Handlers
  <2> QED
    BY <2>1
<1>4. CASE CleanupGet
  <2>1. UNCHANGED <<backup, cnpg>>
    BY <1>4 DEF CleanupGet
  <2>2. /\ rc'.id = 0 /\ (~DeletesData \/ cnpg.id = 0)
        /\ DeletesData => cnpg.phase \notin InProgressPhases
    BY <1>4, CleanupGetMoves, Fields, ValuesTyped DEF IInv, CleanupGet, Handlers
  <2> QED
    BY <1>1, <2>1, <2>2 DEF CnpgBackups, Phases
<1>5. CASE CleanupJob
  <2>1. rc'.id = rc.id /\ rc.pc = "job" /\ UNCHANGED <<backup, cnpg>>
    BY <1>5, CleanupJobMoves DEF IInv, CleanupJob, buildBackupDeletionJob
  <2>2. cnpg.st # "absent" => cnpg.id = rc.id /\ rc.id # 0
    BY <2>1 DEF IInv, HandlerInv
  <2>3. cnpg.id # 0 => cnpg.phase \notin {"new"} \cup InProgressPhases
    BY DEF IInv, RunsInv
  <2> QED
    BY <1>1, <2>1, <2>2, <2>3 DEF CnpgBackups, Phases
<1>6. CASE Environment
  <2>1. UNCHANGED rc
    BY <1>6 DEF Environment, MirrorRead, MirrorCreate, UserCreates, UserDeletes,
       AdminDeletesJob, CnpgStarts, CnpgRuns, CnpgFinalizes, CnpgStops, RetentionExpires,
       CatalogMaintenance, CnpgBackupTerminates, JobRemovesData, JobSucceeds, JobFails,
       JobIsCollected, ForegroundCollects, WorldBreaks, WorldRecovers
  <2>2. rc.pc = "delete" /\ backup.st = "deleting"
    BY <1>2, <2>1 DEF CleanupPcs
  <2>3. UNCHANGED backup
    BY <1>6, <2>2 DEF Environment, MirrorRead, MirrorCreate, UserCreates, UserDeletes,
       AdminDeletesJob, CnpgStarts, CnpgRuns, CnpgFinalizes, CnpgStops, RetentionExpires,
       CatalogMaintenance, CnpgBackupTerminates, JobRemovesData, JobSucceeds, JobFails,
       JobIsCollected, ForegroundCollects, WorldBreaks, WorldRecovers
  <2>4. cnpg'.st = "absent" \/ cnpg.st = "absent" \/ ~DeletesData \/ UNCHANGED cnpg
    <3>1. ~CnpgStarts
      BY <2>2
    <3>2. CASE CnpgRuns \/ CnpgFinalizes
      BY <2>2, <3>2 DEF CnpgRuns, CnpgFinalizes
    <3>3. CASE CnpgStops
      <4>1. cnpg.phase = "new" \/ cnpg.phase \in {"completed", "failed"} => cnpg.run # running
        BY <3>3 DEF OverInv, CnpgStops
      <4> QED
        BY <2>2, <3>3, <4>1 DEF CnpgStops
    <3>4. CASE CatalogMaintenance \/ CnpgBackupTerminates \/ ForegroundCollects
      BY <3>4, Fields DEF CatalogMaintenance, CnpgBackupTerminates, ForegroundCollects
    <3>5. CASE \/ MirrorRead \/ MirrorCreate \/ UserCreates \/ UserDeletes \/ AdminDeletesJob
               \/ RetentionExpires \/ JobRemovesData \/ JobSucceeds \/ JobFails
               \/ JobIsCollected \/ WorldBreaks \/ WorldRecovers
      BY <3>5 DEF MirrorRead, MirrorCreate, UserCreates, UserDeletes, AdminDeletesJob,
         RetentionExpires, JobRemovesData, JobSucceeds, JobFails, JobIsCollected,
         WorldBreaks, WorldRecovers
    <3> QED
      BY <1>6, <3>1, <3>2, <3>3, <3>4, <3>5 DEF Environment
  <2>5. cnpg.st = "absent" => cnpg'.st = "absent"
    BY <1>6, Fields DEF Environment, MirrorRead, MirrorCreate, UserCreates, UserDeletes,
       AdminDeletesJob, CnpgStarts, CnpgRuns, CnpgFinalizes, CnpgStops, RetentionExpires,
       CatalogMaintenance, CnpgBackupTerminates, JobRemovesData, JobSucceeds, JobFails,
       JobIsCollected, ForegroundCollects, WorldBreaks, WorldRecovers
  <2> QED
    BY <2>1, <2>2, <2>3, <2>4, <2>5
<1> QED
  BY <1>3, <1>4, <1>5, <1>6 DEF Next, Reconcile, CleanupBackup

\* backup_delete.go:43, "nothing is addressable": a CNPG Backup that starts between
\* CleanupBackup's look at it and its deletion is the only one that leaves data behind.
THEOREM OnlyLateStartsLeaveData ==
    Spec /\ [][CnpgStarts => rc.pc # "delete"]_vars => DeleteLeavesNothing
<1>1. Init => OverInv /\ BeforeDeleteInv
  <2> SUFFICES ASSUME Init PROVE OverInv /\ BeforeDeleteInv
    OBVIOUS
  <2>1. cnpg.phase = "new" /\ cnpg.run = 0 /\ rc.pc = "idle"
    BY Fields DEF Init, NoCnpgBackup, NewCnpgBackup
  <2> QED
    BY <2>1 DEF OverInv, BeforeDeleteInv
<1>2. IInv /\ OverInv /\ [Next]_vars => OverInv'
  <2>1. OverInv /\ UNCHANGED vars => OverInv'
    BY DEF OverInv, vars
  <2> QED
    BY <2>1, OverStep
<1>3. IInv /\ OverInv /\ BeforeDeleteInv /\ [Next]_vars /\ [CnpgStarts => rc.pc # "delete"]_vars =>
        BeforeDeleteInv'
  <2>1. BeforeDeleteInv /\ UNCHANGED vars => BeforeDeleteInv'
    BY DEF BeforeDeleteInv, DeletesData, vars
  <2> QED
    BY <2>1, BeforeDeleteStep
<1>4. IInv /\ OverInv /\ BeforeDeleteInv =>
        [CleanupDelete /\ DeletesData /\ cnpg.st = "live" /\ cnpg'.st # "live" =>
           cnpg.run = 0 \/ (cnpg.run # running /\ cnpg.run \notin catalog)]_vars
  <2> SUFFICES ASSUME IInv, OverInv, BeforeDeleteInv, CleanupDelete, DeletesData,
                      cnpg.st = "live"
               PROVE  cnpg.run = 0 \/ (cnpg.run # running /\ cnpg.run \notin catalog)
    OBVIOUS
  <2>1. rc.pc = "delete"
    BY DEF CleanupDelete
  <2>2. CASE cnpg.phase = "new"
    BY <2>2 DEF OverInv
  <2>3. CASE cnpg.phase \in {"completed", "failed"} /\ cnpg.id = rc.id
    <3>1. rc.id # 0 => rc.id \notin catalog /\ cnpg.run = rc.id
      BY <2>1, <2>3 DEF IInv, HandlerInv, DataRemovedFirst, RunsInv
    <3> QED
      BY <2>3, <3>1 DEF OverInv
  <2> QED
    BY <2>1, <2>2, <2>3 DEF BeforeDeleteInv
<1> QED
  BY <1>1, <1>2, <1>3, <1>4, Invariance, PTL DEF Spec, DeleteLeavesNothing
=============================================================================
