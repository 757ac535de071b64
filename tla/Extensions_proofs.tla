---------------------------- MODULE Extensions_proofs ----------------------------
(***************************************************************************)
(* Proofs about Extensions, for every set of toggles and versions, and any *)
(* number of edits and faults.  What a reconcile validated must still hold *)
(* when it writes: the invariant says so for each of its program points.   *)
(***************************************************************************)
EXTENDS Extensions, TLAPS

\* Between the check against the Database and the writes, the snapshot covers
\* everything the Database creates.
SnapshotCovers ==
    rc.pc \in {"cluster", "sync", "apply"} => database.exts \subseteq Created(rc.spec.on)

\* Once the Cluster is applied it carries the snapshot's toggles.
ClusterIsApplied == rc.pc = "extensions" => cluster.exists /\ cluster.on = rc.spec.on

\* CNPG creates nothing that the Database does not list.
InstalledIsListed == installed \subseteq database.exts

DatabaseIsMounted == database.exts \subseteq Created(cluster.on)

\* The snapshot that is about to be applied to an existing Cluster has only
\* creation-only toggles the Cluster was created with.
SnapshotIsBorn ==
    rc.pc \in {"sync", "apply"} /\ cluster.exists => CreationOnly(rc.spec.on) \subseteq born

IInv == TypeOK /\ SnapshotCovers /\ ClusterIsApplied /\ InstalledIsListed /\ DatabaseIsMounted

\* Users list no image of a creation-only toggle by hand.
HandsOff == \A e \in DOMAIN firstClassExtensions : creationOnly(e) => Ext(e).entry \notin Extras

\* For such users.
BornInv == SnapshotIsBorn /\ CreationOnlyEnforced

\* Without a data source, the Cluster was created with the bootstrap SQL of its
\* toggles.
GrantInv ==
    /\ restore = "none"
    /\ ~cluster.exists => cluster.on = {}
    /\ \A e \in born : Ext(e).bootstraps => e \in granted

-----------------------------------------------------------------------------

\* A set of offered toggles creates known extensions only.
LEMMA CreatedTyped == ASSUME NEW on \in SUBSET Offered PROVE Created(on) \in SUBSET SqlNames
BY OfferedAssumption DEF Created, SqlNames

\* The values the actions write are of their types.
LEMMA IdleValues == ASSUME Versions # {} PROVE Blank \in Specs
BY DEF Blank, Specs

Pcs == {"idle", "validate", "database", "cluster", "sync", "apply", "extensions", "status"}
Reconciles == [pc : Pcs, spec : Specs, done : BOOLEAN]
Databases == [exists : BOOLEAN, exts : SUBSET SqlNames, observed : BOOLEAN, applied : BOOLEAN]

\* What a step of the reconciler does to its own record.
LEMMA RcMoves ==
    ASSUME TypeOK, Reconcile \/ ReconcileFails
    PROVE  /\ rc' \in Reconciles
           /\ rc'.pc \in {"idle", "validate"} \/ rc'.spec = rc.spec
<1> USE DEF TypeOK
<1>1. spec \in Specs /\ Versions # {} /\ rc \in Reconciles
  BY DEF Specs, Reconciles, Pcs
<1>2. Idle \in Reconciles /\ Idle.pc = "idle"
  BY <1>1, IdleValues DEF Idle, Reconciles, Pcs
<1>3. CASE ReconcileStart
  BY <1>1, <1>3 DEF ReconcileStart, Reconciles, Pcs
<1>4. CASE ValidateSpec
  BY <1>1, <1>2, <1>4 DEF ValidateSpec, Reconciles, Pcs
<1>5. CASE ValidateDatabase
  BY <1>1, <1>2, <1>5 DEF ValidateDatabase, Reconciles, Pcs
<1>6. CASE ValidateCluster
  BY <1>1, <1>2, <1>6 DEF ValidateCluster, Reconciles, Pcs
<1>7. CASE SyncDataSource
  BY <1>1, <1>7 DEF SyncDataSource, DataSourceDone, Reconciles, Pcs
<1>8. CASE SyncCluster
  BY <1>1, <1>8 DEF SyncCluster, Reconciles, Pcs
<1>9. CASE SyncDatabase
  BY <1>1, <1>9 DEF SyncDatabase, Reconciles, Pcs
<1>10. CASE Status
  BY <1>2, <1>10 DEF Status
<1>11. CASE ReconcileFails
  BY <1>2, <1>11 DEF ReconcileFails
<1> QED
  BY <1>3, <1>4, <1>5, <1>6, <1>7, <1>8, <1>9, <1>10, <1>11 DEF Reconcile, Validate, Sync

\* What SyncDatabase may do to the Database.
LEMMA DatabaseMoves ==
    ASSUME TypeOK, SyncDatabase
    PROVE  /\ database' \in Databases
           /\ \/ database' = database
              \/ /\ database'.exists /\ database'.exts = Created(rc.spec.on)
                 /\ database'.exts # {}
<1>1. Created(rc.spec.on) \in SUBSET SqlNames /\ database \in Databases
  BY CreatedTyped DEF TypeOK, Specs, Databases
<1>2. CASE database' = database
  BY <1>1, <1>2
<1>3. CASE database' # database
  <2>1. /\ database' = [database EXCEPT !.exists = TRUE, !.exts = Created(rc.spec.on),
                                        !.observed = FALSE]
        /\ Created(rc.spec.on) # {}
    BY <1>3 DEF SyncDatabase, BuildsDatabase
  <2> QED
    BY <1>1, <2>1 DEF Databases
<1> QED
  BY <1>2, <1>3

\* What CNPG does to the Database: its status only.
LEMMA CnpgMoves ==
    ASSUME TypeOK, CnpgCreatesExtensions \/ CnpgFailsToCreate
    PROVE  /\ database' \in Databases
           /\ database'.exists = database.exists /\ database'.exts = database.exts
           /\ installed' \subseteq installed \cup database.exts
<1>1. database \in Databases
  BY DEF TypeOK, Databases
<1>2. CASE CnpgCreatesExtensions
  BY <1>1, <1>2 DEF CnpgCreatesExtensions, Databases
<1>3. CASE CnpgFailsToCreate
  BY <1>1, <1>3 DEF CnpgFailsToCreate, Databases
<1> QED
  BY <1>2, <1>3

\* Types hold initially.
LEMMA TypeInit == Init => TypeOK
<1> SUFFICES ASSUME Init PROVE TypeOK
  OBVIOUS
<1>1. Idle \in Reconciles
  BY IdleValues DEF Init, Specs, Idle, Reconciles, Pcs
<1>2. cluster \in [exists : BOOLEAN, on : SUBSET Offered, extra : SUBSET Extras]
  BY DEF Init, NoCluster
<1>3. database \in Databases /\ ~database.exists /\ database.exts = {}
  BY DEF Init, NoDatabase, Databases
<1>4. edits \in 0 .. MaxEdits /\ faults \in 0 .. MaxFaults
  BY LimitsAssumption DEF Init
<1> QED
  BY <1>1, <1>2, <1>3, <1>4 DEF Init, TypeOK, Reconciles, Pcs, Databases

\* Every step keeps the types.
LEMMA TypeStep == TypeOK /\ [Next]_vars => TypeOK'
<1> SUFFICES ASSUME TypeOK, [Next]_vars PROVE TypeOK'
  OBVIOUS
<1>1. CASE ReconcileStart \/ Validate \/ SyncDataSource \/ Status
  <2>1. rc' \in Reconciles
    BY <1>1, RcMoves DEF Reconcile, Sync
  <2>2. faults' \in 0 .. MaxFaults
    BY <1>1, LimitsAssumption DEF TypeOK, ReconcileStart, Validate, ValidateSpec,
       ValidateDatabase, ValidateCluster, SyncDataSource, Status, Fault
  <2> QED
    BY <1>1, <2>1, <2>2 DEF TypeOK, Reconciles, Pcs, ReconcileStart, Validate, ValidateSpec,
       ValidateDatabase, ValidateCluster, SyncDataSource, Status, ExtensionsDone
<1>2. CASE SyncCluster
  <2>1. rc' \in Reconciles
    BY <1>2, RcMoves DEF Reconcile, Sync
  <2>2. rc.spec.on \in SUBSET Offered /\ rc.spec.extra \in SUBSET Extras
    BY DEF TypeOK, Specs
  <2>3. cluster' \in [exists : BOOLEAN, on : SUBSET Offered, extra : SUBSET Extras]
    BY <1>2, <2>2 DEF SyncCluster
  <2>4. born' \in SUBSET Offered /\ granted' \in SUBSET Offered
    BY <1>2, <2>2 DEF SyncCluster, TypeOK
  <2> QED
    BY <1>2, <2>1, <2>3, <2>4 DEF SyncCluster, TypeOK, Reconciles, Pcs
<1>3. CASE SyncDatabase
  <2>1. rc' \in Reconciles
    BY <1>3, RcMoves DEF Reconcile, Sync
  <2> QED
    BY <1>3, <2>1, DatabaseMoves DEF SyncDatabase, TypeOK, Reconciles, Pcs, Databases
<1>4. CASE ReconcileFails
  <2>1. rc' \in Reconciles
    BY <1>4, RcMoves
  <2>2. faults' \in 0 .. MaxFaults
    BY <1>4, LimitsAssumption DEF ReconcileFails, Fault, TypeOK
  <2> QED
    BY <1>4, <2>1, <2>2 DEF ReconcileFails, TypeOK, Reconciles, Pcs
<1>5. CASE UserEdits
  <2>1. edits' \in 0 .. MaxEdits
    BY <1>5, LimitsAssumption DEF UserEdits, Edit, TypeOK
  <2> QED
    BY <1>5, <2>1 DEF UserEdits, TypeOK
<1>6. CASE RestoreCompletes
  BY <1>6 DEF RestoreCompletes, TypeOK
<1>7. CASE CnpgCreatesExtensions \/ CnpgFailsToCreate
  <2>1. database' \in Databases /\ installed' \in SUBSET SqlNames
        /\ (database'.exists <=> database'.exts # {})
    BY <1>7, CnpgMoves DEF TypeOK, Databases
  <2>2. faults' \in 0 .. MaxFaults
    BY <1>7, LimitsAssumption DEF CnpgCreatesExtensions, CnpgFailsToCreate, Fault, TypeOK
  <2> QED
    BY <1>7, <2>1, <2>2 DEF CnpgCreatesExtensions, CnpgFailsToCreate, TypeOK, Databases
<1>8. CASE UNCHANGED vars
  BY <1>8 DEF vars, TypeOK
<1> QED
  BY <1>1, <1>2, <1>3, <1>4, <1>5, <1>6, <1>7, <1>8 DEF Next, Reconcile, Sync

-----------------------------------------------------------------------------

\* ValidateExtensionsNotDisabled does what it is for.
LEMMA NotDisabledCovers ==
    ASSUME TypeOK, ValidateExtensionsNotDisabled(rc.spec)
    PROVE  database.exts \subseteq Created(rc.spec.on)
<1> SUFFICES ASSUME NEW sql \in database.exts PROVE sql \in Created(rc.spec.on)
  OBVIOUS
<1>1. database.exists /\ sql \in SqlNames
  BY DEF TypeOK
<1>2. PICK e \in DOMAIN firstClassExtensions : Ext(e).sql = sql /\ sql # ""
  BY <1>1 DEF SqlNames, Created
<1>3. CASE e \in rc.spec.on
  BY <1>2, <1>3 DEF Created
<1>4. CASE e \notin rc.spec.on
  BY <1>1, <1>2, <1>4 DEF ValidateExtensionsNotDisabled
<1> QED
  BY <1>3, <1>4

\* The invariant holds initially.
LEMMA InitIInv == Init => IInv
<1> SUFFICES ASSUME Init PROVE IInv
  OBVIOUS
<1>1. TypeOK
  BY TypeInit
<1>2. rc.pc = "idle" /\ database.exts = {} /\ installed = {}
  BY DEF Init, Idle, NoDatabase
<1> QED
  BY <1>1, <1>2 DEF IInv, SnapshotCovers, ClusterIsApplied, InstalledIsListed, DatabaseIsMounted

\* Every step keeps the invariant, and the Database's list never shrinks.
LEMMA StepIInv == IInv /\ [Next]_vars => IInv' /\ database.exts \subseteq database'.exts
<1> SUFFICES ASSUME IInv, [Next]_vars PROVE IInv' /\ database.exts \subseteq database'.exts
  OBVIOUS
<1> USE DEF SnapshotCovers, ClusterIsApplied, InstalledIsListed, DatabaseIsMounted
<1>T. TypeOK /\ TypeOK'
  BY TypeStep DEF IInv
<1>1. ASSUME Reconcile \/ ReconcileFails, UNCHANGED <<cluster, database, installed>>,
             rc'.pc \in {"cluster", "sync", "apply"} => database.exts \subseteq Created(rc.spec.on),
             rc'.pc # "extensions"
      PROVE  IInv' /\ database.exts \subseteq database'.exts
  <2>1. rc'.pc \in {"idle", "validate"} \/ rc'.spec = rc.spec
    BY <1>1, <1>T, RcMoves
  <2> QED
    BY <1>1, <1>T, <2>1 DEF IInv
<1>2. CASE ReconcileStart \/ ValidateSpec \/ Status \/ ReconcileFails
  <2>1. rc'.pc \in {"idle", "validate", "database"}
    BY <1>2, <1>T DEF ReconcileStart, ValidateSpec, Status, ReconcileFails, Idle, TypeOK
  <2>2. UNCHANGED <<cluster, database, installed>>
    BY <1>2 DEF ReconcileStart, ValidateSpec, Status, ReconcileFails
  <2> QED
    BY <1>1, <1>2, <2>1, <2>2 DEF Reconcile, Validate
<1>3. CASE ValidateDatabase
  <2>1. rc'.pc = "idle" \/ (rc'.pc = "cluster" /\ ValidateExtensionsNotDisabled(rc.spec))
    BY <1>3, <1>T DEF ValidateDatabase, Idle, TypeOK
  <2>2. UNCHANGED <<cluster, database, installed>>
    BY <1>3 DEF ValidateDatabase
  <2> QED
    BY <1>1, <1>3, <1>T, <2>1, <2>2, NotDisabledCovers DEF Reconcile, Validate
<1>4. CASE ValidateCluster \/ SyncDataSource
  <2>1. rc.pc \in {"cluster", "sync"}
    BY <1>4 DEF ValidateCluster, SyncDataSource
  <2>3. rc'.pc \in {"idle", "sync", "apply"}
    <3>1. CASE ValidateCluster
      BY <3>1, <1>T DEF ValidateCluster, Idle, TypeOK
    <3>2. CASE SyncDataSource
      BY <3>2, <1>T DEF SyncDataSource, TypeOK
    <3> QED
      BY <1>4, <3>1, <3>2
  <2>2. UNCHANGED <<cluster, database, installed>>
    BY <1>4 DEF ValidateCluster, SyncDataSource
  <2> QED
    BY <1>1, <1>4, <2>1, <2>2, <2>3 DEF IInv, Reconcile, Validate, Sync
<1>5. CASE SyncCluster
  <2>1. /\ rc.pc = "apply" /\ rc'.pc = "extensions" /\ rc'.spec = rc.spec
        /\ cluster'.exists /\ cluster'.on = rc.spec.on
        /\ UNCHANGED <<database, installed>>
    BY <1>5, <1>T DEF SyncCluster, TypeOK
  <2> QED
    BY <1>T, <2>1 DEF IInv
<1>6. CASE SyncDatabase
  <2>1. rc.pc = "extensions" /\ rc'.pc = "status" /\ UNCHANGED <<cluster, installed>>
    BY <1>6, <1>T DEF SyncDatabase, TypeOK
  <2>2. database'.exts = database.exts \/ database'.exts = Created(cluster.on)
    BY <1>6, <1>T, <2>1, DatabaseMoves DEF IInv
  <2> QED
    BY <1>T, <2>1, <2>2 DEF IInv
<1>7. CASE UserEdits \/ RestoreCompletes
  <2>1. UNCHANGED <<cluster, database, installed, rc>>
    BY <1>7 DEF UserEdits, RestoreCompletes
  <2> QED
    BY <1>T, <2>1 DEF IInv
<1>8. CASE CnpgCreatesExtensions \/ CnpgFailsToCreate
  <2>1. UNCHANGED <<cluster, rc>>
    BY <1>8 DEF CnpgCreatesExtensions, CnpgFailsToCreate
  <2> QED
    BY <1>8, <1>T, <2>1, CnpgMoves DEF IInv
<1>9. CASE UNCHANGED vars
  BY <1>9, <1>T DEF vars, IInv
<1> QED
  BY <1>2, <1>3, <1>4, <1>5, <1>6, <1>7, <1>8, <1>9 DEF Next, Reconcile, Validate, Sync

-----------------------------------------------------------------------------

\* In the table of toggles, a creation-only one has an image of its own.
LEMMA OwnImage ==
    ASSUME NEW e \in DOMAIN firstClassExtensions, NEW f \in DOMAIN firstClassExtensions,
           creationOnly(e), Ext(f).entry = Ext(e).entry
    PROVE  Ext(e).entry # "" /\ f = e
<1>1. DOMAIN firstClassExtensions =
        {"timescaledb", "timescaledbCommunity", "postgis", "pgrouting", "pgvector",
         "pgivm", "pgaudit", "wal2json", "age"}
  BY DEF firstClassExtensions
<1>2. /\ Ext("timescaledb").entry = "timescaledb-oss"
      /\ Ext("timescaledb").preloads /\ ~Ext("timescaledb").bootstraps
  BY DEF firstClassExtensions, Toggle, Ext
<1>3. /\ Ext("timescaledbCommunity").entry = "timescaledb"
      /\ Ext("timescaledbCommunity").preloads /\ ~Ext("timescaledbCommunity").bootstraps
  BY DEF firstClassExtensions, Toggle, Ext
<1>4. /\ Ext("postgis").entry = "postgis"
      /\ ~Ext("postgis").preloads /\ ~Ext("postgis").bootstraps
  BY DEF firstClassExtensions, Toggle, Ext
<1>5. /\ Ext("pgrouting").entry = "pgrouting"
      /\ ~Ext("pgrouting").preloads /\ ~Ext("pgrouting").bootstraps
  BY DEF firstClassExtensions, Toggle, Ext
<1>6. /\ Ext("pgvector").entry = ""
      /\ ~Ext("pgvector").preloads /\ ~Ext("pgvector").bootstraps
  BY DEF firstClassExtensions, Toggle, Ext
<1>7. /\ Ext("pgivm").entry = "pg-ivm"
      /\ Ext("pgivm").preloads /\ ~Ext("pgivm").bootstraps
  BY DEF firstClassExtensions, Toggle, Ext
<1>8. /\ Ext("pgaudit").entry = ""
      /\ ~Ext("pgaudit").preloads /\ ~Ext("pgaudit").bootstraps
  BY DEF firstClassExtensions, Toggle, Ext
<1>9. /\ Ext("wal2json").entry = "wal2json"
      /\ ~Ext("wal2json").preloads /\ ~Ext("wal2json").bootstraps
  BY DEF firstClassExtensions, Toggle, Ext
<1>10. /\ Ext("age").entry = "age"
      /\ Ext("age").preloads /\ Ext("age").bootstraps
  BY DEF firstClassExtensions, Toggle, Ext
<1> QED
  BY <1>1, <1>2, <1>3, <1>4, <1>5, <1>6, <1>7, <1>8, <1>9, <1>10 DEF creationOnly

\* ValidateExtensionsAtCreation does what it is for if no such image is
\* listed by hand.
LEMMA AtCreationIsBorn ==
    ASSUME TypeOK, HandsOff, CreationOnlyEnforced, cluster.exists,
           ValidateExtensionsAtCreation(rc.spec)
    PROVE  CreationOnly(rc.spec.on) \subseteq born
<1> SUFFICES ASSUME NEW e \in CreationOnly(rc.spec.on) PROVE e \in born
  OBVIOUS
<1>1. e \in DOMAIN firstClassExtensions /\ creationOnly(e)
  BY OfferedAssumption DEF CreationOnly, TypeOK, Specs
<1>2. Ext(e).entry \in Images(cluster)
  BY DEF ValidateExtensionsAtCreation
<1>3. Ext(e).entry \in Entries(cluster.on)
  BY <1>1, <1>2 DEF Images, TypeOK, HandsOff
<1>4. PICK f \in cluster.on : Ext(f).entry = Ext(e).entry
  BY <1>3 DEF Entries
<1>5. f \in DOMAIN firstClassExtensions
  BY OfferedAssumption DEF TypeOK
<1>6. e \in cluster.on
  BY <1>1, <1>4, <1>5, OwnImage
<1> QED
  BY <1>1, <1>6 DEF CreationOnlyEnforced, CreationOnly

\* Every step keeps the creation-only toggles within those at creation.
LEMMA StepBornInv == HandsOff /\ IInv /\ BornInv /\ [Next]_vars => BornInv'
<1> SUFFICES ASSUME HandsOff, IInv, BornInv, [Next]_vars PROVE BornInv'
  OBVIOUS
<1> USE DEF BornInv, SnapshotIsBorn, CreationOnlyEnforced
<1>T. TypeOK
  BY DEF IInv
<1>1. CASE ReconcileStart \/ ValidateSpec \/ ValidateDatabase \/ SyncDatabase \/ Status \/ ReconcileFails
  <2>1. rc'.pc \notin {"sync", "apply"}
    BY <1>1, <1>T DEF ReconcileStart, ValidateSpec, ValidateDatabase, SyncDatabase, Status,
       ReconcileFails, Idle, TypeOK
  <2>2. UNCHANGED <<cluster, born>>
    BY <1>1 DEF ReconcileStart, ValidateSpec, ValidateDatabase, SyncDatabase, Status,
       ReconcileFails
  <2> QED
    BY <2>1, <2>2
<1>2. CASE ValidateCluster
  <2>1. rc'.pc = "idle" \/ (rc'.spec = rc.spec /\ ValidateExtensionsAtCreation(rc.spec))
    BY <1>2, <1>T DEF ValidateCluster, Idle, TypeOK
  <2>2. UNCHANGED <<cluster, born>>
    BY <1>2 DEF ValidateCluster
  <2> QED
    BY <1>T, <2>1, <2>2, AtCreationIsBorn
<1>3. CASE SyncDataSource
  <2>1. rc.pc = "sync" /\ rc'.spec = rc.spec /\ UNCHANGED <<cluster, born>>
    BY <1>3, <1>T DEF SyncDataSource, TypeOK
  <2> QED
    BY <2>1
<1>4. CASE SyncCluster
  <2>1. rc.pc = "apply" /\ rc'.pc = "extensions" /\ cluster'.on = rc.spec.on
    BY <1>4, <1>T DEF SyncCluster, TypeOK
  <2>2. CASE cluster.exists
    BY <1>4, <2>1, <2>2 DEF SyncCluster
  <2>3. CASE ~cluster.exists
    BY <1>4, <2>1, <2>3 DEF SyncCluster, CreationOnly
  <2> QED
    BY <2>2, <2>3
<1>5. CASE UserEdits \/ RestoreCompletes \/ CnpgCreatesExtensions \/ CnpgFailsToCreate
  BY <1>5 DEF UserEdits, RestoreCompletes, CnpgCreatesExtensions, CnpgFailsToCreate
<1>6. CASE UNCHANGED vars
  BY <1>6 DEF vars
<1> QED
  BY <1>1, <1>2, <1>3, <1>4, <1>5, <1>6 DEF Next, Reconcile, Validate, Sync

\* Without a data source, every step keeps the grants complete.
LEMMA StepGrantInv == TypeOK /\ GrantInv /\ [Next]_vars => GrantInv'
<1> SUFFICES ASSUME TypeOK, GrantInv, [Next]_vars PROVE GrantInv'
  OBVIOUS
<1> USE DEF GrantInv
<1>1. CASE SyncCluster
  <2>1. UNCHANGED restore /\ cluster'.exists
    BY <1>1 DEF SyncCluster
  <2>2. CASE cluster.exists
    BY <1>1, <2>1, <2>2 DEF SyncCluster
  <2>3. CASE ~cluster.exists
    <3>1. born' = rc.spec.on /\ granted' = {e \in rc.spec.on : Ext(e).bootstraps}
      BY <1>1, <2>3 DEF SyncCluster
    <3> QED
      BY <2>1, <3>1
  <2> QED
    BY <2>2, <2>3
<1>2. CASE ~SyncCluster
  <2>1. UNCHANGED <<cluster, born, granted>> /\ UNCHANGED restore
    BY <1>2 DEF Next, Reconcile, Validate, Sync, vars, ReconcileStart, ValidateSpec,
       ValidateDatabase,
       ValidateCluster, SyncDataSource, SyncDatabase, Status, ReconcileFails, UserEdits,
       RestoreCompletes, CnpgCreatesExtensions, CnpgFailsToCreate
  <2> QED
    BY <2>1
<1> QED
  BY <1>1, <1>2

-----------------------------------------------------------------------------
(* Readiness, and the comparison of versions.                              *)

\* A Database whose status is current and good has its extensions.
AppliedIsInstalled == database.observed /\ database.applied => database.exts \subseteq installed

\* Past SyncDatabase, a reconcile that may create extensions has listed its own.
DatabaseIsSynced == rc.pc = "status" /\ rc.done => Created(rc.spec.on) \subseteq database.exts

ReadyInv == AppliedIsInstalled /\ DatabaseIsSynced

\* Every step keeps both: only SyncDatabase changes the list, and it takes the
\* status for outdated then.
LEMMA StepReadyInv == TypeOK /\ ReadyInv /\ [Next]_vars => ReadyInv'
<1> SUFFICES ASSUME TypeOK, ReadyInv, [Next]_vars PROVE ReadyInv'
  OBVIOUS
<1> USE DEF ReadyInv, AppliedIsInstalled, DatabaseIsSynced
<1>1. rc \in Reconciles /\ database \in Databases
  BY DEF TypeOK, Reconciles, Pcs, Databases
<1>2. CASE UNCHANGED <<database, installed>> /\ (UNCHANGED rc \/ rc'.pc # "status")
  BY <1>2
<1>3. CASE ReconcileStart \/ Validate \/ SyncDataSource \/ SyncCluster \/ Status \/ ReconcileFails
  <2>1. UNCHANGED <<database, installed>>
    BY <1>3 DEF ReconcileStart, Validate, ValidateSpec, ValidateDatabase, ValidateCluster,
       SyncDataSource, SyncCluster, Status, ReconcileFails
  <2>2. rc'.pc # "status"
    <3>1. Idle.pc = "idle"
      BY DEF Idle
    <3>2. CASE rc' = Idle
      BY <3>1, <3>2
    <3>3. CASE SyncDataSource
      <4>1. rc' = [rc EXCEPT !.pc = "apply", !.done = DataSourceDone]
        BY <3>3 DEF SyncDataSource
      <4> QED
        BY <1>1, <4>1 DEF Reconciles
    <3>4. CASE rc' \in {[rc EXCEPT !.pc = pc] : pc \in {"database", "cluster", "sync", "extensions"}}
      BY <1>1, <3>4 DEF Reconciles
    <3>5. CASE ReconcileStart
      BY <3>5 DEF ReconcileStart
    <3> QED
      BY <1>3, <3>2, <3>3, <3>4, <3>5 DEF Validate, ValidateSpec, ValidateDatabase,
         ValidateCluster, SyncCluster, Status, ReconcileFails
  <2> QED
    BY <1>2, <2>1, <2>2
<1>4. CASE SyncDatabase
  <2> DEFINE exts == Created(rc.spec.on)
  <2>1. rc'.spec = rc.spec /\ rc'.done = rc.done /\ UNCHANGED installed
    BY <1>1, <1>4 DEF SyncDatabase, Reconciles
  <2>2. CASE database' = [database EXCEPT !.exists = TRUE, !.exts = exts, !.observed = FALSE]
    <3>1. database'.exts = exts /\ ~database'.observed
      BY <1>1, <2>2 DEF Databases
    <3> QED
      BY <2>1, <3>1
  <2>3. CASE database' = database /\ (~rc.done \/ exts = {} \/ database.exts = exts)
    BY <2>1, <2>3
  <2> QED
    BY <1>4, <2>2, <2>3 DEF SyncDatabase, BuildsDatabase
<1>5. CASE CnpgCreatesExtensions \/ CnpgFailsToCreate
  <2>1. database'.exts = database.exts /\ UNCHANGED rc
    BY <1>5, CnpgMoves DEF CnpgCreatesExtensions, CnpgFailsToCreate
  <2>2. \/ installed' = installed \cup database.exts
        \/ ~database'.applied
    BY <1>1, <1>5 DEF CnpgCreatesExtensions, CnpgFailsToCreate, Databases
  <2> QED
    BY <2>1, <2>2
<1>6. CASE UserEdits \/ RestoreCompletes \/ UNCHANGED vars
  BY <1>2, <1>6 DEF UserEdits, RestoreCompletes, vars
<1> QED
  BY <1>3, <1>4, <1>5, <1>6 DEF Next, Reconcile, Sync

\* A minimum has two components (firstClassExtensions): whatever the length of the
\* version, its major and minor decide, a missing minor counting as 0, and what
\* follows them never matters.
THEOREM MajorMinorDecide ==
    ASSUME NEW v \in Seq(Nat), NEW major \in Nat, NEW minor \in Nat
    PROVE  versionAtLeast(v, <<major, minor>>) <=>
             \/ Component(v, 1) > major
             \/ Component(v, 1) = major /\ Component(v, 2) >= minor
<1> DEFINE min == <<major, minor>>
<1>1. /\ DOMAIN min = {1, 2} /\ Component(min, 1) = major /\ Component(min, 2) = minor
      /\ \A i \in Nat \ {1, 2} : Component(min, i) = 0
  BY DEF Component
<1> HIDE DEF min
<1>2. /\ DOMAIN v \subseteq Nat \ {0}
      /\ \A i \in Nat : Component(v, i) \in Nat
  BY DEF Component
<1>3. ASSUME versionAtLeast(v, min)
      PROVE  Component(v, 1) > major \/ (Component(v, 1) = major /\ Component(v, 2) >= minor)
  <2>1. 1 \in DOMAIN v \cup DOMAIN min /\ 2 \in DOMAIN v \cup DOMAIN min
    BY <1>1
  <2>2. Component(v, 1) >= major
    <3>1. Component(v, 1) >= Component(min, 1)
      BY <1>3, <2>1 DEF versionAtLeast
    <3> QED
      BY <1>1, <3>1
  <2>3. Component(v, 2) >= minor \/ Component(v, 1) > major
    <3>1. \/ Component(v, 2) >= Component(min, 2)
          \/ \E j \in 1 .. 2 - 1 : Component(v, j) > Component(min, j)
      BY <1>3, <2>1 DEF versionAtLeast
    <3>2. 1 .. 2 - 1 = {1}
      OBVIOUS
    <3> QED
      BY <1>1, <3>1, <3>2
  <2> QED
    BY <1>2, <2>2, <2>3
<1>4. ASSUME Component(v, 1) > major \/ (Component(v, 1) = major /\ Component(v, 2) >= minor),
             NEW i \in DOMAIN v \cup DOMAIN min
      PROVE  \/ Component(v, i) >= Component(min, i)
             \/ \E j \in 1 .. i - 1 : Component(v, j) > Component(min, j)
  <2>1. i \in Nat \ {0}
    <3>1. CASE i \in DOMAIN v
      BY <1>2, <3>1
    <3>2. CASE i \in DOMAIN min
      <4>1. i = 1 \/ i = 2
        BY <1>1, <3>2
      <4> QED
        BY <4>1
    <3> QED
      BY <1>4, <3>1, <3>2
  <2>2. CASE i = 1
    <3>1. Component(v, 1) \in Nat /\ Component(v, 1) >= major
      BY <1>2, <1>4
    <3>2. Component(v, i) = Component(v, 1) /\ Component(min, i) = major
      BY <1>1, <2>2
    <3> QED
      BY <3>1, <3>2
  <2>3. CASE i = 2
    <3>1. 1 \in 1 .. i - 1
      BY <2>3
    <3> QED
      BY <1>1, <1>2, <1>4, <2>3, <3>1
  <2>4. CASE i \in Nat \ {1, 2}
    BY <1>1, <1>2, <2>4
  <2> QED
    BY <2>1, <2>2, <2>3, <2>4
<1>5. versionAtLeast(v, min) <=>
        Component(v, 1) > major \/ (Component(v, 1) = major /\ Component(v, 2) >= minor)
  BY <1>3, <1>4 DEF versionAtLeast
<1> QED
  BY <1>5 DEF min

-----------------------------------------------------------------------------

\* The inductive invariant holds in every reachable state.
THEOREM Invariance == Spec => []IInv
<1>1. IInv /\ [Next]_vars => IInv'
  BY StepIInv
<1> QED
  BY <1>1, InitIInv, PTL DEF Spec

\* Type correctness of the extension toggles.
THEOREM TypeCorrect == Spec => []TypeOK
<1>1. IInv => TypeOK
  BY DEF IInv
<1> QED
  BY <1>1, Invariance, PTL

\* An extension created in the database keeps a toggle, and so its image, in the
\* Cluster, whatever users store.
THEOREM CreatedStaysMounted == Spec => []CreatedIsMounted
<1>1. IInv => CreatedIsMounted
  BY DEF IInv, InstalledIsListed, DatabaseIsMounted, CreatedIsMounted
<1> QED
  BY <1>1, Invariance, PTL

\* No step takes an extension off the Database's list.
THEOREM CreatedIsNeverDropped == Spec => NeverDropped
<1>1. IInv /\ [Next]_vars => [database.exts \subseteq database'.exts]_vars
  BY StepIInv
<1>2. Spec => [][database.exts \subseteq database'.exts]_vars
  BY <1>1, Invariance, PTL DEF Spec
<1> QED
  BY <1>2 DEF NeverDropped

\* Creation-only toggles are enforced, provided users list no image of one by hand.
THEOREM CreationOnlyIsEnforced == ASSUME HandsOff PROVE Spec => []CreationOnlyEnforced
<1>1. Init => BornInv
  BY DEF Init, BornInv, SnapshotIsBorn, CreationOnlyEnforced, NoCluster, Idle
<1>2. IInv /\ BornInv /\ [Next]_vars => BornInv'
  BY StepBornInv
<1>3. BornInv => CreationOnlyEnforced
  BY DEF BornInv
<1> QED
  BY <1>1, <1>2, <1>3, Invariance, PTL DEF Spec

\* ExtensionsStatus: a reconcile that stores Ready has seen the extensions its spec
\* enables created, however old the status of the Database is that it read.
THEOREM ReadyIsInstalled == Spec => ReadyMeansInstalled
<1> DEFINE Says == rc.pc = "status" /\ rc'.pc = "idle" /\ ready' /\ faults' = faults
                    => Created(rc.spec.on) \subseteq installed
<1>1. Init => ReadyInv
  BY DEF Init, ReadyInv, AppliedIsInstalled, DatabaseIsSynced, NoDatabase, Idle
<1>2. TypeOK /\ ReadyInv /\ [Next]_vars => [Says]_vars
  <2> SUFFICES ASSUME TypeOK, ReadyInv, Next,
                      rc.pc = "status", rc'.pc = "idle", ready', faults' = faults
               PROVE  Created(rc.spec.on) \subseteq installed
    OBVIOUS
  <2>1. ~ReconcileFails
    <3>1. faults \in Nat
      BY LimitsAssumption DEF TypeOK
    <3>2. faults + 1 # faults
      BY <3>1
    <3> QED
      BY <3>2 DEF ReconcileFails, Fault
  <2>2. Status
    BY <2>1 DEF Next, Reconcile, ReconcileStart, Validate, ValidateSpec, ValidateDatabase,
       ValidateCluster, Sync, SyncDataSource, SyncCluster, SyncDatabase, UserEdits,
       RestoreCompletes, CnpgCreatesExtensions, CnpgFailsToCreate
  <2>3. rc.done /\ ExtensionsDone(rc.spec.on)
    BY <2>2 DEF Status
  <2> QED
    BY <2>3 DEF ReadyInv, AppliedIsInstalled, DatabaseIsSynced, ExtensionsDone
<1>3. Spec => []ReadyInv
  BY <1>1, StepReadyInv, TypeCorrect, PTL DEF Spec
<1>4. Spec => [][Says]_vars
  BY <1>2, <1>3, TypeCorrect, PTL DEF Spec
<1> QED
  BY <1>4 DEF ReadyMeansInstalled

\* AGE's bootstrap SQL has run wherever this provider creates AGE, provided no
\* Instance has a data source and users do not list the image by hand.
THEOREM BootstrapSqlHasRun ==
    ASSUME HandsOff, Restores \subseteq {FALSE} PROVE Spec => []BootstrapSqlRan
<1>1. Init => GrantInv
  <2> SUFFICES ASSUME Init PROVE GrantInv
    OBVIOUS
  <2>1. PICK r \in Restores : restore = IF r THEN "running" ELSE "none"
    BY DEF Init
  <2>2. restore = "none"
    BY <2>1
  <2>3. cluster.on = {} /\ born = {}
    BY DEF Init, NoCluster
  <2> QED
    BY <2>2, <2>3 DEF GrantInv
<1>2. Spec => []GrantInv
  BY <1>1, StepGrantInv, TypeCorrect, PTL DEF Spec
<1>3. IInv /\ GrantInv /\ CreationOnlyEnforced => BootstrapSqlRan
  <2> SUFFICES ASSUME IInv, GrantInv, CreationOnlyEnforced, NEW e \in cluster.on, Ext(e).bootstraps
               PROVE  e \in granted
    BY DEF BootstrapSqlRan
  <2>1. cluster.exists /\ e \in CreationOnly(cluster.on)
    BY DEF GrantInv, CreationOnly, creationOnly
  <2> QED
    BY <2>1 DEF CreationOnlyEnforced, GrantInv
<1> QED
  BY <1>2, <1>3, Invariance, CreationOnlyIsEnforced, PTL
=============================================================================
