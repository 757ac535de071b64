------------------------------ MODULE Extensions ------------------------------
(***************************************************************************)
(* The PostgreSQL extension toggles of one Instance: what Validate admits, *)
(* what Sync puts into the CNPG Cluster (image volumes) and into the CNPG  *)
(* Database (CREATE EXTENSION), and when Status calls the Instance ready.  *)
(*                                                                         *)
(* Translated from internal/cnpg/extensions.go and the order in which      *)
(* Provider.Validate, Sync and Status call it.  The runtime validates the  *)
(* snapshot of the Instance it is about to sync; users edit at any time,   *)
(* and what Validate read may be different when Sync writes.               *)
(***************************************************************************)
EXTENDS Integers, FiniteSets, Sequences

CONSTANTS
    Offered,      \* the toggles users touch
    Extras,       \* image names users may list in parameters.postgresql
    Versions,     \* PostgreSQL versions: sequences of their numbers
    Restores,     \* may the Instance have a data source? a set of BOOLEANs
    MaxEdits,     \* bound: edits of the Instance by users
    MaxFaults     \* bound: failed reconciles and failed installations

-----------------------------------------------------------------------------
(* firstClassExtensions.  Entry "" : shipped with the standard images; sql  *)
(* "" : no CREATE EXTENSION by this provider; min <<0, 0>> : any minor.     *)

Toggle(entry, sql, preloads, bootstraps, requires, conflicts, min) ==
    [entry |-> entry, sql |-> sql, preloads |-> preloads, bootstraps |-> bootstraps,
     requires |-> requires, conflicts |-> conflicts, min |-> min]

firstClassExtensions ==
    [timescaledb |->
        Toggle("timescaledb-oss", "timescaledb", TRUE, FALSE, {}, {"timescaledbCommunity"}, <<0, 0>>),
     timescaledbCommunity |->
        Toggle("timescaledb", "timescaledb", TRUE, FALSE, {}, {"timescaledb"}, <<18, 6>>),
     postgis   |-> Toggle("postgis", "postgis", FALSE, FALSE, {}, {}, <<0, 0>>),
     pgrouting |-> Toggle("pgrouting", "pgrouting", FALSE, FALSE, {"postgis"}, {}, <<0, 0>>),
     pgvector  |-> Toggle("", "vector", FALSE, FALSE, {}, {}, <<0, 0>>),
     pgivm     |-> Toggle("pg-ivm", "pg_ivm", TRUE, FALSE, {}, {}, <<0, 0>>),
     pgaudit   |-> Toggle("", "", FALSE, FALSE, {}, {}, <<0, 0>>),
     wal2json  |-> Toggle("wal2json", "", FALSE, FALSE, {}, {}, <<0, 0>>),
     age       |-> Toggle("age", "age", TRUE, TRUE, {}, {}, <<0, 0>>)]

Ext(e) == firstClassExtensions[e]

ASSUME OfferedAssumption == Offered \subseteq DOMAIN firstClassExtensions
ASSUME VersionsAssumption == \A v \in Versions : v \in Seq(Nat) /\ v # <<>>
ASSUME RestoresAssumption == Restores \subseteq BOOLEAN
ASSUME LimitsAssumption == MaxEdits \in Nat /\ MaxFaults \in Nat

\* Bootstrap SQL runs only at initdb, and an image and a preload library are
\* not to be rolled out together.
creationOnly(e) == Ext(e).bootstraps \/ (Ext(e).entry # "" /\ Ext(e).preloads)

CreationOnly(on) == {e \in on : creationOnly(e)}
Entries(on) == {Ext(e).entry : e \in on} \ {""}
\* createdExtensions, by their names in SQL.
Created(on) == {Ext(e).sql : e \in on} \ {""}

\* A number that is missing, or that is none, counts as 0.
Component(v, i) == IF i \in DOMAIN v THEN v[i] ELSE 0

\* The first component that differs decides.
versionAtLeast(v, min) ==
    \A i \in DOMAIN v \cup DOMAIN min :
        \/ Component(v, i) >= Component(min, i)
        \/ \E j \in 1 .. i - 1 : Component(v, j) > Component(min, j)

-----------------------------------------------------------------------------

VARIABLES
    spec,       \* the Instance: enabled toggles, extra images, version
    cluster,    \* the CNPG Cluster
    database,   \* the CNPG Database <instance>-extensions and its status
    installed,  \* what CREATE EXTENSION has created for the Database
    restore,    \* the data source: none, running or done
    rc,         \* the reconcile in progress, with the snapshot it was given
    ready,      \* does the stored status say Ready?
    born,       \* history: the toggles the Cluster was created with
    granted,    \* history: the toggles whose bootstrap SQL ran
    edits,      \* edits so far
    faults      \* disturbances so far

vars == <<spec, cluster, database, installed, restore, rc, ready, born, granted, edits, faults>>

Specs == [on : SUBSET Offered, extra : SUBSET Extras, version : Versions]

\* No toggle, no image: the snapshot of an idle reconciler.
Blank == [on |-> {}, extra |-> {}, version |-> CHOOSE v \in Versions : TRUE]
NoCluster == [exists |-> FALSE, on |-> {}, extra |-> {}]
NoDatabase == [exists |-> FALSE, exts |-> {}, observed |-> FALSE, applied |-> FALSE]
Idle == [pc |-> "idle", spec |-> Blank, done |-> FALSE]

\* spec.postgresql.extensions of the Cluster: the user's and the toggles'.
Images(c) == c.extra \cup Entries(c.on)

Edit == edits < MaxEdits /\ edits' = edits + 1
Fault == faults < MaxFaults /\ faults' = faults + 1

Init ==
    /\ spec \in Specs
    /\ cluster = NoCluster /\ database = NoDatabase /\ installed = {}
    /\ restore \in {IF r THEN "running" ELSE "none" : r \in Restores}
    /\ rc = Idle /\ ready = FALSE
    /\ born = {} /\ granted = {}
    /\ edits = 0 /\ faults = 0

-----------------------------------------------------------------------------
(* Validate.                                                               *)

ReconcileStart ==
    /\ rc.pc = "idle"
    /\ rc' = [pc |-> "validate", spec |-> spec, done |-> FALSE]
    /\ UNCHANGED <<spec, cluster, database, installed, restore, ready, born, granted, edits, faults>>

\* Images need PostgreSQL 18 and perhaps a minor; no missing or conflicting toggle.
ValidateExtensions(s) ==
    \A e \in s.on :
        /\ Ext(e).entry # "" => s.version[1] = 18
        /\ versionAtLeast(s.version, Ext(e).min)
        /\ Ext(e).requires \subseteq s.on
        /\ Ext(e).conflicts \cap s.on = {}

\* Seeded error: an absent Database is the only thing looked at.
NotDisabled_Lenient(s) == TRUE
\* Nothing the Database creates may be missing: another toggle that creates the
\* same extension counts.
ValidateExtensionsNotDisabled(s) ==
    database.exists =>
        \A e \in DOMAIN firstClassExtensions \ s.on :
            Ext(e).sql \in database.exts => Ext(e).sql \in Created(s.on)

\* Seeded error: a toggle is compared with the Database, not with the Cluster.
AtCreation_ByDatabase(s) ==
    database.exists => \A e \in CreationOnly(s.on) : Ext(e).sql \in database.exts
\* The Cluster must mount the image of every creation-only toggle already.
ValidateExtensionsAtCreation(s) ==
    cluster.exists => \A e \in CreationOnly(s.on) : Ext(e).entry \in Images(cluster)

ValidateSpec ==
    /\ rc.pc = "validate"
    /\ rc' = IF ValidateExtensions(rc.spec) THEN [rc EXCEPT !.pc = "database"] ELSE Idle
    /\ UNCHANGED <<spec, cluster, database, installed, restore, ready, born, granted, edits, faults>>

ValidateDatabase ==
    /\ rc.pc = "database"
    /\ rc' = IF ValidateExtensionsNotDisabled(rc.spec) THEN [rc EXCEPT !.pc = "cluster"] ELSE Idle
    /\ UNCHANGED <<spec, cluster, database, installed, restore, ready, born, granted, edits, faults>>

ValidateCluster ==
    /\ rc.pc = "cluster"
    /\ rc' = IF ValidateExtensionsAtCreation(rc.spec) THEN [rc EXCEPT !.pc = "sync"] ELSE Idle
    /\ UNCHANGED <<spec, cluster, database, installed, restore, ready, born, granted, edits, faults>>

-----------------------------------------------------------------------------
(* Sync and Status.                                                        *)

\* Seeded error: only an Instance without a data source counts as done.
DataSourceDone_None == restore = "none"
DataSourceDone == restore # "running"

\* ReconcileDataSource comes first.
SyncDataSource ==
    /\ rc.pc = "sync"
    /\ rc' = [rc EXCEPT !.pc = "apply", !.done = DataSourceDone]
    /\ UNCHANGED <<spec, cluster, database, installed, restore, ready, born, granted, edits, faults>>

\* Apply the Cluster.  Bootstrap SQL is part of initdb, which runs when the
\* Cluster is created; bootstrapped by recovery, it has what its source had.
SyncCluster ==
    /\ rc.pc = "apply"
    /\ cluster' = [exists |-> TRUE, on |-> rc.spec.on, extra |-> rc.spec.extra]
    /\ IF cluster.exists THEN UNCHANGED <<born, granted>>
       ELSE /\ born' = rc.spec.on
            /\ granted' \in IF restore = "none" THEN {{e \in rc.spec.on : Ext(e).bootstraps}}
                           ELSE SUBSET {e \in Offered : Ext(e).bootstraps}
    /\ rc' = [rc EXCEPT !.pc = "extensions"]
    /\ UNCHANGED <<spec, database, installed, restore, ready, edits, faults>>

\* Seeded error: the Database is built even if it creates nothing.
BuildsDatabase_Always(on) == TRUE
BuildsDatabase(on) == Created(on) # {}

\* SyncExtensionsDatabase: the application database exists only once a restore
\* is done; without anything to create, the Database is left alone.
SyncDatabase ==
    /\ rc.pc = "extensions"
    /\ LET exts == Created(rc.spec.on)
       IN  database' = IF rc.done /\ BuildsDatabase(rc.spec.on) /\ ~(database.exists /\ database.exts = exts)
                       THEN [database EXCEPT !.exists = TRUE, !.exts = exts, !.observed = FALSE]
                       ELSE database
    /\ rc' = [rc EXCEPT !.pc = "status"]
    /\ UNCHANGED <<spec, cluster, installed, restore, ready, born, granted, edits, faults>>

\* Seeded error: a status that belongs to an earlier Database spec is believed.
ExtensionsDone_Stale(on) == Created(on) = {} \/ (database.exists /\ database.applied)
\* ExtensionsStatus does not block.
ExtensionsDone(on) ==
    Created(on) = {} \/ (database.exists /\ database.observed /\ database.applied)

\* Restoring as long as the data source is not done; else what the extensions
\* say (the other conditions for Ready are not about extensions).  A Cluster or a
\* Database that cannot be read is waited for.
Status ==
    /\ rc.pc = "status"
    /\ \/ ready' = (rc.done /\ ExtensionsDone(rc.spec.on)) /\ UNCHANGED faults
       \/ rc.done /\ ready' = FALSE /\ Fault
    /\ rc' = Idle
    /\ UNCHANGED <<spec, cluster, database, installed, restore, born, granted, edits>>

\* Any API call fails, or the process restarts.
ReconcileFails ==
    /\ rc.pc # "idle" /\ Fault
    /\ rc' = Idle
    /\ UNCHANGED <<spec, cluster, database, installed, restore, ready, born, granted, edits>>

-----------------------------------------------------------------------------
(* Users and CNPG.                                                         *)

UserEdits ==
    /\ Edit
    /\ \E s \in Specs \ {spec} : spec' = s
    /\ UNCHANGED <<cluster, database, installed, restore, rc, ready, born, granted, faults>>

RestoreCompletes ==
    /\ restore = "running" /\ cluster.exists
    /\ restore' = "done"
    /\ UNCHANGED <<spec, cluster, database, installed, rc, ready, born, granted, edits, faults>>

\* Some image in the Cluster, or none needed, provides the extension.
Available(sql) ==
    \E e \in DOMAIN firstClassExtensions :
        Ext(e).sql = sql /\ (Ext(e).entry = "" \/ Ext(e).entry \in Images(cluster))

CnpgCreatesExtensions ==
    /\ database.exists /\ ~(database.observed /\ database.applied)
    /\ \A sql \in database.exts : Available(sql)
    /\ installed' = installed \cup database.exts
    /\ database' = [database EXCEPT !.observed = TRUE, !.applied = TRUE]
    /\ UNCHANGED <<spec, cluster, restore, rc, ready, born, granted, edits, faults>>

CnpgFailsToCreate ==
    /\ database.exists /\ ~(database.observed /\ database.applied)
    /\ Fault
    /\ \E some \in SUBSET database.exts : installed' = installed \cup some
    /\ database' = [database EXCEPT !.observed = TRUE, !.applied = FALSE]
    /\ UNCHANGED <<spec, cluster, restore, rc, ready, born, granted, edits>>

-----------------------------------------------------------------------------

Validate == ValidateSpec \/ ValidateDatabase \/ ValidateCluster
Sync == SyncDataSource \/ SyncCluster \/ SyncDatabase
Reconcile == ReconcileStart \/ Validate \/ Sync \/ Status

Next ==
    \/ Reconcile \/ ReconcileFails
    \/ UserEdits \/ RestoreCompletes \/ CnpgCreatesExtensions \/ CnpgFailsToCreate

Spec == Init /\ [][Next]_vars

(* The Instance is reconciled again and again (watches on Cluster and      *)
(* Database, error backoff, resync), CNPG restores and creates extensions. *)
Fairness == WF_vars(Reconcile) /\ WF_vars(RestoreCompletes) /\ WF_vars(CnpgCreatesExtensions)

FairSpec == Spec /\ Fairness

-----------------------------------------------------------------------------
(* Properties.                                                             *)

SqlNames == Created(DOMAIN firstClassExtensions)

TypeOK ==
    /\ spec \in Specs
    /\ cluster \in [exists : BOOLEAN, on : SUBSET Offered, extra : SUBSET Extras]
    /\ database \in [exists : BOOLEAN, exts : SUBSET SqlNames, observed : BOOLEAN, applied : BOOLEAN]
    /\ installed \in SUBSET SqlNames
    /\ restore \in {"none", "running", "done"}
    /\ rc \in [pc : {"idle", "validate", "database", "cluster", "sync", "apply",
                     "extensions", "status"},
               spec : Specs, done : BOOLEAN]
    /\ ready \in BOOLEAN /\ born \in SUBSET Offered /\ granted \in SUBSET Offered
    /\ edits \in 0 .. MaxEdits /\ faults \in 0 .. MaxFaults
    /\ database.exists <=> database.exts # {}

\* README:103: an extension created in the database cannot be disabled.  Whatever
\* users store and however a reconcile is cut short, what the Database creates
\* stays in its list, ...
NeverDropped == [][database.exts \subseteq database'.exts]_vars

\* ... and the Cluster keeps a toggle for it, so its image stays mounted
\* (ValidateExtensionsNotDisabled runs before SyncCluster and SyncDatabase).
CreatedIsMounted == installed \cup database.exts \subseteq Created(cluster.on)

\* extensions.go:336: a creation-only toggle takes effect only on a Cluster that
\* was created with it; in particular the TimescaleDB edition never changes.
CreationOnlyEnforced == cluster.exists => CreationOnly(cluster.on) \subseteq born

\* README footnote 2: an Instance on which this provider creates Apache AGE has
\* the default privileges its bootstrap SQL grants.
BootstrapSqlRan ==
    \A e \in cluster.on : Ext(e).bootstraps /\ Ext(e).sql \in database.exts => e \in granted

\* ExtensionsStatus gates readiness: a reconcile that says Ready has seen every
\* extension its spec enables created, never a status of an earlier spec.
ReadyMeansInstalled ==
    [][rc.pc = "status" /\ rc'.pc = "idle" /\ ready' /\ faults' = faults
         => Created(rc.spec.on) \subseteq installed]_vars

\* A spec Validate accepts in the state at hand.
Acceptable ==
    /\ ValidateExtensions(spec)
    /\ ValidateExtensionsNotDisabled(spec)
    /\ ValidateExtensionsAtCreation(spec)

\* Once the spec is acceptable and stays so, its extensions get created and the
\* Instance is Ready for good, through failures and a restore.
AcceptedIsInstalled ==
    <>[]Acceptable => <>[](ready /\ Created(spec.on) \subseteq installed)
=============================================================================
