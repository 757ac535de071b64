--------------------------- MODULE SharedObjectStore ---------------------------
(***************************************************************************)
(* The ObjectStore that every Instance of a namespace shares for one       *)
(* BackupStorage, and the retention policy in it that Barman applies to    *)
(* all of them.  SyncBackupInfrastructure writes it, after                 *)
(* checkSharedRetention has compared the Instance with its peers.          *)
(*                                                                         *)
(* Translated from internal/cnpg/barman/backup.go and the order of steps   *)
(* in Provider.Sync.  The backup class allows one storage per Instance, so *)
(* one ObjectStore is enough.  The Instance controller has one worker:     *)
(* syncs of different Instances do not overlap, but users edit and delete  *)
(* Instances, and the garbage collector works, between any two API calls.  *)
(***************************************************************************)
EXTENDS Integers

CONSTANTS
    Instances,    \* Instances of this provider in the namespace
    Retentions,   \* recovery windows, "keep all" included
    Invalid,      \* a policy storageRetentionPolicy rejects
    Nobody,       \* the owner of an ObjectStore whose owner is gone
    MaxEdits,     \* bound: creations, edits and deletions by users
    MaxFaults     \* bound: failed syncs and outages

ASSUME InvalidAssumption == Invalid \notin Retentions
ASSUME NobodyAssumption == Nobody \notin Instances
ASSUME LimitsAssumption == MaxEdits \in Nat /\ MaxFaults \in Nat

VARIABLES
    inst,      \* the Instances: absent, live or deleting
    spec,      \* their backup sections
    store,     \* the ObjectStore
    cluster,   \* does the Instance's Cluster archive to the ObjectStore?
    usable,    \* BackupStorage and its credentials can be resolved
    rc,        \* the sync in progress
    verdict,   \* history: what the sync last said of the current spec
    edits,     \* edits so far
    faults     \* disturbances so far

vars == <<inst, spec, store, cluster, usable, rc, verdict, edits, faults>>

Policies == Retentions \cup {Invalid}
Specs == [enabled : BOOLEAN, retention : Policies]

\* The locals of a sync: whose it is, the spec it was given, what List found.
Syncs == [pc : {"idle", "storage", "list", "get", "apply", "cluster"},
          by : Instances \cup {Nobody}, spec : Specs, conflict : BOOLEAN]
Stores == [exists : BOOLEAN, retention : Policies, owner : Instances \cup {Nobody}]

NoSpec == [enabled |-> FALSE, retention |-> Invalid]
Idle == [pc |-> "idle", by |-> Nobody, spec |-> NoSpec, conflict |-> FALSE]

Edit == edits < MaxEdits /\ edits' = edits + 1
Fault == faults < MaxFaults /\ faults' = faults + 1

Init ==
    /\ inst = [i \in Instances |-> "absent"]
    /\ spec = [i \in Instances |-> NoSpec]
    /\ store = [exists |-> FALSE, retention |-> Invalid, owner |-> Nobody]
    /\ cluster = [i \in Instances |-> FALSE]
    /\ usable = TRUE
    /\ rc = Idle
    /\ verdict = [i \in Instances |-> "none"]
    /\ edits = 0 /\ faults = 0

-----------------------------------------------------------------------------
(* Provider.Sync, as far as it concerns the ObjectStore.                   *)

\* Backups switched off: no plugin, and the ObjectStore is left as it is.
SyncStart(i) ==
    /\ rc.pc = "idle" /\ inst[i] = "live"
    /\ rc' = [pc |-> IF spec[i].enabled THEN "storage" ELSE "cluster",
              by |-> i, spec |-> spec[i], conflict |-> FALSE]
    /\ UNCHANGED <<inst, spec, store, cluster, usable, verdict, edits, faults>>

\* Seeded error: the error of storageRetentionPolicy is dropped.
PolicyIsValid_Always(retention) == TRUE
PolicyIsValid(retention) == retention # Invalid

\* A missing or unusable BackupStorage, Secret or endpoint CA, or an invalid
\* policy, ends the sync: nothing is applied, not even the Cluster.
ResolveStorage ==
    /\ rc.pc = "storage"
    /\ rc' = IF usable /\ PolicyIsValid(rc.spec.retention)
             THEN [rc EXCEPT !.pc = "list"] ELSE Idle
    /\ UNCHANGED <<inst, spec, store, cluster, usable, verdict, edits, faults>>

\* Seeded error: Instances without backups still count.
Peers_Disabled(i) == {j \in Instances \ {i} : inst[j] = "live"}
\* The Instances whose policy counts: those that archive here and will stay.
Peers(i) == {j \in Instances \ {i} : inst[j] = "live" /\ spec[j].enabled}

\* A peer's invalid policy is no conflict: it fails that Instance's own sync.
ListPeers ==
    /\ rc.pc = "list"
    /\ rc' = [rc EXCEPT !.pc = "get",
                        !.conflict = \E j \in Peers(rc.by) :
                            spec[j].retention \notin {Invalid, rc.spec.retention}]
    /\ UNCHANGED <<inst, spec, store, cluster, usable, verdict, edits, faults>>

\* Seeded error: the stored policy is not compared, its presence is enough.
StoredPolicyMatches_Exists(retention) == store.exists
\* Seeded error: the stored policy is not read, any conflict refuses.
StoredPolicyMatches_Never(retention) == FALSE
\* The ObjectStore is there and already carries this policy.
StoredPolicyMatches(retention) == store.exists /\ store.retention = retention

GetStore ==
    /\ rc.pc = "get"
    /\ \/ /\ ~rc.conflict \/ StoredPolicyMatches(rc.spec.retention)
          /\ rc' = [rc EXCEPT !.pc = "apply"]
          /\ UNCHANGED verdict
       \/ /\ rc.conflict /\ ~StoredPolicyMatches(rc.spec.retention)
          /\ rc' = Idle
          /\ verdict' = IF spec[rc.by] = rc.spec
                        THEN [verdict EXCEPT ![rc.by] = "refused"] ELSE verdict
    /\ UNCHANGED <<inst, spec, store, cluster, usable, edits, faults>>

buildObjectStore(retention, owner) ==
    [exists |-> TRUE, retention |-> retention, owner |-> owner]

\* Apply also makes this Instance the owner, or leaves the owner there is.
ApplyStore ==
    /\ rc.pc = "apply"
    /\ \E owner \in {rc.by} \cup (IF store.exists THEN {store.owner} ELSE {}) :
          store' = buildObjectStore(rc.spec.retention, owner)
    /\ verdict' = IF inst[rc.by] = "live" /\ spec[rc.by] = rc.spec
                  THEN [verdict EXCEPT ![rc.by] = "accepted"] ELSE verdict
    /\ rc' = [rc EXCEPT !.pc = "cluster"]
    /\ UNCHANGED <<inst, spec, cluster, usable, edits, faults>>

ApplyCluster ==
    /\ rc.pc = "cluster"
    /\ cluster' = [cluster EXCEPT ![rc.by] = rc.spec.enabled]
    /\ rc' = Idle
    /\ UNCHANGED <<inst, spec, store, usable, verdict, edits, faults>>

\* An API error, a crash or a restart.
SyncFails ==
    /\ rc.pc # "idle" /\ Fault
    /\ rc' = Idle
    /\ UNCHANGED <<inst, spec, store, cluster, usable, verdict, edits>>

-----------------------------------------------------------------------------
(* Users, the finalizer and the garbage collector.                         *)

\* A verdict is about the spec it was given for.
UserWrites(i) ==
    /\ inst[i] # "deleting" /\ Edit
    /\ \E s \in Specs : /\ inst[i] = "absent" \/ s # spec[i]
                        /\ spec' = [spec EXCEPT ![i] = s]
    /\ inst' = [inst EXCEPT ![i] = "live"]
    /\ verdict' = [verdict EXCEPT ![i] = "none"]
    /\ UNCHANGED <<store, cluster, usable, rc, faults>>

UserDeletes(i) ==
    /\ inst[i] = "live" /\ Edit
    /\ inst' = [inst EXCEPT ![i] = "deleting"]
    /\ verdict' = [verdict EXCEPT ![i] = "none"]
    /\ UNCHANGED <<spec, store, cluster, usable, rc, faults>>

\* Provider.Cleanup does nothing, so the worker takes the finalizer off when it
\* comes to this Instance; the Cluster goes with its owner.
InstanceGoes(i) ==
    /\ rc.pc = "idle" /\ inst[i] = "deleting"
    /\ inst' = [inst EXCEPT ![i] = "absent"]
    /\ cluster' = [cluster EXCEPT ![i] = FALSE]
    /\ store' = [store EXCEPT !.owner = IF @ = i THEN Nobody ELSE @]
    /\ UNCHANGED <<spec, usable, rc, verdict, edits, faults>>

\* An ObjectStore whose owner is gone is collected.
StoreIsCollected ==
    /\ store.exists /\ store.owner = Nobody
    /\ store' = [store EXCEPT !.exists = FALSE]
    /\ UNCHANGED <<inst, spec, cluster, usable, rc, verdict, edits, faults>>

StorageBreaks ==
    /\ usable /\ Fault
    /\ usable' = FALSE
    /\ UNCHANGED <<inst, spec, store, cluster, rc, verdict, edits>>

StorageRecovers ==
    /\ ~usable
    /\ usable' = TRUE
    /\ UNCHANGED <<inst, spec, store, cluster, rc, verdict, edits, faults>>

-----------------------------------------------------------------------------

Sync == ResolveStorage \/ ListPeers \/ GetStore \/ ApplyStore \/ ApplyCluster

Next ==
    \/ \E i \in Instances : SyncStart(i) \/ UserWrites(i) \/ UserDeletes(i) \/ InstanceGoes(i)
    \/ Sync \/ SyncFails
    \/ StoreIsCollected \/ StorageBreaks \/ StorageRecovers

Spec == Init /\ [][Next]_vars

(* The worker takes Instances from a first-in first-out queue and each one *)
(* is queued again, at the latest by the periodic resync: strong fairness, *)
(* since one Instance's sync disables the start of another's.              *)
Fairness ==
    /\ \A i \in Instances : SF_vars(SyncStart(i)) /\ SF_vars(InstanceGoes(i))
    /\ WF_vars(Sync)
    /\ WF_vars(StoreIsCollected) /\ WF_vars(StorageRecovers)

FairSpec == Spec /\ Fairness

-----------------------------------------------------------------------------
(* Properties.                                                             *)

Accepted(i) == verdict[i] = "accepted"

TypeOK ==
    /\ inst \in [Instances -> {"absent", "live", "deleting"}]
    /\ spec \in [Instances -> Specs]
    /\ store \in Stores /\ rc \in Syncs
    /\ cluster \in [Instances -> BOOLEAN] /\ usable \in BOOLEAN
    /\ verdict \in [Instances -> {"none", "accepted", "refused"}]
    /\ edits \in 0 .. MaxEdits /\ faults \in 0 .. MaxFaults
    /\ rc.pc # "idle" => rc.by \in Instances
    /\ rc.pc \in {"list", "get", "apply"} => rc.spec.retention \in Retentions
    /\ store.exists => store.retention \in Retentions

\* checkSharedRetention: Instances that got past it want the same policy, and
\* the ObjectStore, if there is one, carries that policy: nobody's archive is
\* pruned by a window its accepted spec does not ask for.
AcceptedAgree ==
    \A i, j \in Instances : Accepted(i) /\ Accepted(j) =>
        /\ spec[i].retention = spec[j].retention
        /\ store.exists => store.retention = spec[i].retention

\* An accepted Instance that nobody edits is refused later only when the
\* ObjectStore has gone: as long as there is a stored policy, the disagreement
\* of others does not stop it.
RefusedOnlyWithoutStore ==
    [][\A i \in Instances : Accepted(i) /\ verdict'[i] = "refused" => ~store.exists]_vars

\* backup.go:103: when Instances disagree, the others keep reconciling: one that
\* was accepted, and that nobody edits, is not refused later.
OthersKeepReconciling ==
    [][\A i \in Instances : Accepted(i) => verdict'[i] # "refused"]_vars

\* The Instances that are there for good and archive want one valid policy.
Agreement ==
    \E retention \in Retentions : \A i \in Instances :
        /\ inst[i] # "deleting"
        /\ inst[i] = "live" /\ spec[i].enabled => spec[i].retention = retention

\* Once Instances agree and stay so, each archives in the end to an ObjectStore
\* with its policy, for good: no refusal, no leftover of a deleted or disabled
\* peer and no collected ObjectStore is forever.
AgreementIsServed ==
    \A i \in Instances :
        <>[](Agreement /\ usable /\ inst[i] = "live" /\ spec[i].enabled) =>
        <>[](/\ Accepted(i) /\ cluster[i]
             /\ store.exists /\ store.retention = spec[i].retention)

-----------------------------------------------------------------------------
Agreed == INSTANCE AgreedRetention WITH
    Nothing <- Invalid,
    asked   <- [i \in Instances |-> spec[i].retention],
    answer  <- verdict,
    stored  <- (IF store.exists THEN store.retention ELSE Invalid)

\* checkSharedRetention looks at the peers, then at the ObjectStore, then writes;
\* users edit and peers come and go in between, and still it is as if it had done
\* all of it at once (module AgreedRetention).
AsIfAtOnce == Agreed!Spec
=============================================================================
