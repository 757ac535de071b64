------------------------ MODULE SharedObjectStore_proofs ------------------------
(***************************************************************************)
(* Proofs about SharedObjectStore, for any number of Instances, retention  *)
(* policies, edits and faults.  AcceptedAgree is not inductive by itself:  *)
(* what a sync found out before it writes must still hold when it writes.  *)
(* With that, the protocol implements AgreedRetention, and locks nobody    *)
(* out who was accepted but by the collection of a shared ObjectStore.     *)
(***************************************************************************)
EXTENDS SharedObjectStore, TLAPS

\* Who was accepted archives, with a valid policy.
AcceptedIsValid ==
    \A i \in Instances : Accepted(i) =>
        inst[i] = "live" /\ spec[i].enabled /\ spec[i].retention # Invalid

\* A sync that goes for the ObjectStore is one of an Instance that archives,
\* past ResolveStorage with a valid policy.
SyncIsValid ==
    /\ rc.pc \in {"storage", "list", "get", "apply"} => rc.spec.enabled
    /\ rc.pc \in {"list", "get", "apply"} => rc.spec.retention # Invalid

\* An Instance accepted before its sync began is synced with its current spec.
SyncIsCurrent == rc.pc # "idle" /\ Accepted(rc.by) => spec[rc.by] = rc.spec

\* A sync that found no conflict, or is about to write, agrees with everyone
\* accepted, whatever users did since it looked.
SyncAgrees ==
    rc.pc = "apply" \/ (rc.pc = "get" /\ ~rc.conflict) =>
        \A j \in Instances \ {rc.by} : Accepted(j) => spec[j].retention = rc.spec.retention

IInv == TypeOK /\ AcceptedIsValid /\ SyncIsValid /\ SyncIsCurrent /\ SyncAgrees /\ AcceptedAgree

-----------------------------------------------------------------------------

\* The values the actions write are of their types.
LEMMA ValuesTyped == NoSpec \in Specs /\ Idle \in Syncs /\ Idle.pc = "idle"
BY DEF NoSpec, Specs, Policies, Idle, Syncs

\* The initial state is well typed.
LEMMA TypeInit == Init => TypeOK
<1>1. SUFFICES ASSUME Init PROVE TypeOK
  OBVIOUS
<1>2. store \in Stores
  BY <1>1 DEF Init, Stores, Policies
<1>3. spec \in [Instances -> Specs] /\ rc \in Syncs /\ rc.pc = "idle"
  BY <1>1, ValuesTyped DEF Init
<1>4. edits \in 0 .. MaxEdits /\ faults \in 0 .. MaxFaults
  BY <1>1, LimitsAssumption DEF Init
<1> QED
  BY <1>1, <1>2, <1>3, <1>4 DEF Init, TypeOK

\* Every step keeps the types.
LEMMA TypeStep == TypeOK /\ [Next]_vars => TypeOK'
<1> SUFFICES ASSUME TypeOK, [Next]_vars PROVE TypeOK'
  OBVIOUS
<1> USE LimitsAssumption DEF TypeOK
<1>1. ASSUME NEW i \in Instances, SyncStart(i) PROVE TypeOK'
  <2>1. rc' \in Syncs /\ rc'.by = i /\ rc'.pc \in {"storage", "cluster"}
    BY <1>1 DEF SyncStart, Syncs
  <2> QED
    BY <1>1, <2>1 DEF SyncStart
<1>2. ASSUME NEW i \in Instances, UserWrites(i) PROVE TypeOK'
  <2>1. edits' \in 0 .. MaxEdits
    BY <1>2 DEF UserWrites, Edit
  <2> QED
    BY <1>2, <2>1 DEF UserWrites
<1>3. ASSUME NEW i \in Instances, UserDeletes(i) PROVE TypeOK'
  <2>1. edits' \in 0 .. MaxEdits
    BY <1>3 DEF UserDeletes, Edit
  <2> QED
    BY <1>3, <2>1 DEF UserDeletes
<1>4. ASSUME NEW i \in Instances, InstanceGoes(i) PROVE TypeOK'
  <2>1. store' \in Stores /\ store'.exists = store.exists /\ store'.retention = store.retention
    BY <1>4 DEF InstanceGoes, Stores
  <2> QED
    BY <1>4, <2>1 DEF InstanceGoes
<1>5. CASE ResolveStorage
  <2>1. /\ rc' \in Syncs
        /\ rc'.pc # "idle" => rc'.by = rc.by /\ rc'.spec = rc.spec /\ rc.spec.retention # Invalid
    BY <1>5, ValuesTyped DEF ResolveStorage, PolicyIsValid, Syncs
  <2>2. rc.spec.retention \in Retentions \cup {Invalid}
    BY DEF Syncs, Specs, Policies
  <2> QED
    BY <1>5, <2>1, <2>2, ValuesTyped DEF ResolveStorage
<1>6. CASE ListPeers
  <2>1. rc' \in Syncs /\ rc'.by = rc.by /\ rc'.spec = rc.spec
    BY <1>6 DEF ListPeers, Syncs
  <2> QED
    BY <1>6, <2>1 DEF ListPeers
<1>7. CASE GetStore
  <2>1. rc' \in Syncs /\ (rc'.pc # "idle" => rc'.by = rc.by /\ rc'.spec = rc.spec)
    BY <1>7, ValuesTyped DEF GetStore, Syncs
  <2> QED
    BY <1>7, <2>1, ValuesTyped DEF GetStore
<1>8. CASE ApplyStore
  <2>1. rc' \in Syncs /\ rc'.by = rc.by /\ rc'.pc = "cluster"
    BY <1>8 DEF ApplyStore, buildObjectStore, Syncs
  <2>2. rc.spec.retention \in Policies /\ rc.by \in Instances
    BY <1>8 DEF ApplyStore, buildObjectStore, Syncs, Specs
  <2>3. store' \in Stores /\ store'.retention = rc.spec.retention
    BY <1>8, <2>2 DEF ApplyStore, buildObjectStore, Stores
  <2> QED
    BY <1>8, <2>1, <2>3 DEF ApplyStore, buildObjectStore
<1>9. CASE ApplyCluster
  <2>1. rc.spec.enabled \in BOOLEAN
    BY DEF Syncs, Specs
  <2> QED
    BY <1>9, <2>1, ValuesTyped DEF ApplyCluster
<1>10. CASE SyncFails
  <2>1. faults' \in 0 .. MaxFaults
    BY <1>10 DEF SyncFails, Fault
  <2> QED
    BY <1>10, <2>1, ValuesTyped DEF SyncFails
<1>11. CASE StoreIsCollected
  <2>1. store' \in Stores /\ ~store'.exists
    BY <1>11 DEF StoreIsCollected, Stores
  <2> QED
    BY <1>11, <2>1 DEF StoreIsCollected
<1>12. CASE StorageBreaks
  <2>1. faults' \in 0 .. MaxFaults
    BY <1>12 DEF StorageBreaks, Fault
  <2> QED
    BY <1>12, <2>1 DEF StorageBreaks
<1>13. CASE StorageRecovers
  BY <1>13 DEF StorageRecovers
<1>14. CASE UNCHANGED vars
  BY <1>14 DEF vars
<1> QED
  BY <1>1, <1>2, <1>3, <1>4, <1>5, <1>6, <1>7, <1>8, <1>9, <1>10, <1>11, <1>12, <1>13, <1>14
  DEF Next, Sync

-----------------------------------------------------------------------------

\* The invariant holds initially: nobody is accepted and nobody syncs.
LEMMA InitIInv == Init => IInv
<1> SUFFICES ASSUME Init PROVE IInv
  OBVIOUS
<1>1. TypeOK
  BY TypeInit
<1>2. \A i \in Instances : ~Accepted(i)
  BY DEF Init, Accepted
<1>3. rc.pc = "idle"
  BY ValuesTyped DEF Init
<1> QED
  BY <1>1, <1>2, <1>3
  DEF IInv, AcceptedIsValid, SyncIsValid, SyncIsCurrent, SyncAgrees, AcceptedAgree

\* Steps that neither start nor advance a sync, nor write the ObjectStore's
\* policy, keep the invariant if they take verdicts back where they edit.
LEMMA QuietStep ==
    ASSUME IInv, TypeOK',
           rc' = rc \/ rc'.pc = "idle",
           \A i \in Instances : Accepted(i)' => Accepted(i) /\ spec'[i] = spec[i] /\ inst'[i] = inst[i],
           store'.exists => store.exists /\ store'.retention = store.retention
    PROVE  IInv'
<1>1. AcceptedIsValid' /\ AcceptedAgree'
  BY DEF IInv, AcceptedIsValid, AcceptedAgree, TypeOK
<1>2. CASE rc'.pc = "idle"
  BY <1>1, <1>2 DEF IInv, SyncIsValid, SyncIsCurrent, SyncAgrees
<1>3. CASE rc' = rc /\ rc.pc # "idle"
  <2>1. rc.by \in Instances
    BY <1>3 DEF IInv, TypeOK
  <2>2. SyncIsValid' /\ SyncIsCurrent' /\ SyncAgrees'
    BY <1>3, <2>1 DEF IInv, SyncIsValid, SyncIsCurrent, SyncAgrees
  <2> QED
    BY <1>1, <2>2 DEF IInv
<1> QED
  BY <1>2, <1>3

\* Every step keeps the invariant.
LEMMA StepIInv == IInv /\ [Next]_vars => IInv'
<1> SUFFICES ASSUME IInv, [Next]_vars PROVE IInv'
  OBVIOUS
<1>T. TypeOK /\ TypeOK'
  BY TypeStep DEF IInv
<1>1. ASSUME NEW i \in Instances, SyncStart(i) PROVE IInv'
  <2>1. /\ rc'.by = i /\ rc'.spec = spec[i] /\ rc'.pc \in {"storage", "cluster"}
        /\ rc'.pc = "storage" => spec[i].enabled
    BY <1>1 DEF SyncStart
  <2>2. UNCHANGED <<inst, spec, store, verdict>>
    BY <1>1 DEF SyncStart
  <2>3. AcceptedIsValid' /\ AcceptedAgree'
    BY <2>2 DEF IInv, AcceptedIsValid, AcceptedAgree, Accepted
  <2>4. SyncIsValid' /\ SyncAgrees' /\ SyncIsCurrent'
    BY <2>1, <2>2 DEF SyncIsValid, SyncAgrees, SyncIsCurrent
  <2> QED
    BY <1>T, <2>3, <2>4 DEF IInv
<1>2. ASSUME NEW i \in Instances, UserWrites(i) PROVE IInv'
  <2>1. rc' = rc /\ store' = store
    BY <1>2 DEF UserWrites
  <2>2. \A j \in Instances : Accepted(j)' => Accepted(j) /\ spec'[j] = spec[j] /\ inst'[j] = inst[j]
    BY <1>2, <1>T DEF UserWrites, Accepted, TypeOK
  <2> QED
    BY <1>T, <2>1, <2>2, QuietStep
<1>3. ASSUME NEW i \in Instances, UserDeletes(i) PROVE IInv'
  <2>1. rc' = rc /\ store' = store
    BY <1>3 DEF UserDeletes
  <2>2. \A j \in Instances : Accepted(j)' => Accepted(j) /\ spec'[j] = spec[j] /\ inst'[j] = inst[j]
    BY <1>3, <1>T DEF UserDeletes, Accepted, TypeOK
  <2> QED
    BY <1>T, <2>1, <2>2, QuietStep
<1>4. ASSUME NEW i \in Instances, InstanceGoes(i) PROVE IInv'
  <2>1. rc' = rc /\ store'.exists = store.exists /\ store'.retention = store.retention
    BY <1>4, <1>T DEF InstanceGoes, TypeOK, Stores
  <2>2. \A j \in Instances : Accepted(j)' => Accepted(j) /\ spec'[j] = spec[j] /\ inst'[j] = inst[j]
    BY <1>4, <1>T DEF InstanceGoes, Accepted, AcceptedIsValid, IInv, TypeOK
  <2> QED
    BY <1>T, <2>1, <2>2, QuietStep
<1>5. CASE ResolveStorage
  <2>1. \/ rc' = Idle
        \/ /\ rc.pc # "idle" /\ rc'.pc = "list" /\ rc'.by = rc.by /\ rc'.spec = rc.spec
           /\ rc.spec.retention # Invalid
    BY <1>5, <1>T DEF ResolveStorage, PolicyIsValid, TypeOK, Syncs
  <2>2. UNCHANGED <<inst, spec, store, verdict>>
    BY <1>5 DEF ResolveStorage
  <2>3. CASE rc' = Idle
    BY <1>T, <2>2, <2>3, ValuesTyped, QuietStep DEF Accepted
  <2>4. CASE rc' # Idle
    <3>1. AcceptedIsValid' /\ AcceptedAgree' /\ SyncIsCurrent' /\ SyncAgrees'
      BY <2>1, <2>2, <2>4
      DEF IInv, AcceptedIsValid, AcceptedAgree, SyncIsCurrent, SyncAgrees, Accepted
    <3>2. SyncIsValid'
      BY <2>1, <2>4, <1>5 DEF IInv, ResolveStorage, PolicyIsValid, SyncIsValid
    <3> QED
      BY <1>T, <3>1, <3>2 DEF IInv
  <2> QED
    BY <2>3, <2>4
<1>6. CASE ListPeers
  <2>1. /\ rc.pc = "list" /\ rc'.pc = "get" /\ rc'.by = rc.by /\ rc'.spec = rc.spec
        /\ rc'.conflict = \E j \in Peers(rc.by) : spec[j].retention \notin {Invalid, rc.spec.retention}
    BY <1>6, <1>T DEF ListPeers, TypeOK, Syncs
  <2>2. UNCHANGED <<inst, spec, store, verdict>>
    BY <1>6 DEF ListPeers
  <2>3. AcceptedIsValid' /\ AcceptedAgree' /\ SyncIsCurrent' /\ SyncIsValid'
    BY <2>1, <2>2
    DEF IInv, AcceptedIsValid, AcceptedAgree, SyncIsCurrent, SyncIsValid, Accepted
  <2>4. ASSUME NEW j \in Instances \ {rc.by}, Accepted(j), ~rc'.conflict
        PROVE  spec[j].retention = rc.spec.retention
    <3>1. j \in Peers(rc.by) /\ spec[j].retention # Invalid
      BY <2>4 DEF IInv, AcceptedIsValid, Peers
    <3> QED
      BY <2>1, <2>4, <3>1
  <2>5. SyncAgrees'
    BY <2>1, <2>2, <2>4 DEF SyncAgrees, Accepted
  <2> QED
    BY <1>T, <2>3, <2>5 DEF IInv
<1>7. CASE GetStore
  <2>1. UNCHANGED <<inst, spec, store>> /\ rc.pc = "get"
    BY <1>7 DEF GetStore
  <2>2. CASE ~rc.conflict \/ StoredPolicyMatches(rc.spec.retention)
    <3>1. UNCHANGED verdict /\ rc'.pc = "apply" /\ rc'.by = rc.by /\ rc'.spec = rc.spec
      BY <1>7, <2>2, <1>T DEF GetStore, TypeOK, Syncs
    <3>2. AcceptedIsValid' /\ AcceptedAgree' /\ SyncIsCurrent' /\ SyncIsValid'
      BY <2>1, <3>1
      DEF IInv, AcceptedIsValid, AcceptedAgree, SyncIsCurrent, SyncIsValid, Accepted
    <3>3. ASSUME NEW j \in Instances \ {rc.by}, Accepted(j)
          PROVE  spec[j].retention = rc.spec.retention
      BY <2>1, <2>2, <3>3 DEF IInv, SyncAgrees, AcceptedAgree, StoredPolicyMatches
    <3>4. SyncAgrees'
      BY <2>1, <3>1, <3>3 DEF SyncAgrees, Accepted
    <3> QED
      BY <1>T, <3>2, <3>4 DEF IInv
  <2>3. CASE ~(~rc.conflict \/ StoredPolicyMatches(rc.spec.retention))
    <3>1. rc' = Idle /\ (\A j \in Instances : Accepted(j)' => Accepted(j))
      BY <1>7, <2>3, <1>T DEF GetStore, Accepted, TypeOK
    <3> QED
      BY <1>T, <2>1, <3>1, ValuesTyped, QuietStep
  <2> QED
    BY <2>2, <2>3
<1>8. CASE ApplyStore
  <2>1. /\ UNCHANGED <<inst, spec>>
        /\ rc.pc = "apply" /\ rc'.pc = "cluster" /\ rc'.by = rc.by /\ rc'.spec = rc.spec
    BY <1>8, <1>T DEF ApplyStore, buildObjectStore, TypeOK, Syncs
  <2>2. store'.retention = rc.spec.retention
    BY <1>8 DEF ApplyStore, buildObjectStore
  <2>3. rc.by \in Instances
    BY <2>1, <1>T DEF TypeOK
  <2>4. \A j \in Instances : Accepted(j)' =>
            \/ j # rc.by /\ Accepted(j)
            \/ j = rc.by /\ inst[j] = "live" /\ spec[j] = rc.spec
    <3>1. CASE inst[rc.by] = "live" /\ spec[rc.by] = rc.spec
      BY <1>8, <3>1, <1>T DEF ApplyStore, buildObjectStore, Accepted, TypeOK
    <3>2. CASE ~(inst[rc.by] = "live" /\ spec[rc.by] = rc.spec)
      BY <1>8, <2>1, <2>3, <3>2 DEF ApplyStore, buildObjectStore, Accepted, IInv,
         SyncIsCurrent, AcceptedIsValid
    <3> QED
      BY <3>1, <3>2
  <2>5. \A j \in Instances : Accepted(j)' => spec[j].retention = rc.spec.retention
    BY <2>1, <2>4 DEF IInv, SyncAgrees
  <2>6. AcceptedAgree'
    BY <2>1, <2>2, <2>5 DEF AcceptedAgree
  <2>7. AcceptedIsValid'
    BY <2>1, <2>4 DEF IInv, AcceptedIsValid, SyncIsValid
  <2>8. SyncIsCurrent' /\ SyncIsValid' /\ SyncAgrees'
    BY <2>1, <2>3, <2>4 DEF SyncIsCurrent, SyncIsValid, SyncAgrees
  <2> QED
    BY <1>T, <2>6, <2>7, <2>8 DEF IInv
<1>9. CASE ApplyCluster
  BY <1>9, <1>T, ValuesTyped, QuietStep DEF ApplyCluster, Accepted
<1>10. CASE SyncFails
  BY <1>10, <1>T, ValuesTyped, QuietStep DEF SyncFails, Accepted
<1>11. CASE StoreIsCollected
  <2>1. ~store'.exists
    BY <1>11, <1>T DEF StoreIsCollected, TypeOK, Stores
  <2> QED
    BY <1>11, <2>1, <1>T, QuietStep DEF StoreIsCollected, Accepted
<1>12. CASE StorageBreaks
  BY <1>12, <1>T, QuietStep DEF StorageBreaks, Accepted
<1>13. CASE StorageRecovers
  BY <1>13, <1>T, QuietStep DEF StorageRecovers, Accepted
<1>14. CASE UNCHANGED vars
  BY <1>14, <1>T, QuietStep DEF vars, Accepted
<1> QED
  BY <1>1, <1>2, <1>3, <1>4, <1>5, <1>6, <1>7, <1>8, <1>9, <1>10, <1>11, <1>12, <1>13, <1>14
  DEF Next, Sync

-----------------------------------------------------------------------------

\* The inductive invariant holds in every reachable state.
THEOREM Invariance == Spec => []IInv
BY InitIInv, StepIInv, PTL DEF Spec

\* Type correctness of the shared ObjectStore protocol.
THEOREM TypeCorrect == Spec => []TypeOK
<1>1. IInv => TypeOK
  BY DEF IInv
<1> QED
  BY <1>1, Invariance, PTL

\* checkSharedRetention keeps its promise: Instances it accepted agree with each
\* other and with the stored policy, for any number of Instances and edits.
THEOREM AcceptedInstancesAgree == Spec => []AcceptedAgree
<1>1. IInv => AcceptedAgree
  BY DEF IInv
<1> QED
  BY <1>1, Invariance, PTL

\* An accepted Instance is refused later only when the ObjectStore has gone.
THEOREM RefusalNeedsCollection == Spec => RefusedOnlyWithoutStore
<1> DEFINE Kept == \A i \in Instances : Accepted(i) /\ verdict'[i] = "refused" => ~store.exists
<1>1. IInv /\ [Next]_vars => [Kept]_vars
  <2> SUFFICES ASSUME IInv, Next,
                      NEW i \in Instances, Accepted(i), verdict'[i] = "refused"
               PROVE  ~store.exists
    BY DEF Kept
  <2>1. TypeOK
    BY DEF IInv
  <2>2. verdict' # verdict
    BY DEF Accepted
  <2>3. CASE GetStore /\ rc.by = i
    <3>1. spec[i] = rc.spec
      BY <2>3 DEF GetStore, IInv, SyncIsCurrent
    <3>2. ~StoredPolicyMatches(rc.spec.retention)
      BY <2>2, <2>3 DEF GetStore
    <3>3. store.exists => store.retention = spec[i].retention
      BY DEF IInv, AcceptedAgree
    <3> QED
      BY <3>1, <3>2, <3>3 DEF StoredPolicyMatches
  <2>4. CASE GetStore /\ rc.by # i
    BY <2>4, <2>1 DEF GetStore, Accepted, TypeOK
  <2>5. CASE ApplyStore
    BY <2>5, <2>1 DEF ApplyStore, buildObjectStore, Accepted, TypeOK
  <2>6. ASSUME NEW j \in Instances, UserWrites(j) \/ UserDeletes(j) PROVE FALSE
    BY <2>6, <2>1 DEF UserWrites, UserDeletes, Accepted, TypeOK
  <2>7. ASSUME NEW j \in Instances, SyncStart(j) \/ InstanceGoes(j) PROVE FALSE
    BY <2>7, <2>2 DEF SyncStart, InstanceGoes
  <2>8. CASE ResolveStorage \/ ListPeers \/ ApplyCluster \/ SyncFails
             \/ StoreIsCollected \/ StorageBreaks \/ StorageRecovers
    BY <2>8, <2>2 DEF ResolveStorage, ListPeers, ApplyCluster, SyncFails,
       StoreIsCollected, StorageBreaks, StorageRecovers
  <2> QED
    BY <2>3, <2>4, <2>5, <2>6, <2>7, <2>8 DEF Next, Sync
<1>2. Spec => [][Kept]_vars
  BY <1>1, Invariance, PTL DEF Spec
<1> QED
  BY <1>2 DEF RefusedOnlyWithoutStore

\* Whoever was accepted has written the ObjectStore, ...
AcceptedIsStored == \A i \in Instances : Accepted(i) => store.exists

\* ... and finds it there unless it is collected from under accepted Instances.
LEMMA StoredStep ==
    /\ TypeOK /\ AcceptedIsStored /\ [Next]_vars
    /\ StoreIsCollected => \A i \in Instances : ~Accepted(i)
    => AcceptedIsStored'
<1> SUFFICES ASSUME TypeOK, AcceptedIsStored, [Next]_vars,
                    StoreIsCollected => \A i \in Instances : ~Accepted(i),
                    NEW i \in Instances, Accepted(i)'
             PROVE  store'.exists
  BY DEF AcceptedIsStored
<1> USE DEF TypeOK, Accepted, AcceptedIsStored
<1>1. CASE ApplyStore
  BY <1>1 DEF ApplyStore, buildObjectStore
<1>2. CASE GetStore
  BY <1>2 DEF GetStore
<1>3. ASSUME NEW j \in Instances, UserWrites(j) \/ UserDeletes(j) PROVE store'.exists
  <2>1. UNCHANGED store /\ verdict' = [verdict EXCEPT ![j] = "none"]
    BY <1>3 DEF UserWrites, UserDeletes
  <2> QED
    BY <2>1
<1>4. ASSUME NEW j \in Instances, SyncStart(j) PROVE store'.exists
  BY <1>4 DEF SyncStart
<1>5. ASSUME NEW j \in Instances, InstanceGoes(j) PROVE store'.exists
  <2>1. store'.exists = store.exists /\ UNCHANGED verdict
    BY <1>5 DEF InstanceGoes, Stores
  <2> QED
    BY <2>1
<1>6. CASE StoreIsCollected
  BY <1>6 DEF StoreIsCollected
<1>7. CASE ResolveStorage \/ ListPeers \/ ApplyCluster \/ SyncFails \/ StorageBreaks
           \/ StorageRecovers
  BY <1>7 DEF ResolveStorage, ListPeers, ApplyCluster, SyncFails, StorageBreaks,
     StorageRecovers
<1>8. CASE UNCHANGED vars
  BY <1>8 DEF vars
<1> QED
  BY <1>1, <1>2, <1>3, <1>4, <1>5, <1>6, <1>7, <1>8 DEF Next, Sync

\* backup.go:103, "the others keep reconciling": they do, but for the collection of an
\* ObjectStore that accepted Instances share.
THEOREM OnlyCollectionLocksOut ==
    Spec /\ [][StoreIsCollected => \A i \in Instances : ~Accepted(i)]_vars =>
        OthersKeepReconciling
<1>1. Init => AcceptedIsStored
  BY DEF Init, Accepted, AcceptedIsStored
<1>2. TypeOK /\ AcceptedIsStored /\ [Next]_vars
        /\ [StoreIsCollected => \A i \in Instances : ~Accepted(i)]_vars => AcceptedIsStored'
  <2>1. AcceptedIsStored /\ UNCHANGED vars => AcceptedIsStored'
    BY DEF AcceptedIsStored, Accepted, vars
  <2> QED
    BY <2>1, StoredStep
<1>3. /\ AcceptedIsStored
      /\ [\A i \in Instances : Accepted(i) /\ verdict'[i] = "refused" => ~store.exists]_vars
      => [\A i \in Instances : Accepted(i) => verdict'[i] # "refused"]_vars
  BY DEF AcceptedIsStored
<1> QED
  BY <1>1, <1>2, <1>3, TypeCorrect, RefusalNeedsCollection, PTL
     DEF Spec, RefusedOnlyWithoutStore, OthersKeepReconciling

-----------------------------------------------------------------------------
(* SharedObjectStore implements AgreedRetention: every step of a sync, a   *)
(* user or the garbage collector is one of its steps or changes nothing    *)
(* that it speaks of.                                                      *)

\* Nobody has asked for anything, and nothing is stored.
LEMMA AgreedInit == Init => Agreed!Init
<1> SUFFICES ASSUME Init PROVE Agreed!Init
  OBVIOUS
<1>1. [i \in Instances |-> spec[i].retention] = [i \in Instances |-> Invalid]
  BY DEF Init, NoSpec
<1>2. (IF store.exists THEN store.retention ELSE Invalid) = Invalid
  BY DEF Init
<1> QED
  BY <1>1, <1>2 DEF Init, Agreed!Init

\* Users ask.
LEMMA AgreedAsk ==
    ASSUME TypeOK, NEW i \in Instances, UserWrites(i) \/ UserDeletes(i)
    PROVE  Agreed!Ask(i)
<1> USE DEF TypeOK
<1>1. PICK s \in Specs : spec' = [spec EXCEPT ![i] = s]
  <2>1. CASE UserDeletes(i)
    <3>1. spec' = [spec EXCEPT ![i] = spec[i]] /\ spec[i] \in Specs
      BY <2>1 DEF UserDeletes
    <3> QED
      BY <3>1
  <2> QED
    BY <2>1 DEF UserWrites
<1>2. UNCHANGED store /\ verdict' = [verdict EXCEPT ![i] = "none"]
  BY DEF UserWrites, UserDeletes
<1>3. s.retention \in Retentions \cup {Invalid}
  BY DEF Specs, Policies
<1>4. [j \in Instances |-> spec'[j].retention]
        = [[j \in Instances |-> spec[j].retention] EXCEPT ![i] = s.retention]
  BY <1>1
<1> QED
  BY <1>2, <1>3, <1>4 DEF Agreed!Ask

\* An Apply accepts who still asks for what it writes, and is a late one otherwise:
\* even then it agrees with everybody accepted.
LEMMA AgreedApply ==
    ASSUME IInv, ApplyStore
    PROVE  Agreed!Accept(rc.by) \/ Agreed!AcceptLate(rc.by)
<1>1. /\ rc.by \in Instances /\ rc.pc = "apply" /\ UNCHANGED <<inst, spec>>
      /\ store'.exists /\ store'.retention = rc.spec.retention
      /\ rc.spec.retention \in Retentions /\ rc.spec.retention # Invalid
  BY DEF IInv, TypeOK, SyncIsValid, ApplyStore, buildObjectStore
<1>2. \A j \in Instances \ {rc.by} : Accepted(j) => spec[j].retention = rc.spec.retention
  BY <1>1 DEF IInv, SyncAgrees
<1>3. CASE inst[rc.by] = "live" /\ spec[rc.by] = rc.spec
  <2>1. verdict' = [verdict EXCEPT ![rc.by] = "accepted"]
    BY <1>3 DEF ApplyStore, buildObjectStore
  <2> QED
    BY <1>1, <1>2, <1>3, <2>1 DEF Agreed!Accept, Agreed!Agrees, Agreed!Accepted, Accepted
<1>4. CASE ~(inst[rc.by] = "live" /\ spec[rc.by] = rc.spec)
  <2>1. UNCHANGED verdict
    BY <1>4 DEF ApplyStore, buildObjectStore
  <2>2. ~Accepted(rc.by)
    BY <1>1, <1>4 DEF IInv, SyncIsCurrent, AcceptedIsValid
  <2> QED
    BY <1>1, <1>2, <2>1, <2>2
    DEF Agreed!AcceptLate, Agreed!Agrees, Agreed!Accepted, Accepted
<1> QED
  BY <1>3, <1>4

\* A refusal is one of who asks for something else than is stored.
LEMMA AgreedRefuse ==
    ASSUME IInv, GetStore, verdict' # verdict
    PROVE  Agreed!Refuse(rc.by)
<1>1. /\ UNCHANGED <<spec, store>> /\ rc.pc = "get" /\ spec[rc.by] = rc.spec
      /\ verdict' = [verdict EXCEPT ![rc.by] = "refused"]
      /\ ~StoredPolicyMatches(rc.spec.retention)
  BY DEF GetStore
<1>2. rc.by \in Instances /\ rc.spec.retention # Invalid
  BY <1>1 DEF IInv, TypeOK, SyncIsValid
<1> QED
  BY <1>1, <1>2 DEF Agreed!Refuse, StoredPolicyMatches

\* Every step is a step of AgreedRetention or a stutter.
LEMMA AgreedStep == IInv /\ [Next]_vars => [Agreed!Next]_(Agreed!vars)
<1> SUFFICES ASSUME IInv, [Next]_vars PROVE Agreed!Next \/ UNCHANGED Agreed!vars
  OBVIOUS
<1>T. TypeOK
  BY DEF IInv
<1>1. ASSUME NEW i \in Instances, UserWrites(i) \/ UserDeletes(i) PROVE Agreed!Next
  BY <1>1, <1>T, AgreedAsk DEF Agreed!Next
<1>2. CASE ApplyStore
  <2>1. rc.by \in Instances
    BY <1>2, <1>T DEF ApplyStore, TypeOK
  <2> QED
    BY <1>2, <2>1, AgreedApply DEF Agreed!Next
<1>3. CASE GetStore
  <2>1. rc.by \in Instances /\ UNCHANGED <<spec, store>>
    BY <1>3, <1>T DEF GetStore, TypeOK
  <2>2. CASE UNCHANGED verdict
    BY <2>1, <2>2 DEF Agreed!vars
  <2>3. CASE verdict' # verdict
    BY <1>3, <2>1, <2>3, AgreedRefuse DEF Agreed!Next
  <2> QED
    BY <2>2, <2>3
<1>4. CASE StoreIsCollected
  <2>1. ~store'.exists /\ UNCHANGED <<spec, verdict>>
    BY <1>4, <1>T DEF StoreIsCollected, TypeOK, Stores
  <2> QED
    BY <2>1 DEF Agreed!Next, Agreed!Collect
<1>5. ASSUME NEW i \in Instances, SyncStart(i) \/ InstanceGoes(i) PROVE UNCHANGED Agreed!vars
  <2>1. UNCHANGED <<spec, verdict>> /\ store'.exists = store.exists
          /\ store'.retention = store.retention
    BY <1>5, <1>T DEF SyncStart, InstanceGoes, TypeOK, Stores
  <2> QED
    BY <2>1 DEF Agreed!vars
<1>6. CASE ResolveStorage \/ ListPeers \/ ApplyCluster \/ SyncFails \/ StorageBreaks
           \/ StorageRecovers \/ UNCHANGED vars
  <2>1. UNCHANGED <<spec, verdict, store>>
    BY <1>6 DEF ResolveStorage, ListPeers, ApplyCluster, SyncFails, StorageBreaks,
       StorageRecovers, vars
  <2> QED
    BY <2>1 DEF Agreed!vars
<1> QED
  BY <1>1, <1>2, <1>3, <1>4, <1>5, <1>6 DEF Next, Sync

\* checkSharedRetention, spread over several API calls with edits, departures and the
\* garbage collector between them, is as good as one that does it all at once.
THEOREM SharingIsAtomic == Spec => AsIfAtOnce
BY AgreedInit, AgreedStep, Invariance, PTL DEF Spec, AsIfAtOnce, Agreed!Spec
=============================================================================
