---------------------------- MODULE Schedules_proofs ----------------------------
(***************************************************************************)
(* Proofs about Schedules, for any Instances, schedules and bounds: type   *)
(* correctness, and that syncs leave the ScheduledBackups of other         *)
(* Instances alone, provided no two Instances produce the same name.       *)
(***************************************************************************)
EXTENDS Schedules, TLAPS

NamesOf(i) == {scheduledBackupName(i, s) : s \in Schedules}

NamesUnique ==
    \A i, j \in Instances : \A n \in NamesOf(i) : n \in NamesOf(j) => i = j

\* A ScheduledBackup is named after the Instance that controls it, ...
OwnerNames == \A n \in Names : sbs[n].exists => n \in NamesOf(sbs[n].owner)

\* ... and a sync is about names of its own Instance, while it applies and while
\* it prunes.
SyncNames == rc.pc # "idle" => rc.todo \subseteq NamesOf(rc.by)

IInv == TypeOK /\ OwnerNames /\ SyncNames

\* The records of a sync in progress.
Busy == [pc : {"apply", "prune"}, by : Instances, gen : 0 .. MaxEdits,
         keep : SUBSET Names, todo : SUBSET Names]
Existing == [exists : {TRUE}, cluster : Instances, owner : Instances, gen : 0 .. MaxEdits]

-----------------------------------------------------------------------------

\* Names of an Instance are names.
LEMMA NamesOfAreNames == ASSUME NEW i \in Instances PROVE NamesOf(i) \subseteq Names
BY DEF NamesOf, Names

\* Only names of the Instance are built.
LEMMA BuiltNames == ASSUME NEW i \in Instances PROVE buildScheduledBackups(i) \subseteq NamesOf(i)
BY DEF buildScheduledBackups, NamesOf

\* A sync that is not idle has all its fields.
LEMMA BusyTyped == TypeOK /\ rc.pc # "idle" => rc \in Busy
BY DEF TypeOK, Syncs, Idle, Busy

\* A ScheduledBackup that exists has all its fields.
LEMMA ExistingTyped ==
    ASSUME TypeOK, NEW n \in Names, sbs[n].exists PROVE sbs[n] \in Existing
<1>1. sbs[n] \in {Absent} \cup Existing
  BY DEF TypeOK, ScheduledBackups, Existing
<1>2. ~Absent.exists
  BY DEF Absent
<1> QED
  BY <1>1, <1>2

\* What Pruning leaves.
LEMMA PruningMoves ==
    ASSUME NEW todo \in SUBSET Names, rc \in Busy, rc' = Pruning(todo)
    PROVE  \/ rc' = Idle /\ todo = {}
           \/ rc' \in Busy /\ rc'.pc = "prune" /\ rc'.by = rc.by /\ rc'.todo = todo
              /\ rc'.keep = rc.keep
BY DEF Pruning, Busy

\* What an Apply does.
LEMMA ApplyMoves ==
    ASSUME TypeOK, ApplyScheduledBackup
    PROVE  /\ \/ rc' = Idle
              \/ rc' \in Busy /\ rc'.pc = "apply" /\ rc'.by = rc.by /\ rc'.todo \subseteq rc.todo
           /\ \E n \in rc.todo :
                \/ UNCHANGED sbs
                \/ /\ n \in Names
                   /\ sbs' = [sbs EXCEPT ![n] = sbs'[n]]
                   /\ sbs'[n] \in Existing
                   /\ \/ sbs'[n].owner = rc.by
                      \/ sbs[n].exists /\ sbs'[n].owner = sbs[n].owner
<1>1. rc \in Busy
  BY BusyTyped DEF ApplyScheduledBackup
<1>2. PICK n \in rc.todo :
        LET mine == [exists |-> TRUE, cluster |-> rc.by, owner |-> rc.by, gen |-> rc.gen]
        IN  \/ /\ sbs' = [sbs EXCEPT ![n] = mine]
               /\ rc' = [rc EXCEPT !.todo = @ \ {n}]
            \/ /\ sbs[n].exists
               /\ sbs' = [sbs EXCEPT ![n].cluster = rc.by]
               /\ rc' = [rc EXCEPT !.todo = @ \ {n}]
            \/ rc' = Idle /\ UNCHANGED sbs
  BY DEF ApplyScheduledBackup
<1>3. n \in Names /\ sbs \in [Names -> ScheduledBackups]
  BY <1>1 DEF Busy, TypeOK
<1>4. ASSUME rc' = [rc EXCEPT !.todo = @ \ {n}]
      PROVE  rc' \in Busy /\ rc'.pc = "apply" /\ rc'.by = rc.by /\ rc'.todo \subseteq rc.todo
  BY <1>1, <1>4 DEF Busy, ApplyScheduledBackup
<1>5. CASE rc' = Idle /\ UNCHANGED sbs
  BY <1>5
<1>6. CASE /\ sbs' = [sbs EXCEPT ![n] = [exists |-> TRUE, cluster |-> rc.by,
                                          owner |-> rc.by, gen |-> rc.gen]]
           /\ rc' = [rc EXCEPT !.todo = @ \ {n}]
  <2>1. sbs'[n] = [exists |-> TRUE, cluster |-> rc.by, owner |-> rc.by, gen |-> rc.gen]
    BY <1>3, <1>6
  <2>2. sbs'[n] \in Existing /\ sbs'[n].owner = rc.by
    BY <1>1, <2>1 DEF Busy, Existing
  <2>3. sbs' = [sbs EXCEPT ![n] = sbs'[n]]
    BY <1>6, <2>1
  <2> QED
    BY <1>3, <1>4, <1>6, <2>2, <2>3
<1>7. CASE /\ sbs[n].exists
           /\ sbs' = [sbs EXCEPT ![n].cluster = rc.by]
           /\ rc' = [rc EXCEPT !.todo = @ \ {n}]
  <2>1. sbs[n] \in Existing
    BY <1>3, <1>7, ExistingTyped
  <2>2. sbs'[n] = [sbs[n] EXCEPT !.cluster = rc.by]
    BY <1>3, <1>7
  <2>3. sbs'[n] \in Existing /\ sbs'[n].owner = sbs[n].owner
    BY <1>1, <2>1, <2>2 DEF Busy, Existing
  <2>4. sbs' = [sbs EXCEPT ![n] = sbs'[n]]
    BY <1>7, <2>2
  <2> QED
    BY <1>3, <1>4, <1>7, <2>3, <2>4
<1> QED
  BY <1>2, <1>5, <1>6, <1>7

\* Types hold initially.
LEMMA TypeInit == Init => TypeOK
<1> SUFFICES ASSUME Init PROVE TypeOK
  OBVIOUS
<1>1. inst \in [Instances -> Records]
  <2>1. [Schedules -> StartModes] \subseteq [Schedules -> Modes] /\ 0 \in 0 .. MaxEdits
    BY StartModesAssumption, LimitsAssumption
  <2>2. [st : {"live"}, gen : {0}, enabled : {TRUE}, modes : [Schedules -> StartModes]]
          \subseteq Records
    BY <2>1 DEF Records
  <2> QED
    BY <2>2 DEF Init
<1>2. sbs \in [Names -> ScheduledBackups]
  BY DEF Init, ScheduledBackups
<1> QED
  BY <1>1, <1>2, LimitsAssumption DEF Init, TypeOK, Syncs, Idle

\* Every step keeps the types.
LEMMA TypeStep == TypeOK /\ [Next]_vars => TypeOK'
<1> SUFFICES ASSUME TypeOK, [Next]_vars PROVE TypeOK'
  OBVIOUS
<1>0. Busy \subseteq Syncs /\ Idle \in Syncs /\ Idle.pc = "idle"
  BY DEF Busy, Syncs, Idle
<1>A. Existing \subseteq ScheduledBackups /\ Absent \in ScheduledBackups
  BY DEF Existing, ScheduledBackups
<1>1. ASSUME NEW i \in Instances, SyncStart(i) PROVE TypeOK'
  <2>1. buildScheduledBackups(i) \in SUBSET Names
    BY BuiltNames, NamesOfAreNames
  <2>2. inst[i].gen \in 0 .. MaxEdits
    BY DEF TypeOK, Records
  <2>3. rc' \in Busy /\ rc'.pc = "apply"
    BY <1>1, <2>1, <2>2 DEF SyncStart, Busy
  <2> QED
    BY <1>0, <1>1, <2>3 DEF SyncStart, TypeOK
<1>2. CASE ApplyScheduledBackup
  <2>1. rc' \in Syncs /\ rc'.pc # "prune"
    BY <1>0, <1>2, ApplyMoves
  <2>2. sbs' \in [Names -> ScheduledBackups]
    BY <1>2, <1>A, ApplyMoves DEF TypeOK
  <2> QED
    BY <1>2, <2>1, <2>2 DEF ApplyScheduledBackup, TypeOK
<1>3. CASE ListScheduledBackups
  <2>1. rc \in Busy
    BY <1>3, BusyTyped DEF ListScheduledBackups
  <2>2. DEFINE todo == {n \in Names : Prunes(n)}
  <2>3. todo \in SUBSET Names /\ todo \cap rc.keep = {}
    BY DEF Prunes
  <2>4. rc' = Idle \/ (rc' \in Busy /\ rc'.todo = todo /\ rc'.keep = rc.keep)
    BY <1>3, <2>1, <2>3, PruningMoves DEF ListScheduledBackups
  <2>5. rc' \in Syncs /\ (rc'.pc = "prune" => rc'.todo \cap rc'.keep = {})
    BY <1>0, <2>3, <2>4
  <2> QED
    BY <1>3, <2>5 DEF ListScheduledBackups, TypeOK
<1>4. CASE DeleteScheduledBackup
  <2>1. rc \in Busy /\ rc.todo \cap rc.keep = {}
    BY <1>4, BusyTyped DEF DeleteScheduledBackup, TypeOK
  <2>2. PICK n \in rc.todo : sbs' = [sbs EXCEPT ![n] = Absent] /\ rc' = Pruning(rc.todo \ {n})
    BY <1>4 DEF DeleteScheduledBackup
  <2>3. rc.todo \ {n} \in SUBSET Names
    BY <2>1 DEF Busy
  <2>4. rc' = Idle \/ (rc' \in Busy /\ rc'.todo = rc.todo \ {n} /\ rc'.keep = rc.keep)
    BY <2>1, <2>2, <2>3, PruningMoves
  <2>5. rc' \in Syncs /\ (rc'.pc = "prune" => rc'.todo \cap rc'.keep = {})
    BY <1>0, <2>1, <2>4
  <2>6. sbs' \in [Names -> ScheduledBackups]
    BY <1>A, <2>2 DEF TypeOK
  <2> QED
    BY <1>4, <2>5, <2>6 DEF DeleteScheduledBackup, TypeOK
<1>5. CASE SyncFails
  <2>1. faults' \in 0 .. MaxFaults
    BY <1>5, LimitsAssumption DEF SyncFails, Fault, TypeOK
  <2> QED
    BY <1>0, <1>5, <2>1 DEF SyncFails, TypeOK
<1>6. ASSUME NEW i \in Instances, UserEdits(i) \/ UserDeletes(i) \/ UserCreatesAgain(i) \/ InstanceGoes(i)
      PROVE  TypeOK'
  <2>1. edits' \in 0 .. MaxEdits
    BY <1>6, LimitsAssumption DEF UserEdits, UserDeletes, UserCreatesAgain, InstanceGoes,
       Edit, TypeOK
  <2>2. inst[i] \in Records
    BY DEF TypeOK
  <2>3. inst' \in [Instances -> Records]
    <3>1. CASE UserEdits(i)
      <4>1. [inst[i] EXCEPT !.enabled = ~@] \in Records
        BY <2>2 DEF Records
      <4>2. ASSUME NEW s \in Schedules, NEW mode \in Modes
            PROVE  [inst[i] EXCEPT !.modes[s] = mode] \in Records
        BY <2>2 DEF Records
      <4>3. \/ inst' = [inst EXCEPT ![i] = [inst[i] EXCEPT !.enabled = ~@]]
            \/ \E s \in Schedules, mode \in Modes :
                  inst' = [inst EXCEPT ![i] = [inst[i] EXCEPT !.modes[s] = mode]]
        BY <3>1 DEF UserEdits, TypeOK
      <4> QED
        BY <4>1, <4>2, <4>3 DEF TypeOK
    <3>2. CASE UserDeletes(i) \/ InstanceGoes(i)
      <4>1. [inst[i] EXCEPT !.st = "deleting"] \in Records /\ [inst[i] EXCEPT !.st = "absent"] \in Records
        BY <2>2 DEF Records
      <4>2. \/ inst' = [inst EXCEPT ![i] = [inst[i] EXCEPT !.st = "deleting"]]
            \/ inst' = [inst EXCEPT ![i] = [inst[i] EXCEPT !.st = "absent"]]
        BY <3>2 DEF UserDeletes, InstanceGoes, TypeOK
      <4> QED
        BY <4>1, <4>2 DEF TypeOK
    <3>3. CASE UserCreatesAgain(i)
      <4>1. edits + 1 \in 0 .. MaxEdits
        BY <3>3, LimitsAssumption DEF UserCreatesAgain, Edit, TypeOK
      <4>2. [inst[i] EXCEPT !.st = "live", !.gen = edits + 1] \in Records
        BY <2>2, <4>1 DEF Records
      <4>3. inst' = [inst EXCEPT ![i] = [inst[i] EXCEPT !.st = "live", !.gen = edits + 1]]
        BY <3>3 DEF UserCreatesAgain, TypeOK
      <4> QED
        BY <4>2, <4>3 DEF TypeOK
    <3> QED
      BY <1>6, <3>1, <3>2, <3>3
  <2> QED
    BY <1>6, <2>1, <2>3 DEF UserEdits, UserDeletes, UserCreatesAgain, InstanceGoes, TypeOK
<1>7. ASSUME NEW n \in Names, ScheduledBackupIsCollected(n) PROVE TypeOK'
  BY <1>7, <1>A DEF ScheduledBackupIsCollected, TypeOK
<1>8. CASE UNCHANGED vars
  BY <1>8 DEF vars, TypeOK
<1> QED
  BY <1>1, <1>2, <1>3, <1>4, <1>5, <1>6, <1>7, <1>8 DEF Next, SyncScheduledBackups

-----------------------------------------------------------------------------

\* The names are right initially.
LEMMA InitIInv == Init => IInv
<1> SUFFICES ASSUME Init PROVE IInv
  OBVIOUS
<1>1. TypeOK
  BY TypeInit
<1>2. rc.pc = "idle" /\ \A n \in Names : ~sbs[n].exists
  BY DEF Init, Idle, Absent
<1> QED
  BY <1>1, <1>2 DEF IInv, OwnerNames, SyncNames

\* Every step keeps the names right.
LEMMA StepIInv == IInv /\ [Next]_vars => IInv'
<1> SUFFICES ASSUME IInv, [Next]_vars PROVE IInv'
  OBVIOUS
<1>T. TypeOK /\ TypeOK' /\ Idle.pc = "idle" /\ ~Absent.exists
  BY TypeStep DEF IInv, Idle, Absent
<1> USE DEF OwnerNames, SyncNames
<1>1. ASSUME NEW i \in Instances, SyncStart(i) PROVE IInv'
  BY <1>1, <1>T, BuiltNames DEF SyncStart, IInv, NamesOf
<1>2. CASE ApplyScheduledBackup
  <2>1. rc.pc # "idle"
    BY <1>2 DEF ApplyScheduledBackup
  <2>2. SyncNames'
    BY <1>2, <1>T, <2>1, ApplyMoves DEF IInv, NamesOf
  <2>3. OwnerNames'
    <3> SUFFICES ASSUME NEW m \in Names, sbs'[m].exists PROVE m \in NamesOf(sbs'[m].owner)
      BY DEF NamesOf
    <3>1. PICK n \in rc.todo :
             \/ UNCHANGED sbs
             \/ /\ n \in Names
                /\ sbs' = [sbs EXCEPT ![n] = sbs'[n]]
                /\ \/ sbs'[n].owner = rc.by
                   \/ sbs[n].exists /\ sbs'[n].owner = sbs[n].owner
      BY <1>2, <1>T, ApplyMoves
    <3>2. n \in NamesOf(rc.by)
      BY <2>1 DEF IInv
    <3>3. CASE UNCHANGED sbs
      BY <3>3 DEF IInv
    <3>4. CASE ~UNCHANGED sbs /\ m = n
      BY <3>1, <3>2, <3>4 DEF IInv
    <3>5. CASE ~UNCHANGED sbs /\ m # n
      <4>1. sbs'[m] = sbs[m]
        BY <3>1, <3>5, <1>T DEF TypeOK
      <4> QED
        BY <4>1 DEF IInv
    <3> QED
      BY <3>3, <3>4, <3>5
  <2> QED
    BY <1>T, <2>2, <2>3 DEF IInv
<1>3. CASE ListScheduledBackups
  <2>1. rc \in Busy
    BY <1>3, <1>T, BusyTyped DEF ListScheduledBackups
  <2>2. {n \in Names : Prunes(n)} \subseteq NamesOf(rc.by)
    BY DEF Prunes, IsControlledBy, IInv
  <2>3. rc'.pc = "idle" \/ (rc'.by = rc.by /\ rc'.todo = {n \in Names : Prunes(n)})
    BY <1>3, <1>T, <2>1, PruningMoves DEF ListScheduledBackups
  <2> QED
    BY <1>3, <1>T, <2>2, <2>3 DEF ListScheduledBackups, IInv, NamesOf
<1>4. CASE DeleteScheduledBackup
  <2>1. rc \in Busy /\ rc.pc # "idle"
    BY <1>4, <1>T, BusyTyped DEF DeleteScheduledBackup
  <2>2. PICK n \in rc.todo : sbs' = [sbs EXCEPT ![n] = Absent] /\ rc' = Pruning(rc.todo \ {n})
    BY <1>4 DEF DeleteScheduledBackup
  <2>3. rc.todo \ {n} \in SUBSET Names
    BY <2>1 DEF Busy
  <2>4. rc'.pc = "idle" \/ (rc'.by = rc.by /\ rc'.todo = rc.todo \ {n})
    BY <1>T, <2>1, <2>2, <2>3, PruningMoves
  <2>5. SyncNames'
    BY <2>1, <2>4 DEF IInv, NamesOf
  <2>6. \A m \in Names : sbs'[m].exists => sbs'[m] = sbs[m]
    BY <1>T, <2>2 DEF TypeOK
  <2> QED
    BY <1>T, <2>5, <2>6 DEF IInv, NamesOf
<1>5. CASE SyncFails
  BY <1>5, <1>T DEF SyncFails, IInv, NamesOf
<1>6. ASSUME NEW i \in Instances, UserEdits(i) \/ UserDeletes(i) \/ UserCreatesAgain(i) \/ InstanceGoes(i)
      PROVE  IInv'
  BY <1>6, <1>T DEF UserEdits, UserDeletes, UserCreatesAgain, InstanceGoes, IInv, NamesOf
<1>7. ASSUME NEW n \in Names, ScheduledBackupIsCollected(n) PROVE IInv'
  <2>1. \A m \in Names : sbs'[m].exists => sbs'[m] = sbs[m]
    BY <1>7, <1>T DEF ScheduledBackupIsCollected, TypeOK
  <2> QED
    BY <1>7, <1>T, <2>1 DEF ScheduledBackupIsCollected, IInv, NamesOf
<1>8. CASE UNCHANGED vars
  BY <1>8, <1>T DEF vars, IInv, NamesOf
<1> QED
  BY <1>1, <1>2, <1>3, <1>4, <1>5, <1>6, <1>7, <1>8 DEF Next, SyncScheduledBackups

\* A step of the reconciler changes ScheduledBackups of its own Instance only.
LEMMA StepOthers ==
    ASSUME NamesUnique, IInv, Next, NEW n \in Names,
           rc.pc # "idle", rc' # rc, sbs[n].exists, sbs[n].owner # rc.by
    PROVE  sbs'[n] = sbs[n]
<1>1. rc \in Busy /\ sbs \in [Names -> ScheduledBackups]
  BY BusyTyped DEF IInv, TypeOK
<1>2. sbs[n].owner \in Instances
  BY ExistingTyped DEF IInv, Existing
<1>3. n \notin rc.todo
  BY <1>1, <1>2 DEF IInv, OwnerNames, SyncNames, NamesUnique, Busy
<1>4. CASE ApplyScheduledBackup
  BY <1>1, <1>3, <1>4, ApplyMoves DEF IInv
<1>5. CASE DeleteScheduledBackup
  BY <1>1, <1>3, <1>5 DEF DeleteScheduledBackup
<1>6. CASE ListScheduledBackups \/ SyncFails
  BY <1>6 DEF ListScheduledBackups, SyncFails
<1>7. CASE ~(ApplyScheduledBackup \/ DeleteScheduledBackup \/ ListScheduledBackups \/ SyncFails)
  BY <1>7 DEF Next, SyncScheduledBackups, SyncStart, UserEdits, UserDeletes, UserCreatesAgain,
     InstanceGoes, ScheduledBackupIsCollected
<1> QED
  BY <1>4, <1>5, <1>6, <1>7

-----------------------------------------------------------------------------

\* The inductive invariant holds in every reachable state.
THEOREM Invariance == Spec => []IInv
BY InitIInv, StepIInv, PTL DEF Spec

\* Type correctness of the schedules; what a sync deletes is not what it keeps.
THEOREM TypeCorrect == Spec => []TypeOK
<1>1. IInv => TypeOK
  BY DEF IInv
<1> QED
  BY <1>1, Invariance, PTL

\* Syncs leave the ScheduledBackups of other Instances alone, if names are unique.
THEOREM OthersAreUntouched == ASSUME NamesUnique PROVE Spec => OthersUntouched
<1>1. IInv /\ [Next]_vars =>
        [\A n \in Names :
            LET sb == sbs[n]
            IN  /\ rc.pc # "idle" /\ rc' # rc
                /\ sb.exists /\ IsThere(sb.owner, sb.gen) /\ sb.owner # rc.by
                => UNCHANGED sbs[n]]_vars
  BY StepOthers
<1>2. Spec =>
        [][\A n \in Names :
            LET sb == sbs[n]
            IN  /\ rc.pc # "idle" /\ rc' # rc
                /\ sb.exists /\ IsThere(sb.owner, sb.gen) /\ sb.owner # rc.by
                => UNCHANGED sbs[n]]_vars
  BY <1>1, Invariance, PTL DEF Spec
<1> QED
  BY <1>2 DEF OthersUntouched
=============================================================================
