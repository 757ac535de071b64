------------------------------- MODULE Schedules -------------------------------
(***************************************************************************)
(* Backup schedules: SyncScheduledBackups turns the enabled schedules of   *)
(* each Instance into CNPG ScheduledBackups and prunes the others.         *)
(*                                                                         *)
(* Translated from internal/cnpg/barman/schedule.go.  Every Apply and      *)
(* Delete of a sync is a step; the one worker of the Instance controller   *)
(* does not overlap syncs.  The Backups CNPG produces from them, and what  *)
(* Mirror makes of these, are the subject of BackupLifecycle.              *)
(***************************************************************************)
EXTENDS Integers, Sequences

CONSTANTS
    Instances,    \* names of Instances of one namespace, as sequences of
    Schedules,    \* the words between hyphens; names of their schedules
    StartModes,   \* bound: the modes a schedule starts with
    MaxEdits,     \* bound: edits, creations and deletions by users
    MaxFaults,    \* bound: failed syncs
    MaxEvents     \* bound: edits and failed syncs together

ASSUME LimitsAssumption == MaxEdits \in Nat /\ MaxFaults \in Nat /\ MaxEvents \in Nat

VARIABLES
    inst,      \* the Instances with their backup sections
    sbs,       \* the ScheduledBackups, by name
    rc,        \* the sync in progress, with the snapshot it was given
    edits,     \* edits so far
    faults     \* failed syncs so far

vars == <<inst, sbs, rc, edits, faults>>

\* instance + "-" + schedule (a hash keeps long names apart).
scheduledBackupName(i, s) == i \o s

Names == {scheduledBackupName(i, s) : i \in Instances, s \in Schedules}

\* A schedule is not listed, listed and disabled, or enabled.
Modes == {"none", "off", "on"}

ASSUME StartModesAssumption == StartModes \subseteq Modes

\* `gen` tells an Instance from an earlier one of the same name (its UID).
Records ==
    [st : {"live", "deleting", "absent"}, gen : 0 .. MaxEdits, enabled : BOOLEAN,
     modes : [Schedules -> Modes]]

Absent == [exists |-> FALSE]
ScheduledBackups ==
    {Absent} \cup [exists : {TRUE}, cluster : Instances, owner : Instances, gen : 0 .. MaxEdits]

Idle == [pc |-> "idle"]
Syncs ==
    {Idle} \cup [pc : {"apply", "prune"}, by : Instances, gen : 0 .. MaxEdits,
                 keep : SUBSET Names, todo : SUBSET Names]

CanHappen == edits + faults < MaxEvents
Edit == edits < MaxEdits /\ CanHappen /\ edits' = edits + 1
Fault == faults < MaxFaults /\ CanHappen /\ faults' = faults + 1

Init ==
    /\ inst \in [Instances -> [st : {"live"}, gen : {0}, enabled : {TRUE},
                              modes : [Schedules -> StartModes]]]
    /\ sbs = [n \in Names |-> Absent]
    /\ rc = Idle
    /\ edits = 0 /\ faults = 0

\* Is this ScheduledBackup controlled by Instance i as of generation g?
IsControlledBy(sb, i, g) == sb.exists /\ sb.owner = i /\ sb.gen = g

-----------------------------------------------------------------------------
(* SyncScheduledBackups.                                                   *)

\* Seeded error: disabled schedules are built too.
buildScheduledBackups_Disabled(i) ==
    {scheduledBackupName(i, s) : s \in {t \in Schedules :
        inst[i].enabled /\ inst[i].modes[t] # "none"}}
buildScheduledBackups(i) ==
    {scheduledBackupName(i, s) : s \in {t \in Schedules :
        inst[i].enabled /\ inst[i].modes[t] = "on"}}

\* Reached when every earlier step of Sync has succeeded.
SyncStart(i) ==
    /\ rc.pc = "idle" /\ inst[i].st = "live"
    /\ rc' = [pc |-> "apply", by |-> i, gen |-> inst[i].gen,
              keep |-> buildScheduledBackups(i), todo |-> buildScheduledBackups(i)]
    /\ UNCHANGED <<inst, sbs, edits, faults>>

\* The Apply of the provider runtime: an object another owner controls is taken
\* over, is written with its owner left alone, or is refused, which ends the sync.
ApplyScheduledBackup ==
    /\ rc.pc = "apply"
    /\ \E n \in rc.todo :
        LET mine == [exists |-> TRUE, cluster |-> rc.by, owner |-> rc.by, gen |-> rc.gen]
            foreign == sbs[n].exists /\ ~IsControlledBy(sbs[n], rc.by, rc.gen)
        IN  \/ /\ sbs' = [sbs EXCEPT ![n] = mine]
               /\ rc' = [rc EXCEPT !.todo = @ \ {n}]
            \/ /\ foreign
               /\ sbs' = [sbs EXCEPT ![n].cluster = rc.by]
               /\ rc' = [rc EXCEPT !.todo = @ \ {n}]
            \/ /\ foreign
               /\ rc' = Idle
               /\ UNCHANGED sbs
    /\ UNCHANGED <<inst, edits, faults>>

\* Seeded error: whose ScheduledBackup it is does not matter.
Prunes_Foreign(n) == sbs[n].exists /\ n \notin rc.keep
\* Seeded error: what is desired does not matter.
Prunes_Kept(n) == IsControlledBy(sbs[n], rc.by, rc.gen)
Prunes(n) == n \notin rc.keep /\ IsControlledBy(sbs[n], rc.by, rc.gen)

\* What is left of a sync that has these ScheduledBackups to delete.
Pruning(todo) == IF todo = {} THEN Idle ELSE [rc EXCEPT !.pc = "prune", !.todo = todo]

ListScheduledBackups ==
    /\ rc.pc = "apply" /\ rc.todo = {}
    /\ rc' = Pruning({n \in Names : Prunes(n)})
    /\ UNCHANGED <<inst, sbs, edits, faults>>

DeleteScheduledBackup ==
    /\ rc.pc = "prune"
    /\ \E n \in rc.todo :
          /\ sbs' = [sbs EXCEPT ![n] = Absent]
          /\ rc' = Pruning(rc.todo \ {n})
    /\ UNCHANGED <<inst, edits, faults>>

\* An Apply, List or Delete fails, or the process restarts.
SyncFails ==
    /\ rc.pc # "idle" /\ Fault
    /\ rc' = Idle
    /\ UNCHANGED <<inst, sbs, edits>>

-----------------------------------------------------------------------------
(* Users, the finalizer and the garbage collector.                         *)

UserEdits(i) ==
    /\ inst[i].st # "absent" /\ Edit
    /\ \/ inst' = [inst EXCEPT ![i].enabled = ~@]
       \/ \E s \in Schedules, mode \in Modes : inst' = [inst EXCEPT ![i].modes[s] = mode]
    /\ UNCHANGED <<sbs, rc, faults>>

UserDeletes(i) ==
    /\ inst[i].st = "live" /\ Edit
    /\ inst' = [inst EXCEPT ![i].st = "deleting"]
    /\ UNCHANGED <<sbs, rc, faults>>

\* An Instance of the same name, with the same backup section.
UserCreatesAgain(i) ==
    /\ inst[i].st = "absent" /\ Edit
    /\ inst' = [inst EXCEPT ![i].st = "live", ![i].gen = edits + 1]
    /\ UNCHANGED <<sbs, rc, faults>>

\* The worker takes the finalizer off; Provider.Cleanup does nothing.
InstanceGoes(i) ==
    /\ rc.pc = "idle" /\ inst[i].st = "deleting"
    /\ inst' = [inst EXCEPT ![i].st = "absent"]
    /\ UNCHANGED <<sbs, rc, edits, faults>>

IsThere(i, g) == inst[i].st # "absent" /\ inst[i].gen = g

ScheduledBackupIsCollected(n) ==
    /\ sbs[n].exists /\ ~IsThere(sbs[n].owner, sbs[n].gen)
    /\ sbs' = [sbs EXCEPT ![n] = Absent]
    /\ UNCHANGED <<inst, rc, edits, faults>>

-----------------------------------------------------------------------------

SyncScheduledBackups == ApplyScheduledBackup \/ ListScheduledBackups \/ DeleteScheduledBackup

Next ==
    \/ \E i \in Instances :
          SyncStart(i) \/ UserEdits(i) \/ UserDeletes(i) \/ UserCreatesAgain(i) \/ InstanceGoes(i)
    \/ SyncScheduledBackups \/ SyncFails
    \/ \E n \in Names : ScheduledBackupIsCollected(n)

Spec == Init /\ [][Next]_vars

(* One first-in first-out queue of Instances, each queued again at the     *)
(* latest by the resync (strong fairness: one sync disables the start of   *)
(* another).                                                               *)
Fairness ==
    /\ \A i \in Instances : SF_vars(SyncStart(i)) /\ SF_vars(InstanceGoes(i))
    /\ WF_vars(SyncScheduledBackups)
    /\ \A n \in Names : WF_vars(ScheduledBackupIsCollected(n))

FairSpec == Spec /\ Fairness

-----------------------------------------------------------------------------
(* Properties.                                                             *)

TypeOK ==
    /\ inst \in [Instances -> Records]
    /\ sbs \in [Names -> ScheduledBackups]
    /\ rc \in Syncs
    /\ rc.pc = "prune" => rc.todo \cap rc.keep = {}
    /\ edits \in 0 .. MaxEdits /\ faults \in 0 .. MaxFaults

\* SyncScheduledBackups deletes only what the Instance owns: a sync leaves every
\* ScheduledBackup alone that another Instance controls, and that is there.
OthersUntouched ==
    [][\A n \in Names :
          LET sb == sbs[n]
          IN  /\ rc.pc # "idle" /\ rc' # rc
              /\ sb.exists /\ IsThere(sb.owner, sb.gen) /\ sb.owner # rc.by
              => UNCHANGED sbs[n]]_vars

IsOn(i, s) == inst[i].st = "live" /\ inst[i].enabled /\ inst[i].modes[s] = "on"

Runs(i, s) ==
    LET sb == sbs[scheduledBackupName(i, s)] IN sb.exists /\ sb.cluster = i

\* schedule.go:83: there is a ScheduledBackup per enabled schedule, for good once
\* the schedule stays enabled, whatever Instances of the same name it survives.
EnabledSchedulesRun ==
    \A i \in Instances, s \in Schedules : <>[]IsOn(i, s) => <>[]Runs(i, s)

\* A schedule that is disabled or removed, or whose Instance is deleted, stops.
RemovedSchedulesStop ==
    \A i \in Instances, s \in Schedules : <>[]~IsOn(i, s) => <>[]~Runs(i, s)
=============================================================================
