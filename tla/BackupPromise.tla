---------------------------- MODULE BackupPromise ----------------------------
(***************************************************************************)
(* What the provider promises to the users of one backup name, without the *)
(* CNPG Backup, Jobs and reconciles that achieve it:                       *)
(*   - a record is requested, then asked to be deleted, then gone;         *)
(*   - data is deleted explicitly only while a record that is being        *)
(*     deleted with policy Delete is still there;                          *)
(*   - such a record is gone only once the explicit deletion has ended and *)
(*     the base backups it recorded are out of the catalog, except those   *)
(*     that foreground cascading made it forget;                           *)
(*   - a deleted base backup never comes back.                             *)
(* (README, "Backup retention and deletion".)                              *)
(***************************************************************************)
EXTENDS Integers

CONSTANT MaxRuns   \* bound: base backups ever taken under this name

VARIABLES
    record,    \* absent, live or deleting
    policy,    \* the deletion policy of the record
    purging,   \* is explicit data deletion under way for the record?
    taken,     \* number of base backups started
    catalog,   \* base backups in the object store
    owed       \* base backups users asked to delete

vars == <<record, policy, purging, taken, catalog, owed>>

Init ==
    /\ record = "absent" /\ policy = "Delete" /\ purging = FALSE
    /\ taken = 0 /\ catalog = {} /\ owed = {}

Request ==
    /\ record = "absent"
    /\ record' = "live" /\ policy' = "Delete"
    /\ UNCHANGED <<purging, taken, catalog, owed>>

AskDeletion ==
    /\ record = "live" /\ record' = "deleting"
    /\ policy' \in {"Delete", "Retain"}
    /\ \/ UNCHANGED owed
       \/ policy' = "Delete" /\ \E r \in 1 .. taken : owed' = owed \cup {r}
    /\ UNCHANGED <<purging, taken, catalog>>

Start ==
    /\ taken < MaxRuns /\ taken' = taken + 1
    /\ UNCHANGED <<record, policy, purging, catalog, owed>>

Take ==
    /\ \E r \in 1 .. taken \ owed : catalog' = catalog \cup {r}
    /\ UNCHANGED <<record, policy, purging, taken, owed>>

\* Native retention or explicit deletion.
Lose ==
    /\ \E r \in catalog : catalog' = catalog \ {r}
    /\ UNCHANGED <<record, policy, purging, taken, owed>>

Purge ==
    /\ record = "deleting" /\ policy = "Delete"
    /\ purging' = ~purging
    /\ UNCHANGED <<record, policy, taken, catalog, owed>>

\* Foreground cascading.
Forget ==
    /\ record = "deleting"
    /\ \E r \in owed : owed' = owed \ {r}
    /\ UNCHANGED <<record, policy, purging, taken, catalog>>

LetGo ==
    /\ record = "deleting" /\ ~purging
    /\ owed \cap catalog = {}
    /\ record' = "absent"
    /\ UNCHANGED <<policy, purging, taken, catalog, owed>>

Next == Request \/ AskDeletion \/ Start \/ Take \/ Lose \/ Purge \/ Forget \/ LetGo

Spec == Init /\ [][Next]_vars
=============================================================================
