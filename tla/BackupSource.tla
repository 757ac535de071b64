------------------------------ MODULE BackupSource ------------------------------
(***************************************************************************)
(* What others can rely on who look at one backup name from outside, as    *)
(* resolveSourceBackup does when an Instance is restored from it: what its *)
(* record says, its CNPG Backup, and the base backups.                     *)
(*   - The record says Succeeded only after a base backup has ended, but   *)
(*     what it says may be out of date, and it may go at any time.         *)
(*   - A CNPG Backup completes at most once, with the base backup that ends *)
(*     then; it says so, with the same Barman ID, until it goes.  The one    *)
(*     that takes its name starts anew.                                    *)
(*   - Base backups enter the catalog only as they end, one after the      *)
(*     other, and never come back.                                         *)
(***************************************************************************)
EXTENDS Integers

CONSTANT MaxRuns   \* bound: base backups ever taken under this name

VARIABLES
    reported,  \* is there a record, and does it say Succeeded?
    origin,    \* the CNPG Backup: has it completed, and its Barman ID (0 if none)
    ended,     \* base backups that have ended so far: their numbers are 1..ended
    catalog    \* the base backups in the object store

vars == <<reported, origin, ended, catalog>>

NoOrigin == [phase |-> "absent", id |-> 0]
NewOrigin == [phase |-> "incomplete", id |-> 0]

Init ==
    /\ reported = FALSE /\ origin \in {NoOrigin, NewOrigin}
    /\ ended = 0 /\ catalog = {}

\* A status is written, the record is deleted or created again.
RecordChanges ==
    /\ reported' = ~reported /\ (reported' => ended > 0)
    /\ UNCHANGED <<origin, ended, catalog>>

OriginAppears ==
    /\ origin = NoOrigin /\ origin' = NewOrigin
    /\ UNCHANGED <<reported, ended, catalog>>

\* Collected, or deleted by the handler or by users.
OriginGoes ==
    /\ origin # NoOrigin /\ origin' = NoOrigin
    /\ UNCHANGED <<reported, ended, catalog>>

\* With or without a base backup Barman can address; the CNPG Backup, if it is
\* still there, may have completed or failed, with or without its Barman ID.
RunEnds ==
    /\ ended < MaxRuns /\ ended' = ended + 1
    /\ catalog' \in {catalog, catalog \cup {ended'}}
    /\ \/ UNCHANGED origin
       \/ /\ origin = NewOrigin
          /\ origin' \in [phase : {"incomplete", "completed"}, id : {0} \cup ({ended'} \cap catalog')]
    /\ UNCHANGED reported

\* Retention, or explicit deletion.
RunExpires ==
    /\ \E r \in catalog : catalog' = catalog \ {r}
    /\ UNCHANGED <<reported, origin, ended>>

Next == RecordChanges \/ OriginAppears \/ OriginGoes \/ RunEnds \/ RunExpires

Spec == Init /\ [][Next]_vars
=============================================================================
