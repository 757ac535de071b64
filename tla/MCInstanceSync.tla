---------------------------- MODULE MCInstanceSync ----------------------------
(* Instances of InstanceSync for TLC. *)
EXTENDS InstanceSync

Absent == -1

WriteSpec(replicas, sync, standbys, role, pool, prometheus) ==
    [replicas |-> replicas, sync |-> sync, standbys |-> standbys, role |-> role, pool |-> pool,
     prometheus |-> prometheus]

\* One instance with a role; scaled up with a synchronous standby; with one and, its standby
\* listed, with two pooler pods; too many synchronous standbys.
FiveSpecs ==
    {WriteSpec(1, Absent, 0, TRUE, Absent, TRUE),
     WriteSpec(2, 1, 0, FALSE, Absent, FALSE),
     WriteSpec(1, Absent, 0, FALSE, 1, FALSE),
     WriteSpec(1, 1, 1, FALSE, 2, FALSE),
     WriteSpec(1, 1, 0, FALSE, 1, FALSE)}
=============================================================================
