------------------------- MODULE MCBackupLifecycle -------------------------
(* Instances of BackupLifecycle for TLC; the bounds are given in the .cfg   *)
(* files.  There is nothing symmetric: base backups and records are counted.*)
EXTENDS BackupLifecycle
=============================================================================
