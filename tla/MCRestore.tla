------------------------------ MODULE MCRestore ------------------------------
(* Instances of Restore for TLC; the bounds are given in the .cfg file. *)
EXTENDS Restore
=============================================================================
