---------------------------- MODULE MCSharedObjectStore ----------------------------
(* Instances of SharedObjectStore for TLC: three Instances, interchangeable. *)
EXTENDS SharedObjectStore, TLC

InstanceSymmetry == Permutations(Instances)
=============================================================================
