----------------------------- MODULE MCSnapshots ----------------------------
(* Small instances of Snapshots for TLC. *)
EXTENDS Snapshots

CallSymmetry == Permutations(Calls)
=============================================================================
