---------------------------- MODULE MCPageScript ----------------------------
(* Small instances of PageScript for TLC. *)
EXTENDS PageScript, TLC

FetchSymmetry == Permutations(Fetches)
=============================================================================
