---------------------------- MODULE MCPhotoStore ----------------------------
(* PhotoStore for TLC: photos are alike, and so are tasks. *)
EXTENDS PhotoStore, TLC

Symmetry == Permutations(Photos) \cup Permutations(Tasks)
=============================================================================
