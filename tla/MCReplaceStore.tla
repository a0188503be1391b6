--------------------------- MODULE MCReplaceStore ---------------------------
(* Values of the constants of ReplaceStore for TLC.                         *)
EXTENDS ReplaceStore, TLC

Symmetry == Permutations(Ids) \cup Permutations(Records)
=============================================================================
