--------------------------- MODULE MCMountRuntime ---------------------------
(* Values of the constants of MountRuntime for TLC.                         *)
EXTENDS MountRuntime, TLC

Symmetry == Permutations(Notes)
=============================================================================
