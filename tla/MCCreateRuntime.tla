-------------------------- MODULE MCCreateRuntime --------------------------
(* Values of the constants of CreateRuntime for TLC.                        *)
EXTENDS CreateRuntime, TLC

Symmetry == Permutations(Sessions) \cup Permutations(Ids)
=============================================================================
