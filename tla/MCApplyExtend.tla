---------------------------- MODULE MCApplyExtend ----------------------------
(* Values of the constants of ApplyExtend for TLC.                          *)
EXTENDS ApplyExtend, TLC

(* Every content has the same digest: the integrity checks of the bindings *)
(* decide nothing here, so the model accepts at least what the code does.  *)
MCFingerprint(value) == "sha256"

Symmetry == Permutations(Procs)
=============================================================================
