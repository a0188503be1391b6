-------------------------- MODULE MCJournalMachine --------------------------
(* Values of the constants of JournalMachine for TLC.                      *)
EXTENDS JournalMachine

(* Collision-free: two fingerprints are equal only for equal contents.     *)
MCFingerprint(value) == [sha256 |-> value]

MCStepSequences == {<<1>>, <<1, 2>>, <<1, 2, 3>>}
=============================================================================
