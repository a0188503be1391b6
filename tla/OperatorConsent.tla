--------------------------- MODULE OperatorConsent ---------------------------
(***************************************************************************)
(* The consent of the operator: a small file that names one activation and *)
(* repeats a phrase.  A run reads it once, keeps the file open as a lease, *)
(* and looks again in front of every process.                              *)
(*                                                                         *)
(* A file is [inode, private, doc]: `private` when root owns it with mode  *)
(* 0600 and one link, in a directory only root may write to.  The receipt  *)
(* names what was read: the inode and the digest of the contents.          *)
(***************************************************************************)
EXTENDS SharedHost

\* activation_id digests the intent, the manifest and the profile.
ActivationOf(intent, manifest) == [intent |-> intent, manifest |-> manifest]

ConsentDocument(activation) == [activation |-> activation, phrase |-> TRUE]

\* verify_..._production_mutation_consent
ConsentVerified(file, activation) ==
  /\ file # None /\ file.private
  /\ file.doc = ConsentDocument(activation)

\* record_operator_production_mutation_consent: a new file, synced, then
\* published under the name of the activation.
ConsentRecord(activation) ==
  [inode |-> 1, private |-> TRUE, doc |-> ConsentDocument(activation)]

\* The file an operator may have left at the fixed path: for this activation,
\* for another one, without the phrase, readable by others, or none.
ConsentDrafts(activation) ==
  {ConsentRecord(activation), [ConsentRecord(activation) EXCEPT !.private = FALSE],
   [ConsentRecord(activation) EXCEPT !.doc.phrase = FALSE], ConsentRecord(None), None}

\* revalidate_pinned_production_mutation_consent: the path still names the
\* file that is held open, with the same contents.
LeaseHolds(lease, file, activation) ==
  ConsentVerified(file, activation) /\ file = lease

\* The operator, or somebody with his rights, changes his mind: removes the
\* file, writes it again, or opens it to others.
ConsentChanges(file) ==
  {None, [file EXCEPT !.inode = @ + 1], [file EXCEPT !.private = FALSE]}
=============================================================================
