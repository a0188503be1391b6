------------------------- MODULE RecordStoreProofs -------------------------
(***************************************************************************)
(* What the calls of the replacing store (RecordStore) do to the record of *)
(* an ID, to what a crash of the host may put in its place, and to the     *)
(* records of the other IDs.  The proofs about the runtimes that keep      *)
(* their journals in this store cite these lemmas and expand no call.      *)
(***************************************************************************)
EXTENDS RecordStore, TLAPS

(* The files that hold a record of the set J.                              *)
FilesOf(J) == [record : J, names : {1, 2}]

(* The type of the store, for records of the set J.                        *)
StoreTyped(J) ==
  /\ file \in [Ids -> FilesOf(J) \cup {None}]
  /\ undo \in [Ids -> SUBSET (FilesOf(J) \cup {None})]

(* The record of an ID is j, and no crash puts anything else there.        *)
Settled(id, j) == file[id] = Once(j) /\ undo[id] = {}

(* A step that adds nothing to what a crash may leave of an ID.            *)
Untouched(id) == file'[id] = file[id] /\ undo'[id] \subseteq undo[id]

-----------------------------------------------------------------------------
(* A file written under its final name only, or under both names, holds    *)
(* the record that was written (Once and Twice).                           *)
LEMMA OnceIsFile ==
  ASSUME NEW J, NEW j \in J
  PROVE  /\ Once(j) \in FilesOf(J)
         /\ Twice(j) \in FilesOf(J)
         /\ Once(j).record = j /\ Once(j).names = 1
         /\ Twice(j).record = j /\ Twice(j).names = 2
  BY DEF Once, Twice, FilesOf

(* A fresh store (StoreInit) is well-typed and empty.                      *)
LEMMA StoreInitLemma ==
  ASSUME NEW J, StoreInit
  PROVE  /\ StoreTyped(J)
         /\ \A id \in Ids : file[id] = None /\ undo[id] = {}
  BY DEF StoreInit, Nothing, StoreTyped

(* A call that did not reach the store touches no record.                  *)
LEMMA StoreUnchangedLemma ==
  ASSUME NEW J, StoreTyped(J), UNCHANGED storeVars
  PROVE  /\ StoreTyped(J)'
         /\ \A id \in Ids : Untouched(id)
  BY DEF storeVars, StoreTyped, Untouched

(* What is untouched can be left in no new state by a crash.               *)
LEMMA UntouchedOutcomes ==
  ASSUME NEW id, Untouched(id)
  PROVE  Outcomes(id)' \subseteq Outcomes(id)
  BY DEF Untouched, Outcomes

(* persist_new returned Ok: the ID was free, and its record is durable.    *)
LEMMA CreatedLemma ==
  ASSUME NEW J, StoreTyped(J), NEW id \in Ids, NEW j \in J, Created(id, j)
  PROVE  /\ StoreTyped(J)'
         /\ file[id] = None
         /\ Settled(id, j)'
         /\ \A x \in Ids \ {id} : Untouched(x)
  <1>1. Once(j) \in FilesOf(J)
    BY OnceIsFile
  <1> QED
    BY <1>1 DEF Created, Nothing, StoreTyped, Settled, Untouched

(* persist_new returned an error: of an ID that was in use it changed      *)
(* nothing, and of another one never.                                      *)
LEMMA CreateFailsLemma ==
  ASSUME NEW J, StoreTyped(J), NEW id \in Ids, NEW j \in J, CreateFails(id, j)
  PROVE  /\ StoreTyped(J)'
         /\ \A x \in Ids \ {id} : Untouched(x)
         /\ file[id] = None \/ Untouched(id)
         /\ Outcomes(id)' \subseteq Outcomes(id) \cup {None, Once(j), Twice(j)}
  <1>1. Once(j) \in FilesOf(J) /\ Twice(j) \in FilesOf(J)
    BY OnceIsFile
  <1>2. CASE UNCHANGED storeVars
    BY <1>2, StoreUnchangedLemma, UntouchedOutcomes
  <1>3. CASE /\ file[id] = None
             /\ file' = [file EXCEPT ![id] = Twice(j)]
             /\ undo' = [undo EXCEPT ![id] = @ \cup {None}]
    BY <1>1, <1>3 DEF StoreTyped, Untouched, Outcomes
  <1>4. CASE /\ file[id] = None
             /\ file' = [file EXCEPT ![id] = Once(j)]
             /\ undo' = [undo EXCEPT ![id] = @ \cup {None, Twice(j)}]
    BY <1>1, <1>4 DEF StoreTyped, Untouched, Outcomes
  <1> QED
    BY <1>2, <1>3, <1>4 DEF CreateFails

(* persist returned Ok: the record is durable.                             *)
LEMMA ReplacedLemma ==
  ASSUME NEW J, StoreTyped(J), NEW id \in Ids, NEW j \in J, Replaced(id, j)
  PROVE  /\ StoreTyped(J)'
         /\ Settled(id, j)'
         /\ Loadable(id)
         /\ \A x \in Ids \ {id} : Untouched(x)
  <1>1. Once(j) \in FilesOf(J)
    BY OnceIsFile
  <1> QED
    BY <1>1 DEF Replaced, Nothing, StoreTyped, Settled, Untouched

(* persist returned an error: a crash leaves what was there or the record, *)
(* and without a crash it is one of the two.                               *)
LEMMA ReplaceFailsLemma ==
  ASSUME NEW J, StoreTyped(J), NEW id \in Ids, NEW j \in J,
         ReplaceFails(id, j)
  PROVE  /\ StoreTyped(J)'
         /\ \A x \in Ids \ {id} : Untouched(x)
         /\ Outcomes(id)' \subseteq Outcomes(id) \cup {Once(j)}
         /\ Untouched(id) \/ (Loadable(id) /\ file'[id] = Once(j))
  <1>1. Once(j) \in FilesOf(J)
    BY OnceIsFile
  <1>2. CASE UNCHANGED storeVars
    BY <1>2, StoreUnchangedLemma, UntouchedOutcomes
  <1>3. CASE /\ Loadable(id)
             /\ file' = [file EXCEPT ![id] = Once(j)]
             /\ undo' = [undo EXCEPT ![id] = (@ \cup {file[id]}) \ {Once(j)}]
    BY <1>1, <1>3 DEF StoreTyped, Untouched, Outcomes
  <1> QED
    BY <1>2, <1>3 DEF ReplaceFails

(* A crash of the host leaves one of the outcomes, and that one for good.  *)
LEMMA StoreCrashLemma ==
  ASSUME NEW J, StoreTyped(J), StoreCrash
  PROVE  /\ StoreTyped(J)'
         /\ \A id \in Ids : /\ Outcomes(id)' \subseteq Outcomes(id)
                            /\ undo'[id] = {}
                            /\ file'[id] \in Outcomes(id)
  <1>1. PICK f \in [Ids -> UNION {Outcomes(id) : id \in Ids}] :
          /\ \A id \in Ids : f[id] \in Outcomes(id)
          /\ file' = f
    BY DEF StoreCrash
  <1>2. \A id \in Ids : Outcomes(id) \subseteq FilesOf(J) \cup {None}
    BY DEF StoreTyped, Outcomes
  <1>3. undo' = [id \in Ids |-> {}]
    BY DEF StoreCrash, Nothing
  <1>4. \A id \in Ids : file'[id] \in Outcomes(id)
    BY <1>1
  <1>5. file' \in [Ids -> FilesOf(J) \cup {None}]
    BY <1>1, <1>2, <1>4
  <1> QED
    BY <1>3, <1>4, <1>5 DEF StoreTyped, Outcomes

(* A settled record is the only outcome.                                   *)
LEMMA SettledOutcome ==
  ASSUME NEW id, NEW j, Settled(id, j)
  PROVE  Outcomes(id) = {Once(j)}
  BY DEF Settled, Outcomes

(* A settled record stays settled until somebody writes to its ID.         *)
LEMMA SettledStays ==
  ASSUME NEW id, NEW j, Settled(id, j), Untouched(id)
  PROVE  Settled(id, j)'
  BY DEF Settled, Untouched

(* Nor does a crash of the host take it away.                              *)
LEMMA SettledCrash ==
  ASSUME NEW J, StoreTyped(J), StoreCrash, NEW id \in Ids, NEW j, Settled(id, j)
  PROVE  Settled(id, j)'
  BY StoreCrashLemma DEF Settled, Outcomes
=============================================================================
