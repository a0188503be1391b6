---------------------------- MODULE RecordStore ----------------------------
(***************************************************************************)
(* The store of the create, mount and persistent-configuration journals    *)
(* (production_create_journal.rs and its two siblings), seen at the        *)
(* granularity of one call.  Unlike DurableStore it replaces the record:   *)
(* nothing of the earlier state is kept.                                   *)
(*                                                                         *)
(* A file with two names is refused by load and persist for good: nothing  *)
(* in the program removes a name that an interrupted call left.            *)
(***************************************************************************)
CONSTANTS
  None,
  Ids       \* journal IDs: digests of everything a launch is bound to

VARIABLES
  file,    \* ID -> its record and number of names, or None
  undo     \* ID -> what a host crash may put in its place

storeVars == <<file, undo>>

Once(j)  == [record |-> j, names |-> 1]
Twice(j) == [record |-> j, names |-> 2]

Nothing == [id \in Ids |-> {}]

StoreInit ==
  /\ file = [id \in Ids |-> None]
  /\ undo = Nothing

Loadable(id)    == file[id] # None /\ file[id].names = 1
Loads(id, j)    == Loadable(id) /\ file[id].record = j

(* What the store may hold for an ID after a crash of the host now.        *)
Outcomes(id) == {file[id]} \cup undo[id]

-----------------------------------------------------------------------------
(* Faulty form: a record of the same ID is replaced.                       *)
CreatedOver(id, j) ==
  /\ file' = [file EXCEPT ![id] = Once(j)]
  /\ undo' = Nothing

(* persist_new returned Ok: the directory was synced.                      *)
Created(id, j) ==
  /\ file[id] = None
  /\ file' = [file EXCEPT ![id] = Once(j)]
  /\ undo' = Nothing

(* persist_new returned an error, or its process was killed: before the    *)
(* link, between the link and the removal of the other name, or after it.  *)
CreateFails(id, j) ==
  \/ UNCHANGED storeVars
  \/ /\ file[id] = None
     /\ file' = [file EXCEPT ![id] = Twice(j)]
     /\ undo' = [undo EXCEPT ![id] = @ \cup {None}]
  \/ /\ file[id] = None
     /\ file' = [file EXCEPT ![id] = Once(j)]
     /\ undo' = [undo EXCEPT ![id] = @ \cup {None, Twice(j)}]

(* Faulty form: the directory is not synced.                               *)
ReplacedUnsynced(id, j) ==
  /\ Loadable(id)
  /\ file' = [file EXCEPT ![id] = Once(j)]
  /\ undo' = [undo EXCEPT ![id] = (@ \cup {file[id]}) \ {Once(j)}]

(* persist returned Ok.                                                    *)
Replaced(id, j) ==
  /\ Loadable(id)
  /\ file' = [file EXCEPT ![id] = Once(j)]
  /\ undo' = Nothing

(* persist failed or was killed: before the rename or after it.            *)
ReplaceFails(id, j) ==
  \/ UNCHANGED storeVars
  \/ /\ Loadable(id)
     /\ file' = [file EXCEPT ![id] = Once(j)]
     /\ undo' = [undo EXCEPT ![id] = (@ \cup {file[id]}) \ {Once(j)}]

StoreCrash ==
  /\ \E f \in [Ids -> UNION {Outcomes(id) : id \in Ids}] :
       /\ \A id \in Ids : f[id] \in Outcomes(id)
       /\ file' = f
  /\ undo' = Nothing
=============================================================================
