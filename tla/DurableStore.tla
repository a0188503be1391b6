---------------------------- MODULE DurableStore ----------------------------
(***************************************************************************)
(* What DurableJournalStore promises to a session: the directory of        *)
(* journals seen at the granularity of one persist call.  A call succeeds, *)
(* or fails at any of its steps; it never cleans up, so a failed call      *)
(* leaves a staging file that makes every later all() fail, or leaves the  *)
(* new state in place although the caller was told it is not.              *)
(*                                                                         *)
(* A host crash may undo the changes of the directory that were not        *)
(* followed by an fsync of the directory: at most a rename that a call     *)
(* reported as failed and the staging file of the call after it.           *)
(***************************************************************************)
EXTENDS OperationJournal

VARIABLES
  record,     \* the files <id>.json: journal ID -> journal
  previous,   \* the state the last update of an ID displaced
  staged,     \* IDs with a staging file that holds (part of) a new state
  displaced,  \* IDs whose staging file holds previous[id]
  created,    \* IDs whose staging file is not known to be durable
  unsynced    \* IDs whose last rename is not known to be durable

storeVars == <<record, previous, staged, displaced, created, unsynced>>

StoreInit ==
  /\ record = <<>>
  /\ previous = <<>>
  /\ staged = {}
  /\ displaced = {}
  /\ created = {}
  /\ unsynced = {}

With(f, id, v) ==
  [x \in DOMAIN f \cup {id} |-> IF x = id THEN v ELSE f[x]]

Without(f, ids) == [x \in DOMAIN f \ ids |-> f[x]]

Exists(id) == id \in DOMAIN record

(* all() accepts a directory only without staging files.                   *)
AllReadable == staged = {} /\ displaced = {}

-----------------------------------------------------------------------------
(* persist_new(k): the staging file is renamed without replacement.        *)

NewStored(k) ==
  /\ ~Exists(k.id)
  /\ record' = With(record, k.id, k)
  /\ created' = {} /\ unsynced' = {}
  /\ UNCHANGED <<previous, staged, displaced>>

(* The rename happened, the fsync after it or a check did not.             *)
NewUnsynced(k) ==
  /\ ~Exists(k.id)
  /\ record' = With(record, k.id, k)
  /\ created' = {} /\ unsynced' = {k.id}
  /\ UNCHANGED <<previous, staged, displaced>>

(* An error after the staging file was created and before the rename took  *)
(* effect, AlreadyExists included: the staging file stays.                 *)
StagingLeft(k) ==
  /\ staged' = staged \cup {k.id}
  /\ \/ created' = created \cup {k.id} /\ unsynced' = unsynced
     \/ created' = {} /\ unsynced' = {}
  /\ UNCHANGED <<record, previous, displaced>>

NewFails(k) == NewUnsynced(k) \/ StagingLeft(k) \/ UNCHANGED storeVars

-----------------------------------------------------------------------------
(* persist_if_matches(expected, k): staging file, exchange with <id>.json, *)
(* fsync, rename of the displaced state to its history name, fsync.        *)

Matches(expected, k) ==
  /\ Exists(k.id)
  /\ record[k.id] = expected

Exchange(k) ==
  /\ record' = With(record, k.id, k)
  /\ previous' = With(previous, k.id, record[k.id])

UpdateStored(expected, k) ==
  /\ Matches(expected, k)
  /\ Exchange(k)
  /\ created' = {} /\ unsynced' = {}
  /\ UNCHANGED <<staged, displaced>>

(* An error after the exchange and before the archive rename.              *)
UpdateDisplaced(expected, k) ==
  /\ Matches(expected, k)
  /\ Exchange(k)
  /\ displaced' = displaced \cup {k.id}
  /\ created' = {} /\ unsynced' \in {{}, {k.id}}
  /\ UNCHANGED staged

(* An error after the archive rename.                                      *)
UpdateArchived(expected, k) ==
  /\ Matches(expected, k)
  /\ Exchange(k)
  /\ created' = {} /\ unsynced' \in {{}, {k.id}}
  /\ UNCHANGED <<staged, displaced>>

UpdateFails(expected, k) ==
  \/ UNCHANGED storeVars
  \/ Matches(expected, k) /\ StagingLeft(k)
  \/ UpdateDisplaced(expected, k)
  \/ UpdateArchived(expected, k)

-----------------------------------------------------------------------------
(* A host crash.  The creation of the staging files in "gone" is undone,   *)
(* and for the IDs in "lost" the last rename: the exchange, the one that   *)
(* named a new record, or the one to the history name.                     *)
LoseUnsynced(gone, lost) ==
  LET exchanged == lost \cap displaced
      published == (lost \ displaced) \ DOMAIN previous
      archived  == (lost \ displaced) \cap DOMAIN previous
  IN  /\ record' = [x \in DOMAIN record \ published |->
                      IF x \in exchanged THEN previous[x] ELSE record[x]]
      /\ previous' = Without(previous, exchanged)
      /\ staged' = (staged \ gone) \cup exchanged \cup published
      /\ displaced' = (displaced \ exchanged) \cup archived
      /\ created' = {} /\ unsynced' = {}

StoreCrash ==
  \E gone \in SUBSET created, lost \in SUBSET unsynced :
    LoseUnsynced(gone, lost)
=============================================================================
