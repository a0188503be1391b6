---------------------------- MODULE ReplaceStore ----------------------------
(***************************************************************************)
(* ProductionCreateRuntimeJournalStore (production_create_journal.rs) on   *)
(* its directory: persist_new links a temporary file to the name of the    *)
(* record and removes the temporary name, persist renames a temporary file *)
(* over the record, and both sync the directory last.  Each step may fail, *)
(* or be the last one before the process is killed or the host goes down.  *)
(* The stores of the mount and persistent journals are the same code.      *)
(*                                                                         *)
(* One process writes at a time, the one that holds the host storage lock, *)
(* or the one whose consent is in place.                                   *)
(***************************************************************************)
EXTENDS Naturals, Sequences, FiniteSets

CONSTANTS
  None,
  Ids,
  Records,   \* states of a journal
  MaxCalls   \* bound on the number of calls

ASSUME ReplaceAssumption == MaxCalls \in Nat \ {0}

(* What a reader finds of an ID, all IDs with what a crash may put in      *)
(* their place, and a call.                                                *)
Entries == [record : Records, names : {1, 2}]
Views   == [file : [Ids -> Entries \cup {None}],
            undo : [Ids -> SUBSET (Entries \cup {None})]]
Calls   == [id : Ids, record : Records, replace : BOOLEAN, number : Nat,
            base : Views,
            step : {"create", "write", "link", "unlink", "rename", "sync"}]

ASSUME NoneAssumption == None \notin Entries \cup Calls

VARIABLES
  log,       \* directory states since the last fsync, the current one last
  call,      \* the call in progress, or None
  calls,     \* number of calls begun: names the temporary files
  allowed    \* ID -> the records a reader may find after an Ok (history)

vars == <<log, call, calls, allowed>>

Final(id)   == [kind |-> "final", id |-> id, call |-> 0]
Temp(id, n) == [kind |-> "temp", id |-> id, call |-> n]

(* A directory maps names to inodes; an inode is known by the call that    *)
(* created it.  Its record is None while it is written.                    *)
dir == log[Len(log)]

With(d, name, inode) ==
  [x \in DOMAIN d \cup {name} |-> IF x = name THEN inode ELSE d[x]]

Without(d, name) == [x \in DOMAIN d \ {name} |-> d[x]]

Names(d, inode) == Cardinality({x \in DOMAIN d : d[x] = inode})

Entry(d, id) ==
  IF Final(id) \in DOMAIN d
  THEN [record |-> d[Final(id)].record, names |-> Names(d, d[Final(id)])]
  ELSE None

Loadable(id) == Entry(dir, id) # None /\ Entry(dir, id).names = 1

(* The abstract state, RecordStore: during a call, the one it began in.    *)
View ==
  [file |-> [id \in Ids |-> Entry(dir, id)],
   undo |-> [id \in Ids |->
              {Entry(log[i], id) : i \in DOMAIN log} \ {Entry(dir, id)}]]

Seen == IF call = None THEN View ELSE call.base

-----------------------------------------------------------------------------
Init ==
  /\ log = << <<>> >>
  /\ call = None
  /\ calls = 0
  /\ allowed = [id \in Ids |-> {}]

At(step) == call # None /\ call.step = step

Goto(step) == call' = [call EXCEPT !.step = step]

MyTemp == Temp(call.id, call.number)

Called(id, r, replace) ==
  /\ call = None
  /\ calls < MaxCalls
  /\ calls' = calls + 1
  /\ call' = [id |-> id, record |-> r, replace |-> replace,
              number |-> calls', base |-> View, step |-> "create"]
  /\ allowed' = [allowed EXCEPT ![id] = IF @ = {} THEN {} ELSE @ \cup {r}]
  /\ UNCHANGED log

(* persist_new: AlreadyExists when something has the name.                 *)
PersistNew(id, r) ==
  /\ Final(id) \notin DOMAIN dir
  /\ Called(id, r, FALSE)

(* persist: the record must be a file with one name; it is not read.       *)
Persist(id, r) ==
  /\ Loadable(id)
  /\ Called(id, r, TRUE)

CreateTemp ==
  /\ At("create")
  /\ log' = Append(log, With(dir, MyTemp, [call |-> call.number,
                                           record |-> None]))
  /\ Goto("write")
  /\ UNCHANGED <<calls, allowed>>

(* write_all and sync_all: the inode holds the record in every state of    *)
(* the directory that names it.                                            *)
WriteTemp ==
  /\ At("write")
  /\ log' = [i \in DOMAIN log |->
               IF MyTemp \in DOMAIN log[i]
               THEN [log[i] EXCEPT ![MyTemp].record = call.record]
               ELSE log[i]]
  /\ Goto(IF call.replace THEN "rename" ELSE "link")
  /\ UNCHANGED <<calls, allowed>>

(* hard_link fails with AlreadyExists when something has the name.         *)
LinkFinal ==
  /\ At("link")
  /\ Final(call.id) \notin DOMAIN dir
  /\ log' = Append(log, With(dir, Final(call.id), dir[MyTemp]))
  /\ Goto("unlink")
  /\ UNCHANGED <<calls, allowed>>

(* Faulty form: the temporary name is left to a later clean-up.            *)
UnlinkTempLater ==
  /\ At("unlink")
  /\ Goto("sync")
  /\ UNCHANGED <<log, calls, allowed>>

UnlinkTemp ==
  /\ At("unlink")
  /\ log' = Append(log, Without(dir, MyTemp))
  /\ Goto("sync")
  /\ UNCHANGED <<calls, allowed>>

RenameOver ==
  /\ At("rename")
  /\ log' = Append(log, With(Without(dir, MyTemp), Final(call.id),
                             dir[MyTemp]))
  /\ Goto("sync")
  /\ UNCHANGED <<calls, allowed>>

(* Faulty form: the call returns without the fsync of the directory.       *)
SyncDirectorySkipped ==
  /\ At("sync")
  /\ allowed' = [allowed EXCEPT ![call.id] = {call.record}]
  /\ call' = None
  /\ UNCHANGED <<log, calls>>

(* The last step: the call returns Ok.                                     *)
SyncDirectory ==
  /\ At("sync")
  /\ log' = <<dir>>
  /\ allowed' = [allowed EXCEPT ![call.id] = {call.record}]
  /\ call' = None
  /\ UNCHANGED calls

(* Any step fails: the temporary name is removed, if that does not fail    *)
(* too.                                                                    *)
CallFails ==
  /\ call # None
  /\ \/ UNCHANGED log
     \/ /\ MyTemp \in DOMAIN dir
        /\ log' = Append(log, Without(dir, MyTemp))
  /\ call' = None
  /\ UNCHANGED <<calls, allowed>>

(* A call that is interrupted by a crash has failed.                       *)
HostCrash ==
  /\ call = None
  /\ \E i \in DOMAIN log : log' = <<log[i]>>
  /\ UNCHANGED <<call, calls, allowed>>

Next ==
  \/ \E id \in Ids, r \in Records : PersistNew(id, r) \/ Persist(id, r)
  \/ CreateTemp \/ WriteTemp \/ LinkFinal \/ UnlinkTemp \/ RenameOver
  \/ SyncDirectory \/ CallFails \/ HostCrash

Spec == Init /\ [][Next]_vars

-----------------------------------------------------------------------------
(* After a call that returned Ok, and whatever the disk keeps of the       *)
(* changes since the last fsync, load finds that record, complete and with *)
(* one name, or one a later call was asked to write: a journal that was    *)
(* persisted can neither go back nor become unreadable.                    *)
AcknowledgedLoads ==
  \A id \in Ids : allowed[id] # {} =>
    \A i \in DOMAIN log :
      LET entry == Entry(log[i], id)
      IN  /\ entry # None
          /\ entry.names = 1
          /\ entry.record \in allowed[id]

(* At the granularity of calls the directory behaves as RecordStore says,  *)
(* with everything a failed call or a crash may leave.                     *)
Abs == INSTANCE RecordStore WITH file <- Seen.file, undo <- Seen.undo

AbsNext ==
  \/ \E id \in Ids, r \in Records :
       \/ Abs!Created(id, r) \/ Abs!CreateFails(id, r)
       \/ Abs!Replaced(id, r) \/ Abs!ReplaceFails(id, r)
  \/ Abs!StoreCrash

ImplementsRecordStore == Abs!StoreInit /\ [][AbsNext]_(Abs!storeVars)
=============================================================================
