---------------------------- MODULE MountRuntime ----------------------------
(***************************************************************************)
(* The second half of production_create_loop_harness.rs: a completed       *)
(* filesystem is mounted (production_create_mount_exec.rs) and its line is *)
(* added to fstab (production_create_persistent_config.rs), each under a   *)
(* journal of its own.  The invocation may fail or be killed at any step,  *)
(* the host may go down, and meanwhile the operator mounts, unmounts and   *)
(* edits fstab.                                                            *)
(*                                                                         *)
(* The flags of both journals follow from the phase, or validate_journal   *)
(* refuses them: a record is a phase here.                                 *)
(***************************************************************************)
EXTENDS RecordStore, Naturals, Sequences

CONSTANTS
  Mount, Config,  \* the IDs of the two journals
  Ours,           \* the line the program adds to fstab
  Rival,          \* any other line for that source or mountpoint
  Notes,          \* lines about something else
  MaxEdits        \* bound on what the operator does

ASSUME MountAssumption ==
  /\ Ids = {Mount, Config} /\ Mount # Config /\ None \notin Ids
  /\ Ours # Rival /\ {Ours, Rival} \cap Notes = {}
  /\ MaxEdits \in Nat

VARIABLES
  pc,
  mem,       \* ID -> the journal in memory, or None
  mounted,   \* at the mountpoint: "none", "ours", "other"
  tool,      \* the mount process: "none", "running", "ok", "failed"
  etc,       \* fstab since the last fsync of its directory, newest last
  temp,      \* the new fstab beside it, or None
  first,     \* fstab as the invocation found it
  before,    \* fstab as the update read it
  backup,    \* the version of fstab in it, or None
  unsaved,   \* what a crash may put in the place of the backup
  edits,
  typed,     \* the lines of the operator's last version (history)
  edited,    \* ... which is younger than the program's (history)
  raced,     \* ... between the last look at fstab and the rename (history)
  spawned,   \* the mount process was started (history)
  renamed    \* the new fstab took its place (history)

procVars   == <<pc, mem, first, before>>
hostVars   == <<mounted, tool, spawned>>
etcVars    == <<etc, temp, renamed>>
backupVars == <<backup, unsaved>>
editVars   == <<edits, typed, edited, raced>>
vars == <<storeVars, procVars, hostVars, etcVars, backupVars, editVars>>

Lines == {Ours, Rival} \cup Notes

(* A version of the file: its lines, and whether its data is on disk.      *)
Version(lines, synced) == [lines |-> lines, synced |-> synced]

fstab == etc[Len(etc)].lines

Versions == [lines : SUBSET Lines, synced : BOOLEAN]

-----------------------------------------------------------------------------
(* Control state before a transition -> its journal and phase, where it    *)
(* goes from there, and where it goes when the transition was not recorded.*)
Step(id, from, phase, next, failed) ==
  [id |-> id, from |-> from, phase |-> phase, next |-> next,
   failed |-> failed]

Transitions ==
  [mount_begin    |-> Step(Mount, {"Prepared"}, "Mounting",
                           "mount", "stopped"),
   mount_ran      |-> Step(Mount, {"Mounting"}, "MountedAwaitingVerification",
                           "discover", "mount_recover"),
   mount_verified |-> Step(Mount, {"MountedAwaitingVerification"}, "Completed",
                           "compare", "mount_recover"),
   mount_recover  |-> Step(Mount, {"Mounting", "MountedAwaitingVerification"},
                           "RecoveryRequired", "stopped", "unrecorded"),
   update_begin   |-> Step(Config, {"Prepared"}, "UpdatingFstab",
                           "temp", "stopped"),
   update_written |-> Step(Config, {"UpdatingFstab"},
                           "FstabWrittenAwaitingVerification",
                           "read_back", "update_recover"),
   update_verified |-> Step(Config, {"FstabWrittenAwaitingVerification"},
                            "Completed", "receipt", "update_recover"),
   update_recover |-> Step(Config, {"UpdatingFstab",
                                    "FstabWrittenAwaitingVerification"},
                           "RecoveryRequired", "stopped", "unrecorded")]

Phases == {"Prepared"} \cup {Transitions[x].phase : x \in DOMAIN Transitions}

(* None stands for the absence of a record, of a file and of a version.    *)
ASSUME NoneAssumption ==
  None \notin Phases \cup [record : Phases, names : {1, 2}] \cup Versions

(* verify_mounted_snapshot on a fresh discovery.                           *)
MountedAlone == mounted = "ours" /\ {Ours, Rival} \cap fstab = {}

(* The same with the line: exactly one, and no other for its place.        *)
MountedWithLine == mounted = "ours" /\ {Ours, Rival} \cap fstab = {Ours}

(* Fresh discovery before the mount: nothing there, and no line for it.    *)
Unused == mounted = "none" /\ {Ours, Rival} \cap fstab = {}

(* A control state that only looks -> what it must see, where it goes, and *)
(* where it goes otherwise.                                                *)
Look(sees, next, failed) == [sees |-> sees, next |-> next, failed |-> failed]

Looks ==
  [activate    |-> Look(Unused, "preflight", "stopped"),
   preflight   |-> Look(Unused, "mount_new", "stopped"),
   mount_check |-> Look(Loads(Mount, mem[Mount]) /\ Unused,
                        "mount_begin", "stopped"),
   discover    |-> Look(MountedAlone, "mount_verified", "mount_recover"),
   compare     |-> Look(fstab = first, "look_live", "stopped"),
   look_live   |-> Look(MountedAlone, "update_new", "stopped"),
   update_check |-> Look(/\ Loads(Mount, mem[Mount])
                         /\ Loads(Config, mem[Config]),
                         "look_alone", "stopped"),
   look_alone  |-> Look(MountedAlone, "read", "stopped"),
   read_back   |-> Look(fstab = before \cup {Ours}, "look_line",
                        "update_recover"),
   look_line   |-> Look(MountedWithLine, "update_verified", "update_recover"),
   receipt     |-> Look(fstab = before \cup {Ours}, "look_again", "stopped"),
   look_again  |-> Look(MountedWithLine, "reload", "stopped"),
   reload      |-> Look(/\ Loads(Mount, mem[Mount])
                        /\ Loads(Config, mem[Config]),
                        "done", "stopped")]

-----------------------------------------------------------------------------
Init ==
  /\ StoreInit
  /\ pc = "activate"
  /\ mem = [id \in Ids |-> None]
  /\ mounted = "none" /\ tool = "none" /\ spawned = FALSE
  /\ \E lines \in SUBSET Notes :
       /\ etc = <<Version(lines, TRUE)>>
       /\ first = lines /\ typed = lines
  /\ temp = None /\ renamed = FALSE
  /\ before = {}
  /\ backup = None /\ unsaved = {}
  /\ edits = 0 /\ edited = FALSE /\ raced = FALSE

Goto(from, to) == pc = from /\ pc' = to

LookAndGo ==
  /\ pc \in DOMAIN Looks
  /\ Looks[pc].sees
  /\ pc' = Looks[pc].next
  /\ UNCHANGED <<storeVars, mem, first, before, hostVars, etcVars, backupVars,
                 editVars>>

(* It sees something else, or it cannot look.                              *)
LookFails ==
  /\ pc \in DOMAIN Looks
  /\ pc' = Looks[pc].failed
  /\ UNCHANGED <<storeVars, mem, first, before, hostVars, etcVars, backupVars,
                 editVars>>

-----------------------------------------------------------------------------
(* The journals.                                                           *)

NewJournals == [mount_new |-> Mount, update_new |-> Config]
Checks == [mount_new |-> "mount_check", update_new |-> "update_check"]

PersistNew ==
  /\ pc \in DOMAIN NewJournals
  /\ Created(NewJournals[pc], "Prepared")
  /\ mem' = [mem EXCEPT ![NewJournals[pc]] = "Prepared"]
  /\ pc' = Checks[pc]
  /\ UNCHANGED <<first, before, hostVars, etcVars, backupVars, editVars>>

PersistNewFails ==
  /\ pc \in DOMAIN NewJournals
  /\ CreateFails(NewJournals[pc], "Prepared")
  /\ pc' = "stopped"
  /\ UNCHANGED <<mem, first, before, hostVars, etcVars, backupVars, editVars>>

Transition ==
  /\ pc \in DOMAIN Transitions
  /\ LET t == Transitions[pc]
     IN  /\ mem[t.id] \in t.from
         /\ Replaced(t.id, t.phase)
         /\ mem' = [mem EXCEPT ![t.id] = t.phase]
         /\ pc' = t.next
  /\ UNCHANGED <<first, before, hostVars, etcVars, backupVars, editVars>>

(* Faulty form: the error is returned at once.                             *)
TransitionFailsAtOnce ==
  /\ pc \in DOMAIN Transitions
  /\ LET t == Transitions[pc]
     IN  ReplaceFails(t.id, t.phase)
  /\ pc' = "stopped"
  /\ UNCHANGED <<mem, first, before, hostVars, etcVars, backupVars, editVars>>

(* Past the boundary the recovery is recorded then, over what the failed   *)
(* call may have left.                                                     *)
TransitionFails ==
  /\ pc \in DOMAIN Transitions
  /\ LET t == Transitions[pc]
     IN  /\ ReplaceFails(t.id, t.phase)
         /\ pc' = t.failed
  /\ UNCHANGED <<mem, first, before, hostVars, etcVars, backupVars, editVars>>

-----------------------------------------------------------------------------
(* The mount.                                                              *)

Spawn ==
  /\ Goto("mount", "await")
  /\ tool' = "running"
  /\ spawned' = TRUE
  /\ UNCHANGED <<storeVars, mem, first, before, mounted, etcVars, backupVars,
                 editVars>>

SpawnFails ==
  /\ Goto("mount", "mount_recover")
  /\ UNCHANGED <<storeVars, mem, first, before, hostVars, etcVars, backupVars,
                 editVars>>

(* Its output may not be readable although it succeeded.                   *)
Await ==
  /\ pc = "await"
  /\ tool \in {"ok", "failed"}
  /\ \/ tool = "ok" /\ pc' = "mount_ran"
     \/ pc' = "mount_recover"
  /\ tool' = "none"
  /\ UNCHANGED <<storeVars, mem, first, before, mounted, spawned, etcVars,
                 backupVars, editVars>>

-----------------------------------------------------------------------------
(* The update of fstab.                                                    *)

(* read_safe_regular, and append_exact_fstab_entry without a conflict.     *)
ReadFstab ==
  /\ Goto("read", "backup")
  /\ {Ours, Rival} \cap fstab = {}
  /\ before' = fstab
  /\ UNCHANGED <<storeVars, mem, first, hostVars, etcVars, backupVars,
                 editVars>>

CreateBackup ==
  /\ Goto("backup", "backup_write")
  /\ backup = None
  /\ backup' = Version({}, FALSE)
  /\ unsaved' = {None}
  /\ UNCHANGED <<storeVars, mem, first, before, hostVars, etcVars, editVars>>

(* write_all and sync_all of the file: only its name can be lost.          *)
WriteBackup ==
  /\ Goto("backup_write", "backup_sync")
  /\ backup' = Version(before, TRUE)
  /\ UNCHANGED <<storeVars, mem, first, before, unsaved, hostVars, etcVars,
                 editVars>>

SyncBackup ==
  /\ Goto("backup_sync", "update_begin")
  /\ unsaved' = {}
  /\ UNCHANGED <<storeVars, mem, first, before, backup, hostVars, etcVars,
                 editVars>>

(* Faulty form: the new file is renamed before its data is on disk.        *)
WriteTempUnsynced ==
  /\ Goto("temp", "recheck")
  /\ temp' = Version(before \cup {Ours}, FALSE)
  /\ UNCHANGED <<storeVars, mem, first, before, hostVars, etc, renamed,
                 backupVars, editVars>>

WriteTemp ==
  /\ Goto("temp", "recheck")
  /\ temp' = Version(before \cup {Ours}, TRUE)
  /\ UNCHANGED <<storeVars, mem, first, before, hostVars, etc, renamed,
                 backupVars, editVars>>

(* Faulty form: fstab is not read again.                                   *)
RecheckNothing ==
  /\ Goto("recheck", "rename")
  /\ UNCHANGED <<storeVars, mem, first, before, hostVars, etcVars, backupVars,
                 editVars>>

(* The same file with the same contents.                                   *)
Recheck ==
  /\ Goto("recheck", "rename")
  /\ fstab = before
  /\ UNCHANGED <<storeVars, mem, first, before, hostVars, etcVars, backupVars,
                 editVars>>

Rename ==
  /\ Goto("rename", "sync")
  /\ etc' = Append(etc, temp)
  /\ temp' = None
  /\ renamed' = TRUE
  /\ edited' = FALSE
  /\ UNCHANGED <<storeVars, mem, first, before, hostVars, backupVars, edits,
                 typed, raced>>

(* Faulty form: the rename is taken to be durable.                         *)
SyncEtcSkipped ==
  /\ Goto("sync", "update_written")
  /\ UNCHANGED <<storeVars, mem, first, before, hostVars, etcVars, backupVars,
                 editVars>>

SyncEtc ==
  /\ Goto("sync", "update_written")
  /\ etc' = <<etc[Len(etc)]>>
  /\ UNCHANGED <<storeVars, mem, first, before, hostVars, temp, renamed,
                 backupVars, editVars>>

(* A partial backup stays; past the boundary the recovery is recorded.     *)
UpdateFails ==
  /\ \/ /\ pc \in {"read", "backup", "backup_write", "backup_sync"}
        /\ pc' = "stopped"
     \/ /\ pc \in {"temp", "recheck", "rename", "sync"}
        /\ pc' = "update_recover"
  /\ temp' = None
  /\ UNCHANGED <<storeVars, mem, first, before, hostVars, etc, renamed,
                 backupVars, editVars>>

-----------------------------------------------------------------------------
(* The world around.                                                       *)

Ended == {"done", "stopped", "unrecorded", "killed"}

(* A write that was on its way may be on disk.                             *)
InFlight ==
  \/ pc \in DOMAIN NewJournals /\ CreateFails(NewJournals[pc], "Prepared")
  \/ /\ pc \in DOMAIN Transitions
     /\ ReplaceFails(Transitions[pc].id, Transitions[pc].phase)
  \/ /\ pc \notin DOMAIN NewJournals \cup DOMAIN Transitions
     /\ UNCHANGED storeVars

(* SIGKILL: a mount process runs on.                                       *)
Kill ==
  /\ pc \notin Ended
  /\ InFlight
  /\ pc' = "killed"
  /\ UNCHANGED <<mem, first, before, hostVars, etcVars, backupVars, editVars>>

(* mount goes over whatever is there; exit status 0 proves nothing.        *)
ToolExits ==
  /\ tool = "running"
  /\ \E status \in {"ok", "failed"} :
       tool' = IF pc = "await" THEN status ELSE "none"
  /\ mounted' \in {mounted, IF mounted = "none" THEN "ours" ELSE "other"}
  /\ UNCHANGED <<storeVars, procVars, spawned, etcVars, backupVars, editVars>>

(* Everything that was synced is there, of the rest anything.  After the   *)
(* boot the mounts are those of fstab.                                     *)
HostCrash ==
  /\ StoreCrash
  /\ pc' = IF pc \in Ended THEN pc ELSE "killed"
  /\ \E i \in DOMAIN etc : etc' = <<etc[i]>>
  /\ backup' \in {backup} \cup unsaved
  /\ unsaved' = {}
  /\ temp' = None
  /\ tool' = "none"
  /\ mounted' = "none"
  /\ UNCHANGED <<mem, first, before, renamed, spawned, editVars>>

(* An editor writes a new version, and syncs it.                           *)
EditFstab ==
  /\ edits < MaxEdits
  /\ \E lines \in (SUBSET Lines) \ {fstab} :
       /\ etc' = <<Version(lines, TRUE)>>
       /\ typed' = lines
  /\ edits' = edits + 1
  /\ edited' = TRUE
  /\ raced' = (pc = "rename")
  /\ UNCHANGED <<storeVars, procVars, hostVars, temp, renamed, backupVars>>

OperatorMounts ==
  /\ edits < MaxEdits
  /\ mounted' \in {"none", "ours", "other"} \ {mounted}
  /\ edits' = edits + 1
  /\ UNCHANGED <<storeVars, procVars, tool, spawned, etcVars, backupVars,
                 typed, edited, raced>>

-----------------------------------------------------------------------------
Next ==
  \/ LookAndGo \/ LookFails
  \/ PersistNew \/ PersistNewFails \/ Transition \/ TransitionFails
  \/ Spawn \/ SpawnFails \/ Await
  \/ ReadFstab \/ CreateBackup \/ WriteBackup \/ SyncBackup
  \/ WriteTemp \/ Recheck \/ Rename \/ SyncEtc \/ UpdateFails
  \/ Kill \/ ToolExits \/ HostCrash \/ EditFstab \/ OperatorMounts

Spec == Init /\ [][Next]_vars

-----------------------------------------------------------------------------
Recorded(id) ==
  \A outcome \in Outcomes(id) :
    outcome # None /\ outcome.names = 1 /\ outcome.record # "Prepared"

(* "fsync-persisted at Mounting before fexecve": once mount was started,   *)
(* whatever the disks keep says so.  Once fstab was replaced, they say     *)
(* that the mount was verified and the update begun, and the backup holds  *)
(* what fstab was.                                                         *)
WriteAhead ==
  /\ spawned => Recorded(Mount)
  /\ renamed =>
       /\ \A outcome \in Outcomes(Mount) : outcome.record = "Completed"
       /\ Recorded(Config)
       /\ {backup} \cup unsaved = {Version(before, TRUE)}

(* Nothing that has been fstab, or that a crash may make of it, is a file  *)
(* whose data is not on disk.                                              *)
FstabWhole == \A i \in DOMAIN etc : etc[i].synced

(* "Completion requires parse/readback": unless somebody has edited fstab  *)
(* since, a completed record, before or after a crash, means that fstab is *)
(* what the program read with its line, and no crash takes it back.        *)
CompletedDurable ==
  \A outcome \in Outcomes(Config) :
    (outcome # None /\ outcome.record = "Completed" /\ ~edited)
      => \A i \in DOMAIN etc : etc[i].lines = before \cup {Ours}

(* "Any ambiguous failure after BeginMount is forced into RecoveryRequired"*)
(* and the same for the update: an invocation that returns an error, other *)
(* than the one that says it could not, leaves that on record.             *)
AmbiguityRecorded ==
  pc = "stopped" =>
    /\ spawned => file[Mount].record \in {"Completed", "RecoveryRequired"}
    /\ renamed => file[Config].record \in {"Completed", "RecoveryRequired"}

(* The update takes nothing away from what the operator wrote last, even   *)
(* if the host crashes, unless the edit fell between Recheck and Rename.   *)
EditsSurvive ==
  ~raced => \A i \in DOMAIN etc : etc[i].lines \in {typed, typed \cup {Ours}}
=============================================================================
