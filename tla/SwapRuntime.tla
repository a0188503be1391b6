---------------------------- MODULE SwapRuntime ----------------------------
(***************************************************************************)
(* The swap migration: a swapfile takes over from a logical partition      *)
(* (production_swap_runtime_exec.rs), the partition's line in fstab is     *)
(* rewritten (production_swap_persistent_config.rs), and the partition is  *)
(* removed with its extended container                                     *)
(* (production_swap_partition_removal_exec.rs), all under one journal, in  *)
(* the order in which production_swap_loop_harness.rs calls them.          *)
(*                                                                         *)
(* Each transition of the journal, each storage tool and each check is a   *)
(* control state: the tables Transitions, Tools and Looks say what it does *)
(* and where it leads.  Consents, pinned tools and sealed values are not   *)
(* modelled: a check that reads them may refuse (LookFails).               *)
(***************************************************************************)
EXTENDS RecordStore, Naturals, Sequences

CONSTANTS
  Id,             \* the ID of the journal
  Old, New,       \* swap areas and fstab lines: the partition, the swapfile
  Rival,          \* another line of fstab for the same partition
  Notes,          \* lines about something else
  Part, Extended, \* the partition, and the container it is in
  Sibling,        \* another logical partition in the container
  MaxMeddles      \* bound on what the operator does

ASSUME SwapAssumption ==
  /\ Ids = {Id} /\ None \notin Ids
  /\ Old # New /\ Rival \notin {Old, New} /\ {Old, New, Rival} \cap Notes = {}
  /\ Part # Extended /\ Sibling \notin {Part, Extended}
  /\ MaxMeddles \in Nat

VARIABLES
  pc,
  mem,       \* the journal in memory, or None
  active,    \* the swap areas in use
  swapfile,  \* "none", "partial", "allocated", "formatted"
  named,     \* the name of the swapfile is on disk
  tool,      \* the storage tool that runs, or None
  started,   \* the tools that were ever started (history)
  etc,       \* fstab since the last fsync of its directory, newest last
  temp,      \* the new fstab beside it, or None
  same,      \* inode and length of fstab are still those the update read
  before,    \* fstab as the update read it
  backup,    \* the version of fstab in it, or None
  unsaved,   \* what a crash may put in the place of the backup
  table,     \* the partitions of the disk
  mapped,    \* those the kernel knows
  fresh,     \* the last dump of the table
  dump,      \* the table in the recovery dump, or None
  undumped,  \* what a crash may put in the place of the dump
  prepared,  \* a removal preflight is frozen
  meddles,
  meddled,   \* the operator changed swaps or lines about them (history)
  typed,     \* the lines of fstab, as the operator left them last (history)
  raced,     \* an edit the update could not see (history)
  sibling    \* "none", or created "early" or "late": after the last look
             \* of the invocation at the table (history)

procVars   == <<pc, mem, before, fresh, prepared>>
swapVars   == <<active, swapfile, named>>
toolVars   == <<tool, started>>
etcVars    == <<etc, temp, same>>
backupVars == <<backup, unsaved>>
tableVars  == <<table, mapped>>
dumpVars   == <<dump, undumped>>
opVars     == <<meddles, meddled, typed, raced, sibling>>
vars == <<storeVars, procVars, swapVars, toolVars, etcVars, backupVars,
          tableVars, dumpVars, opVars>>

Lines == {Old, New, Rival} \cup Notes
Retired == {Part, Extended}

(* A version of a file: its contents, and whether its data is on disk.     *)
Version(contents, synced) == [contents |-> contents, synced |-> synced]

fstab == etc[Len(etc)].contents

Versions == [contents : SUBSET Lines, synced : BOOLEAN]

(* rewrite_exact_swap_entry.                                               *)
Rewritten(lines) == (lines \ {Old}) \cup {New}

-----------------------------------------------------------------------------
(* The journal.  The flags are recomputed from the events: a phase adds to *)
(* them, and RecoveryRequired takes nothing away.                          *)

Fresh == [phase |-> "Prepared", config |-> FALSE, table |-> FALSE]

TablePhases  == {"RemovingPartitions", "PartitionsRemoved", "Completed"}
ConfigPhases ==
  {"UpdatingPersistentConfig", "PersistentConfigUpdated"} \cup TablePhases

(* Faulty form: the flags follow from the phase alone.                     *)
EnterPhaseOnly(j, phase) ==
  [phase |-> phase, config |-> phase \in ConfigPhases,
   table |-> phase \in TablePhases]

Enter(j, phase) ==
  [phase  |-> phase,
   config |-> j.config \/ phase \in ConfigPhases,
   table  |-> j.table \/ phase \in TablePhases]

(* Control state before a transition -> the phases it is allowed in, the   *)
(* one it leads to, where the invocation goes from there, and where it     *)
(* goes when the transition was not recorded.                              *)
Step(from, phase, next) ==
  [from |-> {from}, phase |-> phase, next |-> next, failed |-> "unwritten"]

Forward ==
  [create_begin  |-> Step("Prepared", "CreatingSwapfile", "create"),
   created       |-> Step("CreatingSwapfile", "SwapfileCreated",
                          "format_begin"),
   format_begin  |-> Step("SwapfileCreated", "FormattingReplacement",
                          "mkswap"),
   formatted     |-> Step("FormattingReplacement", "ReplacementFormatted",
                          "swapon_begin"),
   swapon_begin  |-> Step("ReplacementFormatted", "ActivatingReplacement",
                          "swapon"),
   activated     |-> Step("ActivatingReplacement", "ReplacementActive",
                          "swapoff_begin"),
   swapoff_begin |-> Step("ReplacementActive", "DeactivatingOldSwap",
                          "swapoff"),
   deactivated   |-> Step("DeactivatingOldSwap", "OldSwapDeactivated",
                          "update_check"),
   update_begin  |-> Step("OldSwapDeactivated", "UpdatingPersistentConfig",
                          "temp"),
   updated       |-> Step("UpdatingPersistentConfig",
                          "PersistentConfigUpdated", "prepare"),
   removal_begin |-> Step("PersistentConfigUpdated", "RemovingPartitions",
                          "sfdisk"),
   removed       |-> Step("RemovingPartitions", "PartitionsRemoved",
                          "complete"),
   complete      |-> [Step("PartitionsRemoved", "Completed", "reload")
                        EXCEPT !.failed = "recover"]]

Phases == {"Prepared", "RecoveryRequired"}
            \cup {Forward[x].phase : x \in DOMAIN Forward}

Journals == [phase : Phases, config : BOOLEAN, table : BOOLEAN]

(* None stands for the absence of a journal, of a file and of its contents.*)
ASSUME NoneAssumption ==
  /\ None \notin Journals \cup [record : Journals, names : {1, 2}]
  /\ \A partitions \in SUBSET (Retired \cup {Sibling}) : None # partitions

Recovery ==
  [from   |-> Phases \ {"Prepared", "Completed", "RecoveryRequired"},
   phase  |-> "RecoveryRequired",
   next   |-> "stopped",
   failed |-> "unrecorded"]

Transitions ==
  [x \in DOMAIN Forward \cup {"recover"} |->
     IF x = "recover" THEN Recovery ELSE Forward[x]]

(* The phases in which a mutation may be under way.                        *)
Started ==
  {"CreatingSwapfile", "FormattingReplacement", "ActivatingReplacement",
   "DeactivatingOldSwap", "UpdatingPersistentConfig", "RemovingPartitions"}

-----------------------------------------------------------------------------
(* What the checks see on the host.                                        *)

(* inspect_production_swap_replacement_activation_readiness and            *)
(* validate_runtime_evidence, on a fresh discovery.                        *)
Replaceable == Old \in active /\ Old \in fstab /\ swapfile = "none"

(* exact_swap_entries.                                                     *)
BothActive == {Old, New} \subseteq active

(* After swapoff, and again before the update and before the removal.      *)
OnlyNewActive == New \in active /\ Old \notin active

(* revalidate_production_swap_persistent_config_receipt.                   *)
Installed ==
  /\ fstab = Rewritten(before)
  /\ {Old, New, Rival} \cap fstab = {New}

(* exact_removal_geometry: nothing else is in the container.               *)
ExactGeometry == table = Retired

(* Faulty form: stale mappings of the kernel are not looked for.           *)
RemovedFromTable ==
  Retired \cap table = {} /\ OnlyNewActive /\ Installed

(* verify_post_state.                                                      *)
RemovedEverywhere ==
  Retired \cap (table \cup mapped) = {} /\ OnlyNewActive /\ Installed

(* A control state that only looks -> what it must see, where it goes, and *)
(* where it goes otherwise.                                                *)
Look(sees, next, failed) == [sees |-> sees, next |-> next, failed |-> failed]

Looks ==
  [activate     |-> Look(Replaceable, "preflight", "stopped"),
   preflight    |-> Look(Replaceable, "journal", "stopped"),
   check        |-> Look(Loads(Id, mem), "create_begin", "stopped"),
   revalidate   |-> Look(swapfile # "none", "created", "recover"),
   signature    |-> Look(swapfile = "formatted", "formatted", "recover"),
   both         |-> Look(BothActive, "activated", "recover"),
   alone        |-> Look(OnlyNewActive, "deactivated", "recover"),
   update_check |-> Look(OnlyNewActive, "update_load", "stopped"),
   update_load  |-> Look(Loads(Id, mem), "read", "stopped"),
   read_back    |-> Look(Installed, "updated", "recover"),
   prepare      |-> Look(Loads(Id, mem), "receipt", "stopped"),
   receipt      |-> Look(Installed, "snapshot", "stopped"),
   snapshot     |-> Look(OnlyNewActive /\ ExactGeometry, "capture",
                         "stopped"),
   authorize    |-> Look(Loads(Id, mem), "prepare", "stopped"),
   post_state   |-> Look(RemovedEverywhere, "removed", "recover"),
   reload       |-> Look(Loads(Id, mem), "done", "stopped")]

(* A control state that starts a storage tool -> where it goes when the    *)
(* tool has succeeded.                                                     *)
Tools ==
  [mkswap         |-> "signature",
   swapon         |-> "both",
   swapoff        |-> "alone",
   sfdisk         |-> "partx_part",
   partx_part     |-> "partx_extended",
   partx_extended |-> "post_state"]

Tool(name, status) == [name |-> name, status |-> status]

Ended ==
  {"done", "stopped", "undiscovered", "unwritten", "unrecorded", "killed"}

-----------------------------------------------------------------------------
Init ==
  /\ StoreInit
  /\ pc = "activate" /\ mem = None
  /\ active = {Old} /\ swapfile = "none" /\ named = FALSE
  /\ tool = None /\ started = {}
  /\ \E lines \in SUBSET Notes :
       /\ etc = <<Version(lines \cup {Old}, TRUE)>>
       /\ typed = lines \cup {Old}
  /\ temp = None /\ same = FALSE /\ before = {}
  /\ backup = None /\ unsaved = {}
  /\ table = Retired /\ mapped = Retired
  /\ fresh = {} /\ dump = None /\ undumped = {}
  /\ prepared = FALSE
  /\ meddles = 0 /\ meddled = FALSE /\ raced = FALSE /\ sibling = "none"

Goto(from, to) == pc = from /\ pc' = to

LookAndGo ==
  /\ pc \in DOMAIN Looks
  /\ Looks[pc].sees
  /\ pc' = Looks[pc].next
  /\ UNCHANGED <<storeVars, mem, before, fresh, prepared, swapVars, toolVars,
                 etcVars, backupVars, tableVars, dumpVars, opVars>>

(* It sees something else, or it cannot look, or a consent, a pinned tool  *)
(* or a sealed value is not what it was.                                   *)
LookFails ==
  /\ pc \in DOMAIN Looks
  /\ pc' = Looks[pc].failed
  /\ UNCHANGED <<storeVars, mem, before, fresh, prepared, swapVars, toolVars,
                 etcVars, backupVars, tableVars, dumpVars, opVars>>

(* The discovery after swapoff fails: the error is returned at once.       *)
CannotLookAfterSwapoff ==
  /\ Goto("alone", "undiscovered")
  /\ UNCHANGED <<storeVars, mem, before, fresh, prepared, swapVars, toolVars,
                 etcVars, backupVars, tableVars, dumpVars, opVars>>

-----------------------------------------------------------------------------
(* The journal.                                                            *)

PersistNew ==
  /\ Goto("journal", "check")
  /\ Created(Id, Fresh)
  /\ mem' = Fresh
  /\ UNCHANGED <<before, fresh, prepared, swapVars, toolVars, etcVars,
                 backupVars, tableVars, dumpVars, opVars>>

PersistNewFails ==
  /\ Goto("journal", "stopped")
  /\ CreateFails(Id, Fresh)
  /\ UNCHANGED <<mem, before, fresh, prepared, swapVars, toolVars, etcVars,
                 backupVars, tableVars, dumpVars, opVars>>

(* The journal in memory changes after the one on disk.                    *)
Transition ==
  /\ pc \in DOMAIN Transitions
  /\ LET t == Transitions[pc]
     IN  /\ mem.phase \in t.from
         /\ Replaced(Id, Enter(mem, t.phase))
         /\ mem' = Enter(mem, t.phase)
         /\ pc' = t.next
  /\ UNCHANGED <<before, fresh, prepared, swapVars, toolVars, etcVars,
                 backupVars, tableVars, dumpVars, opVars>>

TransitionFails ==
  /\ pc \in DOMAIN Transitions
  /\ LET t == Transitions[pc]
     IN  /\ ReplaceFails(Id, Enter(mem, t.phase))
         /\ pc' = t.failed
  /\ UNCHANGED <<mem, before, fresh, prepared, swapVars, toolVars, etcVars,
                 backupVars, tableVars, dumpVars, opVars>>

-----------------------------------------------------------------------------
(* The swapfile.                                                           *)

(* create_exact_swapfile: the file, with O_EXCL, and its blocks, synced.   *)
CreateSwapfile ==
  /\ Goto("create", "sync_parent")
  /\ swapfile = "none"
  /\ swapfile' = "allocated"
  /\ named' = FALSE
  /\ UNCHANGED <<storeVars, mem, before, fresh, prepared, active, toolVars,
                 etcVars, backupVars, tableVars, dumpVars, opVars>>

(* A file without all its blocks is left behind.                           *)
CreateSwapfileFails ==
  /\ Goto("create", "recover")
  /\ swapfile' \in {swapfile, "partial"}
  /\ UNCHANGED <<storeVars, mem, before, fresh, prepared, active, named,
                 toolVars, etcVars, backupVars, tableVars, dumpVars, opVars>>

(* Faulty form: the directory is not synced.                               *)
SyncParentSkipped ==
  /\ Goto("sync_parent", "revalidate")
  /\ UNCHANGED <<storeVars, mem, before, fresh, prepared, swapVars, toolVars,
                 etcVars, backupVars, tableVars, dumpVars, opVars>>

SyncParent ==
  /\ Goto("sync_parent", "revalidate")
  /\ named' = TRUE
  /\ UNCHANGED <<storeVars, mem, before, fresh, prepared, active, swapfile,
                 toolVars, etcVars, backupVars, tableVars, dumpVars, opVars>>

SyncParentFails ==
  /\ Goto("sync_parent", "recover")
  /\ UNCHANGED <<storeVars, mem, before, fresh, prepared, swapVars, toolVars,
                 etcVars, backupVars, tableVars, dumpVars, opVars>>

-----------------------------------------------------------------------------
(* The storage tools.                                                      *)

Spawn ==
  /\ pc \in DOMAIN Tools
  /\ tool' = Tool(pc, "running")
  /\ started' = started \cup {pc}
  /\ pc' = "await"
  /\ UNCHANGED <<storeVars, mem, before, fresh, prepared, swapVars, etcVars,
                 backupVars, tableVars, dumpVars, opVars>>

SpawnFails ==
  /\ pc \in DOMAIN Tools
  /\ pc' = "recover"
  /\ UNCHANGED <<storeVars, mem, before, fresh, prepared, swapVars, toolVars,
                 etcVars, backupVars, tableVars, dumpVars, opVars>>

Await ==
  /\ pc = "await"
  /\ tool.status = "ok"
  /\ pc' = Tools[tool.name]
  /\ tool' = None
  /\ UNCHANGED <<storeVars, mem, before, fresh, prepared, swapVars, started,
                 etcVars, backupVars, tableVars, dumpVars, opVars>>

(* Faulty form: the error is returned without a record of it.              *)
AwaitFailsAtOnce ==
  /\ pc = "await"
  /\ tool.status \in {"ok", "failed"}
  /\ pc' = "stopped"
  /\ tool' = None
  /\ UNCHANGED <<storeVars, mem, before, fresh, prepared, swapVars, started,
                 etcVars, backupVars, tableVars, dumpVars, opVars>>

(* It failed, or its output could not be read although it succeeded.       *)
AwaitFails ==
  /\ pc = "await"
  /\ tool.status \in {"ok", "failed"}
  /\ pc' = "recover"
  /\ tool' = None
  /\ UNCHANGED <<storeVars, mem, before, fresh, prepared, swapVars, started,
                 etcVars, backupVars, tableVars, dumpVars, opVars>>

(* What a tool may have done when it exits; its status proves nothing.     *)
(* Without its container a logical partition is gone from the table.       *)
Effect(name) ==
  \/ UNCHANGED <<swapVars, tableVars>>
  \/ /\ name = "mkswap" /\ swapfile # "none"
     /\ swapfile' \in {"allocated", "formatted"}
     /\ UNCHANGED <<active, named, tableVars>>
  \/ /\ name = "swapon" /\ swapfile = "formatted"
     /\ active' = active \cup {New}
     /\ UNCHANGED <<swapfile, named, tableVars>>
  \/ /\ name = "swapoff"
     /\ active' = active \ {Old}
     /\ UNCHANGED <<swapfile, named, tableVars>>
  \/ /\ name = "sfdisk"
     /\ table' \in {table \ {Part}, {}}
     /\ UNCHANGED <<swapVars, mapped>>
  \/ /\ name = "partx_part"
     /\ mapped' = mapped \ {Part}
     /\ UNCHANGED <<swapVars, table>>
  \/ /\ name = "partx_extended"
     /\ mapped' = mapped \ {Extended}
     /\ UNCHANGED <<swapVars, table>>

ToolExits ==
  /\ tool # None /\ tool.status = "running"
  /\ Effect(tool.name)
  /\ \E status \in {"ok", "failed"} :
       tool' = IF pc = "await" THEN Tool(tool.name, status) ELSE None
  /\ UNCHANGED <<storeVars, procVars, started, etcVars, backupVars, dumpVars,
                 opVars>>

-----------------------------------------------------------------------------
(* The update of fstab.                                                    *)

(* read_safe_regular, rewrite_exact_swap_entry and verify_rewritten.       *)
ReadFstab ==
  /\ Goto("read", "backup")
  /\ {Old, New, Rival} \cap fstab = {Old}
  /\ before' = fstab
  /\ same' = TRUE
  /\ UNCHANGED <<storeVars, mem, fresh, prepared, swapVars, toolVars, etc,
                 temp, backupVars, tableVars, dumpVars, opVars>>

(* ensure_backup: create_new, write and sync; only its name can be lost.   *)
WriteBackup ==
  /\ Goto("backup", "backup_sync")
  /\ backup = None
  /\ backup' = before
  /\ unsaved' = {None}
  /\ UNCHANGED <<storeVars, mem, before, fresh, prepared, swapVars, toolVars,
                 etcVars, tableVars, dumpVars, opVars>>

SyncBackup ==
  /\ Goto("backup_sync", "update_begin")
  /\ unsaved' = {}
  /\ UNCHANGED <<storeVars, mem, before, fresh, prepared, swapVars, toolVars,
                 etcVars, backup, tableVars, dumpVars, opVars>>

WriteTemp ==
  /\ Goto("temp", "recheck")
  /\ temp' = Version(Rewritten(before), TRUE)
  /\ UNCHANGED <<storeVars, mem, before, fresh, prepared, swapVars, toolVars,
                 etc, same, backupVars, tableVars, dumpVars, opVars>>

(* Faulty form: fstab is not looked at again.                              *)
RecheckNothing ==
  /\ Goto("recheck", "rename")
  /\ UNCHANGED <<storeVars, mem, before, fresh, prepared, swapVars, toolVars,
                 etcVars, backupVars, tableVars, dumpVars, opVars>>

(* Its inode, length, mode, owner and links: not its contents.             *)
Recheck ==
  /\ Goto("recheck", "rename")
  /\ same
  /\ UNCHANGED <<storeVars, mem, before, fresh, prepared, swapVars, toolVars,
                 etcVars, backupVars, tableVars, dumpVars, opVars>>

Rename ==
  /\ Goto("rename", "sync_etc")
  /\ etc' = Append(etc, temp)
  /\ temp' = None
  /\ started' = started \cup {"rename"}
  /\ UNCHANGED <<storeVars, mem, before, fresh, prepared, swapVars, tool,
                 same, backupVars, tableVars, dumpVars, opVars>>

SyncEtc ==
  /\ Goto("sync_etc", "read_back")
  /\ etc' = <<etc[Len(etc)]>>
  /\ UNCHANGED <<storeVars, mem, before, fresh, prepared, swapVars, toolVars,
                 temp, same, backupVars, tableVars, dumpVars, opVars>>

(* A partial backup is of no consequence: the journal ends here.           *)
UpdateFails ==
  /\ \/ pc \in {"read", "backup", "backup_sync"} /\ pc' = "stopped"
     \/ pc \in {"temp", "recheck", "rename", "sync_etc"} /\ pc' = "recover"
  /\ temp' = None
  /\ UNCHANGED <<storeVars, mem, before, fresh, prepared, swapVars, toolVars,
                 etc, same, backupVars, tableVars, dumpVars, opVars>>

-----------------------------------------------------------------------------
(* The recovery dump of the partition table, taken twice: the second time  *)
(* it must be what the first one was.                                      *)

CaptureDump ==
  /\ Goto("capture", "dump_write")
  /\ fresh' = table
  /\ UNCHANGED <<storeVars, mem, before, prepared, swapVars, toolVars,
                 etcVars, backupVars, tableVars, dumpVars, opVars>>

WriteDump ==
  /\ Goto("dump_write", "dump_compare")
  /\ IF dump = None
       THEN dump' = fresh /\ undumped' = {None}
       ELSE UNCHANGED dumpVars
  /\ UNCHANGED <<storeVars, mem, before, fresh, prepared, swapVars, toolVars,
                 etcVars, backupVars, tableVars, opVars>>

(* Faulty form: an earlier dump is taken to be right.                      *)
CompareDumpNever ==
  /\ Goto("dump_compare", "dump_sync")
  /\ UNCHANGED <<storeVars, mem, before, fresh, prepared, swapVars, toolVars,
                 etcVars, backupVars, tableVars, dumpVars, opVars>>

(* backup_matches_fresh_dump.                                              *)
CompareDump ==
  /\ Goto("dump_compare", "dump_sync")
  /\ dump = fresh
  /\ UNCHANGED <<storeVars, mem, before, fresh, prepared, swapVars, toolVars,
                 etcVars, backupVars, tableVars, dumpVars, opVars>>

(* The end of prepare_production_swap_partition_removal: the first time    *)
(* the launch is built, the second time the result must equal the first.   *)
SyncDump ==
  /\ pc = "dump_sync"
  /\ undumped' = {}
  /\ prepared' = TRUE
  /\ pc' = IF prepared THEN "removal_begin" ELSE "authorize"
  /\ UNCHANGED <<storeVars, mem, before, fresh, swapVars, toolVars, etcVars,
                 backupVars, tableVars, dump, opVars>>

DumpFails ==
  /\ pc \in {"capture", "dump_write", "dump_compare", "dump_sync"}
  /\ pc' = "stopped"
  /\ UNCHANGED <<storeVars, mem, before, fresh, prepared, swapVars, toolVars,
                 etcVars, backupVars, tableVars, dumpVars, opVars>>

-----------------------------------------------------------------------------
(* The world around.                                                       *)

(* A write that was on its way may be on disk.                             *)
InFlight ==
  \/ pc = "journal" /\ CreateFails(Id, Fresh)
  \/ /\ pc \in DOMAIN Transitions
     /\ ReplaceFails(Id, Enter(mem, Transitions[pc].phase))
  \/ /\ pc \notin {"journal"} \cup DOMAIN Transitions
     /\ UNCHANGED storeVars

(* SIGKILL: a storage tool runs on.                                        *)
Kill ==
  /\ pc \notin Ended
  /\ InFlight
  /\ pc' = "killed"
  /\ UNCHANGED <<mem, before, fresh, prepared, swapVars, toolVars, etcVars,
                 backupVars, tableVars, dumpVars, opVars>>

(* The swaps that are in use after a boot with these lines.                *)
SwapsOf(lines, file_, partitions) ==
  {x \in {Old, New} :
     \/ x = Old /\ {Old, Rival} \cap lines # {} /\ Part \in partitions
     \/ x = New /\ New \in lines /\ file_ = "formatted"}

(* Everything that was synced is there, of the rest anything.              *)
HostCrash ==
  /\ StoreCrash
  /\ pc' = IF pc \in Ended THEN pc ELSE "killed"
  /\ swapfile' \in {swapfile} \cup (IF named THEN {} ELSE {"none"})
  /\ named' = (swapfile' # "none")
  /\ tool' = None
  /\ \E i \in DOMAIN etc :
       \E lines \in {etc[i].contents} \cup (IF etc[i].synced THEN {} ELSE {{}}) :
         /\ etc' = <<Version(lines, TRUE)>>
         /\ active' = SwapsOf(lines, swapfile', table)
  /\ temp' = None
  /\ backup' \in {backup} \cup unsaved
  /\ unsaved' = {}
  /\ dump' \in {dump} \cup undumped
  /\ undumped' = {}
  /\ mapped' = table
  /\ UNCHANGED <<mem, before, fresh, prepared, started, same, table, opVars>>

Updating ==
  {"backup", "backup_sync", "update_begin", "temp", "recheck", "rename"}

(* An editor writes a new version, and syncs it: to a file of its own, or, *)
(* when the length is the same, perhaps in place.                          *)
EditFstab ==
  /\ meddles < MaxMeddles
  /\ \E lines \in (SUBSET Lines) \ {fstab}, inPlace \in BOOLEAN :
       /\ etc' = <<Version(lines, TRUE)>>
       /\ typed' = lines
       /\ same' = (same /\ inPlace)
       /\ raced' = (pc = "rename" \/ (pc \in Updating /\ same /\ inPlace))
       /\ meddled' = (meddled \/ lines \ Notes # fstab \ Notes)
  /\ meddles' = meddles + 1
  /\ UNCHANGED <<storeVars, procVars, swapVars, toolVars, temp, backupVars,
                 tableVars, dumpVars, sibling>>

OperatorSwaps ==
  /\ meddles < MaxMeddles
  /\ active' \in (SUBSET {Old, New}) \ {active}
  /\ New \in active' => New \in active \/ swapfile = "formatted"
  /\ Old \in active' => Old \in active \/ Part \in mapped
  /\ meddles' = meddles + 1
  /\ meddled' = TRUE
  /\ UNCHANGED <<storeVars, procVars, swapfile, named, toolVars, etcVars,
                 backupVars, tableVars, dumpVars, typed, raced, sibling>>

OperatorAddsSibling ==
  /\ meddles < MaxMeddles
  /\ Extended \in table /\ Sibling \notin table
  /\ table' = table \cup {Sibling}
  /\ mapped' = mapped \cup {Sibling}
  /\ sibling' =
       IF prepared /\ pc \notin {"authorize", "prepare", "receipt", "snapshot",
                                 "capture"}
         THEN "late" ELSE "early"
  /\ meddles' = meddles + 1
  /\ UNCHANGED <<storeVars, procVars, swapVars, toolVars, etcVars, backupVars,
                 dumpVars, meddled, typed, raced>>

-----------------------------------------------------------------------------
Next ==
  \/ LookAndGo \/ LookFails \/ CannotLookAfterSwapoff
  \/ PersistNew \/ PersistNewFails \/ Transition \/ TransitionFails
  \/ CreateSwapfile \/ CreateSwapfileFails \/ SyncParent \/ SyncParentFails
  \/ Spawn \/ SpawnFails \/ Await \/ AwaitFails \/ ToolExits
  \/ ReadFstab \/ WriteBackup \/ SyncBackup
  \/ WriteTemp \/ Recheck \/ Rename \/ SyncEtc \/ UpdateFails
  \/ CaptureDump \/ WriteDump \/ CompareDump \/ SyncDump \/ DumpFails
  \/ Kill \/ HostCrash
  \/ EditFstab \/ OperatorSwaps \/ OperatorAddsSibling

Spec == Init /\ [][Next]_vars

-----------------------------------------------------------------------------
(* "Every mutation-capable action has a durable intent-before-mutation     *)
(* phase", and the flags "cannot be cleared by later transitions": once a  *)
(* mutation was started, whatever the disk keeps of the store says so, and *)
(* what fstab or the table were before it is safe beside the journal.      *)
WriteAhead ==
  /\ swapfile # "none" \/ started # {} =>
       \A outcome \in Outcomes(Id) :
         /\ outcome # None /\ outcome.names = 1
         /\ outcome.record.phase # "Prepared"
         /\ "rename" \in started => outcome.record.config
         /\ "sfdisk" \in started => outcome.record.table
  /\ "rename" \in started => {backup} \cup unsaved = {before}
  /\ "sfdisk" \in started /\ sibling # "late" =>
       {dump} \cup undumped = {Retired}

(* Unless the operator turns swap off himself, the host has swap at every  *)
(* moment, and has it again after a crash at any moment.                   *)
SwapAlways == ~meddled => active # {}

(* Removing the container takes no other partition with it: the two        *)
(* preflights and the comparison of their dumps see one that appears, up   *)
(* to the last dump.                                                       *)
SiblingSpared == sibling = "early" => Sibling \in table

(* The update takes nothing away from what the operator wrote last, unless *)
(* the edit fell between Recheck and Rename, or in place between ReadFstab *)
(* and Recheck, which does not read the contents.                          *)
EditsSurvive ==
  ~raced => \A i \in DOMAIN etc :
    etc[i].contents \in {typed, Rewritten(typed)}

(* A completed record, before or after a crash, is true of the disk, and   *)
(* of swap and fstab unless the operator changed them.                     *)
CompletedTrue ==
  \A outcome \in Outcomes(Id) :
    outcome # None /\ outcome.record.phase = "Completed" =>
      /\ Retired \cap (table \cup mapped) = {}
      /\ ~meddled =>
           /\ active = {New}
           /\ \A i \in DOMAIN etc : etc[i].contents \ Notes = {New}

(* An invocation that ended with an error did not leave the journal in the *)
(* middle of a mutation, unless it could not look or could not write.      *)
AmbiguityRecorded ==
  pc = "stopped" /\ file[Id] # None => file[Id].record.phase \notin Started

(* "Any runtime ambiguity after crossing starts is forced into durable     *)
(* RecoveryRequired" (docs/M1B_HANDOFF.md:317): also a failed discovery.   *)
DiscoveryFailureRecorded ==
  pc = "undiscovered" => file[Id].record.phase = "RecoveryRequired"
=============================================================================
