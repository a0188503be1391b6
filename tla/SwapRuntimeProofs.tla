------------------------- MODULE SwapRuntimeProofs -------------------------
(***************************************************************************)
(* The swap migration (SwapRuntime), for any other lines of fstab and any  *)
(* number of interventions by the operator: the journal is ahead of every  *)
(* mutation (WriteAhead), there is swap at every moment (SwapAlways), no   *)
(* other partition goes with the container (SiblingSpared), the operator's *)
(* lines stay (EditsSurvive), Completed is true of the host                *)
(* (CompletedTrue), and an error is on record (AmbiguityRecorded).         *)
(*                                                                         *)
(* The invariant SwapInv says, for every stretch of the invocation, what   *)
(* is certain of the journal, the swapfile, fstab and its backup, the swap *)
(* areas in use, and the partition table and its dumps; and, of what a     *)
(* storage tool that survived a kill may still do, what it cannot harm.    *)
(***************************************************************************)
EXTENDS SwapRuntime, RecordStoreProofs

(* Where the invocation is: while it awaits a storage tool, at that tool.  *)
at == IF pc = "await" THEN tool.name ELSE pc

(* The control states, in the order an invocation passes them: before it   *)
(* has a journal, with an empty one, until the swapfile's name is on disk, *)
(* until it is formatted, until it is in use, until swapoff, until fstab   *)
(* is rewritten, until the removal starts, and until it is verified.       *)
Early     == {"activate", "preflight", "journal"}
Checked   == {"check", "create_begin"}
Creating  == {"create", "sync_parent"}
Made      == {"revalidate", "created", "format_begin", "mkswap", "signature"}
Formatted == {"formatted", "swapon_begin", "swapon", "both"}
Both      == {"activated", "swapoff_begin", "swapoff", "alone"}
Switched  == {"deactivated", "update_check", "update_load", "read"}
Saving    == {"backup", "backup_sync"}
Saved     == {"update_begin", "temp", "recheck", "rename"}
Renamed   == {"read_back", "updated", "prepare", "receipt", "snapshot",
              "capture", "dump_write", "dump_compare", "dump_sync",
              "authorize", "removal_begin"}
Removing  == {"sfdisk", "partx_part", "partx_extended", "post_state"}
Removed   == {"removed", "complete"}

(* What comes after a point, to the end of the invocation.                 *)
AfterSync     == Renamed \cup Removing \cup Removed \cup {"reload"}
AfterRename   == AfterSync \cup {"sync_etc"}
AfterBackup   == AfterRename \cup Saved
AfterSwapoff  == AfterBackup \cup Switched \cup Saving
AfterSwapon   == AfterSwapoff \cup Both
AfterMkswap   == AfterSwapon \cup Formatted
AfterCreation == AfterMkswap \cup Made
Live          == AfterCreation \cup Creating \cup Checked

ControlStates == Live \cup Early \cup {"recover", "await"} \cup Ended

(* Control states before the rename, and before the removal.               *)
Unrenamed == Early \cup Checked \cup Creating \cup Made \cup Formatted
               \cup Both \cup Switched \cup Saving \cup Saved

(* Control states at which an error ends the invocation without a record.  *)
Quiet == Checked \cup {"update_check", "update_load", "read", "backup",
                       "backup_sync", "update_begin", "prepare", "receipt",
                       "snapshot", "capture", "dump_write", "dump_compare",
                       "dump_sync", "authorize", "removal_begin", "reload"}

ToolNames == {"mkswap", "swapon", "swapoff", "sfdisk", "partx_part",
              "partx_extended"}

TypeOK ==
  /\ StoreTyped(Journals)
  /\ pc \in ControlStates
  /\ mem \in Journals \cup {None}
  /\ active \in SUBSET {Old, New}
  /\ swapfile \in {"none", "partial", "allocated", "formatted"}
  /\ named \in BOOLEAN
  /\ started \in SUBSET (ToolNames \cup {"rename"})
  /\ etc \in Seq(Versions) /\ Len(etc) > 0
  /\ temp \in Versions \cup {None}
  /\ same \in BOOLEAN
  /\ before \in SUBSET Lines /\ typed \in SUBSET Lines
  /\ backup \in (SUBSET Lines) \cup {None} /\ unsaved \in {{}, {None}}
  /\ table \in SUBSET (Retired \cup {Sibling})
  /\ mapped \in SUBSET (Retired \cup {Sibling})
  /\ fresh \in SUBSET (Retired \cup {Sibling})
  /\ dump \in (SUBSET (Retired \cup {Sibling})) \cup {None}
  /\ undumped \in {{}, {None}}
  /\ prepared \in BOOLEAN
  /\ meddles \in Nat
  /\ meddled \in BOOLEAN /\ raced \in BOOLEAN
  /\ sibling \in {"none", "early", "late"}

(* A storage tool runs while the invocation awaits it, or after a kill.    *)
Processes == [name : ToolNames, status : {"running", "ok", "failed"}]

ToolInv ==
  /\ tool \in Processes \cup {None}
  /\ pc \notin {"await", "killed"} => tool = None
  /\ pc = "await" => tool \in Processes
  /\ tool # None => tool.name \in started
  /\ tool # None /\ tool.name = "mkswap" => "rename" \notin started

(* The swapfile is there for good before it is formatted, and formatted    *)
(* for good before fstab names it.                                         *)
SwapfileInv ==
  /\ at \in Early => swapfile = "none"
  /\ at = "sync_parent" => swapfile # "none"
  /\ at \in AfterCreation => named /\ swapfile # "none"
  /\ at \in AfterMkswap \/ "rename" \in started =>
       named /\ swapfile = "formatted"

(* The journal in memory, and what is left of it on disk.                  *)
JournalInv ==
  /\ at \in Early => file[Id] = None /\ undo[Id] = {} /\ started = {}
  /\ at \in Unrenamed => "rename" \notin started
  /\ at \in Live \cup {"recover"} => mem \in Journals
  /\ at \in Live => Settled(Id, mem)
  /\ at \in (Live \ Checked) \cup {"recover"} => mem.phase # "Prepared"
  /\ at \in AfterRename \cup {"temp", "recheck", "rename"} => mem.config
  /\ at \in Removing \cup Removed => mem.table
  /\ at \in Quiet => mem.phase \notin Started
  /\ at \in Live \ {"reload"} => mem.phase # "Completed"

(* A mutation that was started is in the journal in memory, and in all     *)
(* that a crash may leave of it.                                           *)
Admits(j) ==
  /\ j.phase # "Prepared"
  /\ "rename" \in started => j.config
  /\ "sfdisk" \in started => j.table

IntentInv ==
  swapfile # "none" \/ started # {} =>
    /\ mem \in Journals /\ Admits(mem)
    /\ \A outcome \in Outcomes(Id) :
         outcome # None /\ outcome.names = 1 /\ Admits(outcome.record)

(* Where the invocation stopped, no outcome is in the middle of a mutation.*)
StoppedInv ==
  pc = "stopped" =>
    \A outcome \in Outcomes(Id) :
      outcome # None => outcome.record.phase \notin Started

SwapLines(version) == version.contents \ Notes

(* The versions of fstab that a crash may leave: until the rename they     *)
(* name the partition, until its sync perhaps either area, then the        *)
(* swapfile.                                                               *)
FstabInv ==
  /\ \A i \in DOMAIN etc : etc[i].synced
  /\ ~meddled =>
       \A i \in DOMAIN etc :
         \/ SwapLines(etc[i]) = {Old}
         \/ SwapLines(etc[i]) = {New} /\ "rename" \in started
  /\ at = "sync_etc" /\ ~meddled => SwapLines(etc[Len(etc)]) = {New}
  /\ (at \in AfterSync \/ "sfdisk" \in started) /\ ~meddled =>
       \A i \in DOMAIN etc : SwapLines(etc[i]) = {New}

(* What the update has read, and what it is about to write.                *)
UpdateInv ==
  /\ at \in Saving \cup Saved => before \ Notes = {Old}
  /\ at \in {"recheck", "rename"} => temp = Version(Rewritten(before), TRUE)
  /\ at \in Saving \cup Saved /\ (same \/ at = "rename") /\ ~raced =>
       before = typed
  /\ at = "backup_sync" => backup = before
  /\ at \in AfterBackup \/ "rename" \in started =>
       backup = before /\ unsaved = {}

(* The swap areas in use.                                                  *)
ActiveInv ==
  ~meddled =>
    /\ active # {}
    /\ at \in AfterSwapon \/ (tool # None /\ tool.name = "swapoff") =>
         New \in active
    /\ at \in AfterSwapoff => active = {New}

(* The partition table until the removal, and its two dumps.               *)
Tables == {Retired, Retired \cup {Sibling}}

TableInv ==
  /\ at \in (Live \ (Removing \cup Removed \cup {"reload"})) \cup Early =>
       "sfdisk" \notin started
  /\ "sfdisk" \notin started =>
       /\ table \in Tables
       /\ sibling # "none" <=> Sibling \in table
  /\ dump = None \/ dump \in Tables
  /\ Sibling \in table \/ "sfdisk" \in started \/ dump \in {None, Retired}
  /\ at \in {"dump_write", "dump_compare", "dump_sync"} =>
       fresh \in Tables /\ (Sibling \in fresh => Sibling \in table)
  /\ at = "dump_sync" => dump = fresh
  /\ prepared => dump \in Tables /\ undumped = {}
  /\ at \in {"capture", "dump_write", "dump_compare", "dump_sync",
             "removal_begin"} \cup Removing /\ prepared =>
       dump = Retired
  /\ at \in {"dump_write", "dump_compare", "dump_sync"} /\ prepared =>
       (sibling = "early" => Sibling \in fresh)
  /\ at \in {"removal_begin"} \cup Removing \/ "sfdisk" \in started =>
       prepared /\ sibling # "early" /\ dump = Retired

(* From the end of the removal nothing brings the partitions or their line *)
(* back.                                                                   *)
Final ==
  /\ tool = None /\ named /\ swapfile = "formatted"
  /\ Retired \cap (table \cup mapped) = {}
  /\ ~meddled =>
       /\ active = {New}
       /\ \A i \in DOMAIN etc : SwapLines(etc[i]) = {New}

IsCompleted(outcome) == outcome # None /\ outcome.record.phase = "Completed"

FinalInv ==
  /\ at \in Removed => Final
  /\ \A outcome \in Outcomes(Id) :
       IsCompleted(outcome) =>
         Final /\ pc \in {"recover", "reload"} \cup Ended

SwapInv ==
  /\ TypeOK
  /\ ToolInv
  /\ SwapfileInv
  /\ JournalInv
  /\ IntentInv
  /\ StoppedInv
  /\ FstabInv
  /\ UpdateInv
  /\ EditsSurvive
  /\ ActiveInv
  /\ TableInv
  /\ FinalInv

-----------------------------------------------------------------------------
(* The tables.                                                             *)

(* What a check has seen when it passes, and where it leads (Looks).       *)
LEMMA LookPasses ==
  ASSUME LookAndGo
  PROVE  \/ pc \in {"activate", "preflight"} /\ pc' \in {"preflight", "journal"}
         \/ pc = "check" /\ pc' = "create_begin"
         \/ pc = "revalidate" /\ pc' = "created"
         \/ pc = "signature" /\ pc' = "formatted" /\ swapfile = "formatted"
         \/ pc = "both" /\ pc' = "activated" /\ New \in active
         \/ pc = "alone" /\ pc' = "deactivated" /\ OnlyNewActive
         \/ /\ pc \in {"update_check", "update_load"}
            /\ pc' \in {"update_load", "read"}
         \/ pc = "read_back" /\ pc' = "updated"
         \/ /\ pc \in {"prepare", "receipt", "authorize"}
            /\ pc' \in {"receipt", "snapshot", "prepare"}
         \/ pc = "snapshot" /\ pc' = "capture" /\ table = Retired
         \/ /\ pc = "post_state" /\ pc' = "removed"
            /\ Retired \cap (table \cup mapped) = {}
         \/ pc = "reload" /\ pc' = "done"
  <1>1. pc \in {"activate", "preflight", "check", "revalidate", "signature",
                "both", "alone", "update_check", "update_load", "read_back",
                "prepare", "receipt", "snapshot", "authorize", "post_state",
                "reload"}
    BY DEF LookAndGo, Looks
  <1>2. Looks[pc].sees /\ pc' = Looks[pc].next
    BY DEF LookAndGo
  <1>3. CASE pc \in {"activate", "preflight", "check", "revalidate"}
    BY <1>2, <1>3 DEF Looks, Look
  <1>4. CASE pc = "signature"
    <2>1. Looks["signature"].sees = (swapfile = "formatted")
          /\ Looks["signature"].next = "formatted"
      BY DEF Looks, Look
    <2> QED
      BY <1>2, <1>4, <2>1
  <1>5. CASE pc = "both"
    <2>1. BothActive
      BY <1>2, <1>5 DEF Looks, Look
    <2> QED
      BY <1>2, <1>5, <2>1 DEF Looks, Look, BothActive
  <1>6. CASE pc = "alone"
    BY <1>2, <1>6 DEF Looks, Look
  <1>7. CASE pc \in {"update_check", "update_load", "read_back"}
    BY <1>2, <1>7 DEF Looks, Look
  <1>8. CASE pc \in {"prepare", "receipt", "authorize", "reload"}
    BY <1>2, <1>8 DEF Looks, Look
  <1>9. CASE pc = "snapshot"
    <2>1. ExactGeometry
      BY <1>2, <1>9 DEF Looks, Look
    <2> QED
      BY <1>2, <1>9, <2>1 DEF Looks, Look, ExactGeometry
  <1>10. CASE pc = "post_state"
    <2>1. RemovedEverywhere
      BY <1>2, <1>10 DEF Looks, Look
    <2> QED
      BY <1>2, <1>10, <2>1 DEF Looks, Look, RemovedEverywhere
  <1> QED
    BY <1>1, <1>3, <1>4, <1>5, <1>6, <1>7, <1>8, <1>9, <1>10

(* Where a check that does not pass leads (Looks).                         *)
LEMMA LookRefuses ==
  ASSUME LookFails
  PROVE  \/ /\ pc \in {"activate", "preflight", "check", "update_check",
                       "update_load", "prepare", "receipt", "snapshot",
                       "authorize", "reload"}
            /\ pc' = "stopped"
         \/ /\ pc \in {"revalidate", "signature", "both", "alone",
                       "read_back", "post_state"}
            /\ pc' = "recover"
  <1>1. pc \in {"activate", "preflight", "check", "revalidate", "signature",
                "both", "alone", "update_check", "update_load", "read_back",
                "prepare", "receipt", "snapshot", "authorize", "post_state",
                "reload"}
    BY DEF LookFails, Looks
  <1>2. pc' = Looks[pc].failed
    BY DEF LookFails
  <1>3. CASE pc \in {"activate", "preflight", "check", "revalidate",
                     "signature", "both"}
    BY <1>2, <1>3 DEF Looks, Look
  <1>4. CASE pc \in {"alone", "update_check", "update_load", "read_back",
                     "prepare"}
    BY <1>2, <1>4 DEF Looks, Look
  <1>5. CASE pc \in {"receipt", "snapshot", "authorize", "post_state",
                     "reload"}
    BY <1>2, <1>5 DEF Looks, Look
  <1> QED
    BY <1>1, <1>3, <1>4, <1>5

(* The storage tools, and where their success leads (Tools).               *)
LEMMA ToolsTable ==
  /\ DOMAIN Tools = ToolNames
  /\ Tools["mkswap"] = "signature" /\ Tools["swapon"] = "both"
  /\ Tools["swapoff"] = "alone" /\ Tools["sfdisk"] = "partx_part"
  /\ Tools["partx_part"] = "partx_extended"
  /\ Tools["partx_extended"] = "post_state"
  BY DEF Tools, ToolNames

(* Each transition, and where it leads (Transitions).                      *)
LEMMA TransitionTable ==
  ASSUME pc \in DOMAIN Transitions, NEW t, t = Transitions[pc]
  PROVE  \/ /\ t.failed = "unwritten"
            /\ \/ /\ pc = "create_begin" /\ t.next = "create"
                  /\ t.phase = "CreatingSwapfile"
               \/ /\ pc = "created" /\ t.next = "format_begin"
                  /\ t.phase = "SwapfileCreated"
               \/ /\ pc = "format_begin" /\ t.next = "mkswap"
                  /\ t.phase = "FormattingReplacement"
               \/ /\ pc = "formatted" /\ t.next = "swapon_begin"
                  /\ t.phase = "ReplacementFormatted"
               \/ /\ pc = "swapon_begin" /\ t.next = "swapon"
                  /\ t.phase = "ActivatingReplacement"
               \/ /\ pc = "activated" /\ t.next = "swapoff_begin"
                  /\ t.phase = "ReplacementActive"
               \/ /\ pc = "swapoff_begin" /\ t.next = "swapoff"
                  /\ t.phase = "DeactivatingOldSwap"
               \/ /\ pc = "deactivated" /\ t.next = "update_check"
                  /\ t.phase = "OldSwapDeactivated"
               \/ /\ pc = "update_begin" /\ t.next = "temp"
                  /\ t.phase = "UpdatingPersistentConfig"
               \/ /\ pc = "updated" /\ t.next = "prepare"
                  /\ t.phase = "PersistentConfigUpdated"
               \/ /\ pc = "removal_begin" /\ t.next = "sfdisk"
                  /\ t.phase = "RemovingPartitions"
               \/ /\ pc = "removed" /\ t.next = "complete"
                  /\ t.phase = "PartitionsRemoved"
         \/ /\ pc = "complete" /\ t.next = "reload" /\ t.phase = "Completed"
            /\ t.failed = "recover"
         \/ /\ pc = "recover" /\ t.next = "stopped"
            /\ t.phase = "RecoveryRequired" /\ t.failed = "unrecorded"
  <1>1. DOMAIN Forward =
          {"create_begin", "created", "format_begin", "formatted",
           "swapon_begin", "activated", "swapoff_begin", "deactivated",
           "update_begin", "updated", "removal_begin", "removed", "complete"}
    BY DEF Forward
  <1>2. pc \in DOMAIN Forward \cup {"recover"}
    BY DEF Transitions
  <1>3. CASE pc = "recover"
    <2>1. t = Recovery
      BY <1>3 DEF Transitions
    <2> QED
      BY <1>3, <2>1 DEF Recovery
  <1>4. CASE pc \in DOMAIN Forward
    <2>1. pc # "recover"
      BY <1>1, <1>4
    <2>2. t = Forward[pc]
      BY <1>4, <2>1 DEF Transitions
    <2>3. CASE pc \in {"create_begin", "created", "format_begin"}
      BY <2>2, <2>3 DEF Forward, Step
    <2>4. CASE pc \in {"formatted", "swapon_begin", "activated"}
      BY <2>2, <2>4 DEF Forward, Step
    <2>5. CASE pc \in {"swapoff_begin", "deactivated", "update_begin"}
      BY <2>2, <2>5 DEF Forward, Step
    <2>6. CASE pc \in {"updated", "removal_begin", "removed"}
      BY <2>2, <2>6 DEF Forward, Step
    <2>7. CASE pc = "complete"
      BY <2>2, <2>7 DEF Forward, Step
    <2> QED
      BY <1>1, <1>4, <2>3, <2>4, <2>5, <2>6, <2>7
  <1> QED
    BY <1>2, <1>3, <1>4

(* The phases are those of the table, Prepared and RecoveryRequired.       *)
LEMMA PhasesTable ==
  Phases = {"Prepared", "RecoveryRequired", "CreatingSwapfile",
            "SwapfileCreated", "FormattingReplacement", "ReplacementFormatted",
            "ActivatingReplacement", "ReplacementActive",
            "DeactivatingOldSwap", "OldSwapDeactivated",
            "UpdatingPersistentConfig", "PersistentConfigUpdated",
            "RemovingPartitions", "PartitionsRemoved", "Completed"}
  <1>1. DOMAIN Forward =
          {"create_begin", "created", "format_begin", "formatted",
           "swapon_begin", "activated", "swapoff_begin", "deactivated",
           "update_begin", "updated", "removal_begin", "removed", "complete"}
    BY DEF Forward
  <1>2. /\ Forward["create_begin"].phase = "CreatingSwapfile"
        /\ Forward["created"].phase = "SwapfileCreated"
        /\ Forward["format_begin"].phase = "FormattingReplacement"
        /\ Forward["formatted"].phase = "ReplacementFormatted"
        /\ Forward["swapon_begin"].phase = "ActivatingReplacement"
        /\ Forward["activated"].phase = "ReplacementActive"
        /\ Forward["swapoff_begin"].phase = "DeactivatingOldSwap"
    BY DEF Forward, Step
  <1>3. /\ Forward["deactivated"].phase = "OldSwapDeactivated"
        /\ Forward["update_begin"].phase = "UpdatingPersistentConfig"
        /\ Forward["updated"].phase = "PersistentConfigUpdated"
        /\ Forward["removal_begin"].phase = "RemovingPartitions"
        /\ Forward["removed"].phase = "PartitionsRemoved"
        /\ Forward["complete"].phase = "Completed"
    BY DEF Forward, Step
  <1> QED
    BY <1>1, <1>2, <1>3 DEF Phases

-----------------------------------------------------------------------------
(* Steps that touch only a part of the state keep what is said of the rest *)
(* of it, if they come from x to y without entering a stretch for which    *)
(* more is said, or if what is said there is known already.                *)

(* Where the invocation is, from its control state and its tool (run_stage *)
(* waits for the tool it has started).                                     *)
LEMMA AtPc ==
  /\ pc # "await" => at = pc
  /\ pc' # "await" => at' = pc'
  /\ pc = "await" => at = tool.name
  /\ pc' = "await" => at' = tool'.name
  BY DEF at

(* There is one journal.                                                   *)
LEMMA OneId == Id \in Ids /\ \A id \in Ids : id = Id
  BY SwapAssumption

(* fstab is the last of its versions.                                      *)
LEMMA LastVersion ==
  ASSUME TypeOK
  PROVE  /\ DOMAIN etc = 1..Len(etc) /\ Len(etc) \in DOMAIN etc
         /\ \A i \in DOMAIN etc : etc[i] \in Versions
         /\ fstab \in SUBSET Lines
  <1>1. DOMAIN etc = 1..Len(etc) /\ Len(etc) \in DOMAIN etc
    BY DEF TypeOK
  <1>2. \A i \in DOMAIN etc : etc[i] \in Versions
    BY DEF TypeOK
  <1>3. PICK v \in Versions : v = etc[Len(etc)]
    BY <1>1, <1>2
  <1> QED
    BY <1>1, <1>2, <1>3 DEF fstab, Versions

(* What rewrite_exact_swap_entry makes of lines that name the partition:   *)
(* the swapfile for the partition.                                         *)
LEMMA RewrittenLines ==
  ASSUME NEW lines \in SUBSET Lines, lines \ Notes = {Old}
  PROVE  /\ Rewritten(lines) \in SUBSET Lines
         /\ Rewritten(lines) \ Notes = {New}
         /\ Version(Rewritten(lines), TRUE) \in Versions
         /\ Version(Rewritten(lines), TRUE).contents = Rewritten(lines)
         /\ Version(Rewritten(lines), TRUE).synced = TRUE
  BY SwapAssumption DEF Rewritten, Lines, Version, Versions

(* A fstab with a line for the partition and none for its rivals is what   *)
(* the operator wrote, not what an update made of it.                      *)
LEMMA ReadLines ==
  ASSUME NEW lines \in SUBSET Lines, {Old, New, Rival} \cap lines = {Old}
  PROVE  /\ lines \ Notes = {Old}
         /\ \A other : lines # Rewritten(other)
  BY SwapAssumption DEF Rewritten, Lines

JournalMoves(x, y) ==
  /\ y \in Early => x \in Early
  /\ y \in Unrenamed => x \in Unrenamed
  /\ y \in Live \cup {"recover"} => x \in Live \cup {"recover"}
  /\ y \in Live => x \in Live
  /\ y \in (Live \ Checked) \cup {"recover"} =>
       x \in (Live \ Checked) \cup {"recover"}
  /\ y \in AfterRename \cup {"temp", "recheck", "rename"} =>
       x \in AfterRename \cup {"temp", "recheck", "rename"}
  /\ y \in Removing \cup Removed => x \in Removing \cup Removed
  /\ y \in Quiet => x \in Quiet
  /\ y \in Live \ {"reload"} => x \in Live \ {"reload"}
  /\ y = "stopped" => x \in Quiet \cup Early \cup {"stopped"}

SwapfileMoves(x, y) ==
  /\ y \in Early => x \in Early
  /\ y = "sync_parent" => x = "sync_parent"
  /\ y \in AfterCreation => x \in AfterCreation
  /\ y \in AfterMkswap =>
       x \in AfterMkswap \/ (x \in AfterCreation /\ swapfile = "formatted")

FstabMoves(x, y) ==
  /\ y = "sync_etc" => x = "sync_etc"
  /\ y \in AfterSync => x \in AfterSync

UpdateMoves(x, y) ==
  /\ y \in Saving \cup Saved => x \in Saving \cup Saved
  /\ y \in {"recheck", "rename"} => x \in {"recheck", "rename"} /\ temp' = temp
  /\ y = "rename" => x = "rename" \/ same
  /\ y = "backup_sync" => x = "backup_sync"
  /\ y \in AfterBackup => x \in AfterBackup

ActiveMoves(x, y) ==
  /\ y \in AfterSwapon => x \in AfterSwapon \/ New \in active
  /\ y \in AfterSwapoff => x \in AfterSwapoff \/ active = {New}

(* The control states before the removal of the partition.                 *)
Unremoved == (Live \ (Removing \cup Removed \cup {"reload"})) \cup Early

Dumped == {"dump_write", "dump_compare", "dump_sync"}

Targeted == {"capture", "removal_begin"} \cup Dumped \cup Removing

TableMoves(x, y) ==
  /\ y \in Unremoved => x \in Unremoved
  /\ y \in Dumped => x \in Dumped
  /\ y = "dump_sync" => x = "dump_sync" \/ dump = fresh
  /\ y \in {"authorize", "removal_begin"} =>
       x \in {"authorize", "removal_begin"}
  /\ y \in Targeted => x \in Targeted \/ table = Retired
  /\ y \in {"removal_begin"} \cup Removing =>
       x \in {"removal_begin"} \cup Removing

Over == {"recover", "reload"} \cup Ended

FinalMoves(x, y) ==
  /\ y \in Removed => x \in Removed \/ Final
  /\ x \in Over => y \in Over

(* The journal in memory and its outcomes, for steps that do not write it. *)
LEMMA JournalFrame ==
  ASSUME SwapInv, UNCHANGED <<storeVars, mem>>, JournalMoves(at, at'),
         at' \in Early => started' = started,
         at' \in Unrenamed => ("rename" \in started' => "rename" \in started)
  PROVE  JournalInv'
  <1>1. file' = file /\ undo' = undo /\ mem' = mem
    BY DEF storeVars
  <1>2. Settled(Id, mem) => Settled(Id, mem)'
    BY <1>1 DEF Settled
  <1>3. JournalInv
    BY DEF SwapInv
  <1> QED
    BY <1>1, <1>2, <1>3 DEF JournalInv, JournalMoves

(* A step to stopped comes from where no mutation is under way.            *)
LEMMA StoppedFrame ==
  ASSUME SwapInv, UNCHANGED storeVars, JournalMoves(at, at')
  PROVE  StoppedInv'
  <1>1. Outcomes(Id)' = Outcomes(Id)
    BY DEF Outcomes, storeVars
  <1> SUFFICES ASSUME pc' = "stopped",
                      NEW outcome \in Outcomes(Id), outcome # None
               PROVE  outcome.record.phase \notin Started
    BY <1>1 DEF StoppedInv
  <1>2. at \in Quiet \cup Early \cup {"stopped"}
    BY AtPc DEF JournalMoves
  <1>3. CASE at \in Early
    BY <1>3 DEF SwapInv, JournalInv, Outcomes
  <1>4. CASE at \in Quiet
    <2>1. at \in Live
      BY <1>4
         DEF Quiet, Live, AfterCreation, AfterMkswap, AfterSwapon,
             AfterSwapoff, AfterBackup, AfterRename, AfterSync, Checked,
             Switched, Saving, Saved, Renamed
    <2>2. PICK j \in Journals : j = mem
      BY <2>1 DEF SwapInv, JournalInv
    <2>3. j.phase \notin Started /\ Settled(Id, j)
      BY <1>4, <2>1, <2>2 DEF SwapInv, JournalInv
    <2>4. outcome = Once(j) /\ Once(j).record = j
      BY <2>3, SettledOutcome, OnceIsFile
    <2> QED
      BY <2>3, <2>4
  <1>5. CASE at = "stopped"
    <2>1. pc = "await" => at \in ToolNames
      BY AtPc DEF SwapInv, ToolInv, Processes
    <2>2. pc = "stopped"
      BY <1>5, <2>1, AtPc DEF SwapInv, ToolInv, ToolNames
    <2> QED
      BY <2>2 DEF SwapInv, StoppedInv
  <1> QED
    BY <1>2, <1>3, <1>4, <1>5

(* A step that starts nothing.                                             *)
LEMMA IntentFrame ==
  ASSUME SwapInv, UNCHANGED <<storeVars, mem>>, started' = started,
         swapfile' # "none" => swapfile # "none"
  PROVE  IntentInv'
  <1>1. Outcomes(Id)' = Outcomes(Id)
    BY DEF Outcomes, storeVars
  <1>2. \A j : Admits(j)' <=> Admits(j)
    BY DEF Admits
  <1>3. mem' = mem
    OBVIOUS
  <1> QED
    BY <1>1, <1>2, <1>3 DEF SwapInv, IntentInv, Admits

(* A step that starts a mutation that the journal announces.               *)
LEMMA IntentNew ==
  ASSUME SwapInv, UNCHANGED <<storeVars, mem>>, at \in Live \ Checked,
         "rename" \in started' => mem.config,
         "sfdisk" \in started' => mem.table
  PROVE  IntentInv'
  <1>1. PICK j \in Journals : j = mem
    BY DEF SwapInv, JournalInv
  <1>2. Settled(Id, j) /\ j.phase # "Prepared"
    BY <1>1 DEF SwapInv, JournalInv
  <1>3. Outcomes(Id)' = {Once(j)}
    BY <1>2 DEF Outcomes, storeVars, Settled
  <1>4. Once(j) # None /\ Once(j).record = j /\ Once(j).names = 1
    BY OnceIsFile, NoneAssumption DEF FilesOf
  <1>5. Admits(j)'
    BY <1>1, <1>2 DEF Admits
  <1>6. mem' = j
    BY <1>1
  <1> QED
    BY <1>3, <1>4, <1>5, <1>6 DEF IntentInv, Admits

(* A step that leaves the swapfile alone.                                  *)
LEMMA SwapfileFrame ==
  ASSUME SwapInv, UNCHANGED <<swapfile, named>>, SwapfileMoves(at, at'),
         "rename" \in started' => "rename" \in started \/ at \in AfterMkswap
  PROVE  SwapfileInv'
  <1>1. SwapfileInv /\ swapfile' = swapfile /\ named' = named
    BY DEF SwapInv
  <1> QED
    BY <1>1 DEF SwapfileInv, SwapfileMoves

(* A step that leaves fstab alone.                                         *)
LEMMA FstabFrame ==
  ASSUME SwapInv, etc' = etc, meddled' = meddled, FstabMoves(at, at'),
         started \subseteq started',
         "sfdisk" \in started' => "sfdisk" \in started \/ at \in AfterSync
  PROVE  FstabInv'
  BY DEF SwapInv, FstabInv, FstabMoves, SwapLines

(* A step of another part than the update of fstab.                        *)
LEMMA UpdateFrame ==
  ASSUME SwapInv, UNCHANGED <<before, backupVars, typed, raced, same>>,
         UpdateMoves(at, at'),
         "rename" \in started' => "rename" \in started \/ at \in AfterBackup
  PROVE  UpdateInv'
  <1>1. /\ before' = before /\ backup' = backup /\ unsaved' = unsaved
        /\ typed' = typed /\ raced' = raced /\ same' = same
    BY DEF backupVars
  <1>2. UpdateInv
    BY DEF SwapInv
  <1>3. at' \in Saving \cup Saved => before' \ Notes = {Old}
    BY <1>1, <1>2 DEF UpdateInv, UpdateMoves
  <1>4. at' \in {"recheck", "rename"} =>
          temp' = Version(Rewritten(before), TRUE)
    BY <1>2 DEF UpdateInv, UpdateMoves
  <1>5. at' \in Saving \cup Saved /\ (same' \/ at' = "rename") /\ ~raced' =>
          before' = typed'
    BY <1>1, <1>2 DEF UpdateInv, UpdateMoves
  <1>6. at' = "backup_sync" => backup' = before'
    BY <1>1, <1>2 DEF UpdateInv, UpdateMoves
  <1>7. at' \in AfterBackup \/ "rename" \in started' =>
          backup' = before' /\ unsaved' = {}
    BY <1>1, <1>2 DEF UpdateInv, UpdateMoves
  <1> QED
    BY <1>1, <1>3, <1>4, <1>5, <1>6, <1>7 DEF UpdateInv

(* A step that leaves the swap areas in use.                               *)
LEMMA ActiveFrame ==
  ASSUME SwapInv, active' = active, meddled' = meddled, ActiveMoves(at, at'),
         tool' # None /\ tool'.name = "swapoff" =>
           (tool # None /\ tool.name = "swapoff") \/ at \in AfterSwapon
  PROVE  ActiveInv'
  BY DEF SwapInv, ActiveInv, ActiveMoves

(* A step that leaves the partition table and its dumps.                   *)
LEMMA TableFrame ==
  ASSUME SwapInv, UNCHANGED <<table, dumpVars, fresh, prepared, sibling>>,
         TableMoves(at, at'), started \subseteq started',
         "sfdisk" \in started' => "sfdisk" \in started \/ at \in Removing,
         at' \in Unremoved => ("sfdisk" \in started' => "sfdisk" \in started)
  PROVE  TableInv'
  <1>1. /\ table' = table /\ dump' = dump /\ undumped' = undumped
        /\ fresh' = fresh /\ prepared' = prepared /\ sibling' = sibling
    BY DEF dumpVars
  <1>2. TableInv
    BY DEF SwapInv
  <1>3. table = Retired /\ prepared => dump = Retired
    <2>1. Sibling \notin Retired
      BY SwapAssumption DEF Retired
    <2> QED
      BY <1>2, <2>1, NoneAssumption DEF TableInv, Tables
  <1> QED
    BY <1>1, <1>2, <1>3 DEF TableInv, TableMoves, Unremoved, Targeted, Dumped

(* A step that adds no outcome to the journal.                             *)
LEMMA FinalFrame ==
  ASSUME SwapInv, Outcomes(Id)' \subseteq Outcomes(Id), FinalMoves(at, at'),
         pc \in Over => pc' \in Over,
         Final /\ (at' \in Removed \/ pc \in Over) => Final'
  PROVE  FinalInv'
  BY DEF SwapInv, FinalInv, FinalMoves, IsCompleted, Over

-----------------------------------------------------------------------------
(* The steps of the invocation that change nothing but pc, tool and temp:  *)
(* the checks, the end of a storage tool, and errors.                      *)
Idle ==
  \/ LookAndGo \/ LookFails \/ CannotLookAfterSwapoff \/ SyncParentFails
  \/ SpawnFails \/ Await \/ AwaitFails \/ Recheck \/ UpdateFails
  \/ CompareDump \/ DumpFails

(* Where they come from, where they lead, and what has been seen then.     *)
IdleEdge(x, y) ==
  \/ x \in {"activate", "preflight"} /\ y \in {"preflight", "journal"}
  \/ x = "check" /\ y = "create_begin"
  \/ x \in {"revalidate", "mkswap"} /\ y \in {"created", "signature"}
  \/ x = "signature" /\ y = "formatted" /\ swapfile = "formatted"
  \/ x = "swapon" /\ y = "both"
  \/ x = "both" /\ y = "activated" /\ New \in active
  \/ x = "swapoff" /\ y = "alone"
  \/ x = "alone" /\ y = "deactivated" /\ OnlyNewActive
  \/ x \in {"update_check", "update_load"} /\ y \in {"update_load", "read"}
  \/ x = "recheck" /\ y = "rename" /\ same /\ temp' = temp
  \/ x = "read_back" /\ y = "updated"
  \/ /\ x \in {"prepare", "receipt", "authorize"}
     /\ y \in {"receipt", "snapshot", "prepare"}
  \/ x = "snapshot" /\ y = "capture" /\ table = Retired
  \/ x = "dump_compare" /\ y = "dump_sync" /\ dump = fresh
  \/ x \in Removing /\ y \in Removing \ {"sfdisk"}
  \/ /\ x = "post_state" /\ y = "removed"
     /\ Retired \cap (table \cup mapped) = {}
  \/ x = "reload" /\ y = "done"
  \/ x \in Quiet \cup Early /\ y = "stopped"
  \/ x \in Live \ (Checked \cup {"reload"}) /\ y = "recover"
  \/ x = "alone" /\ y = "undiscovered"

(* A storage tool that succeeded: the edge that its name gives (Await,     *)
(* Tools).                                                                 *)
LEMMA AwaitEdges ==
  ASSUME SwapInv, Await
  PROVE  IdleEdge(at, at') /\ pc' \notin {"await", "killed"} /\ tool' = None
  <1>1. pc = "await" /\ pc' = Tools[tool.name] /\ tool.name \in ToolNames
    BY DEF Await, SwapInv, ToolInv, Processes
  <1>2. at = tool.name
    BY <1>1, AtPc
  <1>3. \/ at = "mkswap" /\ pc' = "signature"
        \/ at = "swapon" /\ pc' = "both"
        \/ at = "swapoff" /\ pc' = "alone"
        \/ at = "sfdisk" /\ pc' = "partx_part"
        \/ at = "partx_part" /\ pc' = "partx_extended"
        \/ at = "partx_extended" /\ pc' = "post_state"
    BY <1>1, <1>2, ToolsTable DEF ToolNames
  <1>4. at' = pc' /\ pc' \notin {"await", "killed"} /\ tool' = None
    BY <1>3, AtPc DEF Await
  <1> QED
    BY <1>3, <1>4 DEF IdleEdge, Removing

(* A check, passed or not: the edge that the table gives (LookAndGo,       *)
(* LookFails).                                                             *)
LEMMA LookEdges ==
  ASSUME SwapInv, LookAndGo \/ LookFails
  PROVE  IdleEdge(at, at') /\ pc' \notin {"await", "killed"} /\ tool' = None
  <1> USE DEF Live, AfterCreation, AfterMkswap, AfterSwapon, AfterSwapoff,
              AfterBackup, AfterRename, AfterSync, Removed, Removing, Renamed,
              Saved, Saving, Switched, Both, Formatted, Made, Creating, Checked,
              Early, Quiet
  <1>1. CASE LookAndGo
    <2>1. /\ pc \notin {"await", "killed"} /\ pc' \notin {"await", "killed"}
          /\ tool' = tool
      BY <1>1, LookPasses DEF LookAndGo, toolVars
    <2>2. IdleEdge(pc, pc')
      BY <1>1, LookPasses DEF IdleEdge
    <2> QED
      BY <2>1, <2>2, AtPc DEF SwapInv, ToolInv
  <1>2. CASE LookFails
    <2>1. /\ pc \notin {"await", "killed"} /\ pc' \notin {"await", "killed"}
          /\ tool' = tool
      BY <1>2, LookRefuses DEF LookFails, toolVars
    <2>2. IdleEdge(pc, pc')
      BY <1>2, LookRefuses DEF IdleEdge
    <2> QED
      BY <2>1, <2>2, AtPc DEF SwapInv, ToolInv
  <1> QED
    BY <1>1, <1>2

(* An error, and the two checks of the update and of the dump: their edges *)
(* (SpawnFails, AwaitFails, UpdateFails, DumpFails, Recheck, CompareDump). *)
LEMMA FailEdges ==
  ASSUME SwapInv,
         \/ CannotLookAfterSwapoff \/ SyncParentFails \/ SpawnFails
         \/ AwaitFails \/ Recheck \/ UpdateFails \/ CompareDump \/ DumpFails
  PROVE  IdleEdge(at, at') /\ pc' \notin {"await", "killed"} /\ tool' = None
  <1> USE DEF Live, AfterCreation, AfterMkswap, AfterSwapon, AfterSwapoff,
              AfterBackup, AfterRename, AfterSync, Removed, Removing, Renamed,
              Saved, Saving, Switched, Both, Formatted, Made, Creating, Checked,
              Early, Quiet
  <1>1. CASE SpawnFails
    <2>1. pc \in ToolNames /\ pc' = "recover"
      BY <1>1, ToolsTable DEF SpawnFails
    <2>2. /\ at = pc /\ at' = pc' /\ tool' = tool
          /\ pc \notin {"await", "killed"}
      BY <1>1, <2>1, AtPc DEF ToolNames, SpawnFails, toolVars
    <2> QED
      BY <2>1, <2>2 DEF IdleEdge, ToolNames, SwapInv, ToolInv
  <1>2. CASE AwaitFails
    <2>1. pc = "await" /\ pc' = "recover" /\ tool.name \in ToolNames
      BY <1>2 DEF AwaitFails, SwapInv, ToolInv, Processes
    <2>2. at = tool.name /\ at' = pc' /\ tool' = None
      BY <1>2, <2>1, AtPc DEF AwaitFails
    <2> QED
      BY <2>1, <2>2 DEF IdleEdge, ToolNames
  <1>3. CASE \/ CannotLookAfterSwapoff \/ SyncParentFails \/ Recheck
             \/ UpdateFails \/ CompareDump \/ DumpFails
    <2>1. \/ pc = "alone" /\ pc' = "undiscovered"
          \/ /\ pc \in {"sync_parent", "temp", "recheck", "rename", "sync_etc"}
             /\ pc' = "recover"
          \/ /\ pc \in {"read", "backup", "backup_sync", "capture",
                        "dump_write", "dump_compare", "dump_sync"}
             /\ pc' = "stopped"
          \/ pc = "recheck" /\ pc' = "rename" /\ same /\ temp' = temp
          \/ pc = "dump_compare" /\ pc' = "dump_sync" /\ dump = fresh
      BY <1>3
         DEF CannotLookAfterSwapoff, SyncParentFails, Recheck, UpdateFails,
             CompareDump, DumpFails, Goto, etcVars
    <2>2. /\ at = pc /\ at' = pc' /\ tool' = tool
          /\ pc \notin {"await", "killed"} /\ pc' \notin {"await", "killed"}
      BY <1>3, <2>1, AtPc
         DEF CannotLookAfterSwapoff, SyncParentFails, Recheck, UpdateFails,
             CompareDump, DumpFails, toolVars
    <2>3. tool' = None
      BY <2>2 DEF SwapInv, ToolInv
    <2> QED
      BY <2>1, <2>2, <2>3 DEF IdleEdge
  <1> QED
    BY <1>1, <1>2, <1>3

(* Such a step enters no stretch without having seen what is said of it.   *)
LEMMA IdleMoves ==
  ASSUME SwapInv, NEW x, NEW y, IdleEdge(x, y)
  PROVE  /\ JournalMoves(x, y) /\ SwapfileMoves(x, y) /\ FstabMoves(x, y)
         /\ UpdateMoves(x, y) /\ ActiveMoves(x, y) /\ TableMoves(x, y)
         /\ x \in Over => y \in Over
         /\ y \in Removed =>
              x \in Removed
                \/ (x = "post_state" /\ Retired \cap (table \cup mapped) = {})
  <1>0. OnlyNewActive => active = {New}
    BY DEF SwapInv, TypeOK, OnlyNewActive
  <1> USE DEF Live, AfterCreation, AfterMkswap, AfterSwapon, AfterSwapoff,
              AfterBackup, AfterRename, AfterSync, Removed, Removing, Renamed,
              Saved, Saving, Switched, Both, Formatted, Made, Creating, Checked,
              Early, Quiet
  <1>1. JournalMoves(x, y)
    BY DEF IdleEdge, JournalMoves, Unrenamed
  <1>2. SwapfileMoves(x, y)
    BY DEF IdleEdge, SwapfileMoves
  <1>3. FstabMoves(x, y)
    BY DEF IdleEdge, FstabMoves
  <1>4. UpdateMoves(x, y)
    BY DEF IdleEdge, UpdateMoves
  <1>5. ActiveMoves(x, y)
    BY <1>0 DEF IdleEdge, ActiveMoves
  <1>6. TableMoves(x, y)
    BY DEF IdleEdge, TableMoves, Unremoved, Dumped, Targeted
  <1>7. x \in Over => y \in Over
    BY DEF IdleEdge, Over, Ended
  <1>8. y \in Removed =>
          x \in Removed
            \/ (x = "post_state" /\ Retired \cap (table \cup mapped) = {})
    BY DEF IdleEdge
  <1> QED
    BY <1>1, <1>2, <1>3, <1>4, <1>5, <1>6, <1>7, <1>8

(* The steps that change nothing but pc, tool and temp keep the invariant: *)
(* what a stretch says was seen by the check that leads to it.             *)
LEMMA IdleStep ==
  ASSUME SwapInv, Idle
  PROVE  SwapInv'
  <1>1. /\ UNCHANGED <<storeVars, mem, before, fresh, prepared, swapVars,
                       started, etc, same, backupVars, tableVars, dumpVars,
                       opVars>>
        /\ temp' \in {temp, None}
    BY DEF Idle, LookAndGo, LookFails, CannotLookAfterSwapoff,
           SyncParentFails, SpawnFails, Await, AwaitFails, Recheck,
           UpdateFails, CompareDump, DumpFails, Goto, toolVars, etcVars
  <1>2. IdleEdge(at, at') /\ pc' \notin {"await", "killed"} /\ tool' = None
    BY AwaitEdges, LookEdges, FailEdges DEF Idle
  <1>3. at' = pc' /\ pc' \in ControlStates
    <2>1. at' = pc'
      BY <1>2, AtPc
    <2>2. at' \in ControlStates
      BY <1>2
         DEF IdleEdge, ControlStates, Live, AfterCreation, AfterMkswap,
             AfterSwapon, AfterSwapoff, AfterBackup, AfterRename, AfterSync,
             Removed, Removing, Renamed, Saved, Saving, Switched, Both,
             Formatted, Made, Creating, Checked, Early, Ended
    <2> QED
      BY <2>1, <2>2
  <1>4. PICK x, y : x = at /\ y = at'
    OBVIOUS
  <1>5. /\ JournalMoves(x, y) /\ SwapfileMoves(x, y) /\ FstabMoves(x, y)
        /\ UpdateMoves(x, y) /\ ActiveMoves(x, y) /\ TableMoves(x, y)
        /\ x \in Over => y \in Over
        /\ y \in Removed =>
             x \in Removed
               \/ (x = "post_state" /\ Retired \cap (table \cup mapped) = {})
    BY <1>2, <1>4, IdleMoves
  <1>6. TypeOK'
    <2>1. StoreTyped(Journals)'
      BY <1>1, StoreUnchangedLemma DEF SwapInv, TypeOK
    <2> QED
      BY <1>1, <1>3, <2>1
         DEF SwapInv, TypeOK, swapVars, backupVars, tableVars, dumpVars, opVars
  <1>7. ToolInv'
    BY <1>2 DEF ToolInv
  <1>8. SwapfileInv'
    BY <1>1, <1>4, <1>5, SwapfileFrame DEF swapVars
  <1>9. JournalInv' /\ StoppedInv'
    BY <1>1, <1>4, <1>5, JournalFrame, StoppedFrame
  <1>10. IntentInv'
    BY <1>1, IntentFrame DEF swapVars
  <1>11. FstabInv'
    BY <1>1, <1>4, <1>5, FstabFrame DEF opVars
  <1>12. UpdateInv'
    BY <1>1, <1>4, <1>5, UpdateFrame DEF opVars
  <1>13. EditsSurvive'
    BY <1>1 DEF SwapInv, EditsSurvive, opVars
  <1>14. ActiveInv'
    BY <1>1, <1>2, <1>4, <1>5, ActiveFrame DEF opVars, swapVars
  <1>15. TableInv'
    BY <1>1, <1>4, <1>5, TableFrame DEF opVars, tableVars
  <1>16. FinalInv'
    <2>1. Outcomes(Id)' = Outcomes(Id)
      BY <1>1 DEF Outcomes, storeVars
    <2>2. Final => Final'
      BY <1>1, <1>2 DEF Final, swapVars, tableVars, opVars
    <2>3. pc \in Over => pc' \in Over
      <3>1. pc # "await" => at = pc
        BY AtPc
      <3>2. "await" \notin Over
        BY DEF Over, Ended
      <3> QED
        BY <1>3, <1>4, <1>5, <3>1, <3>2
    <2>4. (x = "post_state" /\ y \in Removed
             /\ Retired \cap (table \cup mapped) = {}) => Final
      <3>1. "post_state" \in Removing
        BY DEF Removing
      <3>2. CASE x = "post_state"
        <4>1. tool = None
          <5>1. pc = "await" => tool.name \in ToolNames
            BY DEF SwapInv, ToolInv, Processes
          <5>2. pc = "post_state"
            BY <1>4, <3>2, <5>1, AtPc DEF ToolNames
          <5> QED
            BY <5>2 DEF SwapInv, ToolInv
        <4>2. named /\ swapfile = "formatted"
          BY <1>4, <3>1, <3>2
             DEF SwapInv, SwapfileInv, AfterMkswap, AfterSwapon,
                 AfterSwapoff, AfterBackup, AfterRename, AfterSync
        <4>3. ~meddled => active = {New}
          BY <1>4, <3>1, <3>2
             DEF SwapInv, ActiveInv, AfterSwapoff, AfterBackup, AfterRename,
                 AfterSync
        <4>4. ~meddled => \A i \in DOMAIN etc : SwapLines(etc[i]) = {New}
          BY <1>4, <3>1, <3>2 DEF SwapInv, FstabInv, AfterSync
        <4> QED
          BY <4>1, <4>2, <4>3, <4>4 DEF Final
      <3> QED
        BY <3>2
    <2>5. FinalMoves(x, y)
      BY <1>5, <2>4 DEF FinalMoves
    <2> QED
      BY <1>4, <2>1, <2>2, <2>3, <2>5, FinalFrame
  <1> QED
    BY <1>6, <1>7, <1>8, <1>9, <1>10, <1>11, <1>12, <1>13, <1>14, <1>15,
       <1>16 DEF SwapInv

-----------------------------------------------------------------------------
(* The steps of the invocation that change more: where they lead.          *)
Edge(x, y) ==
  \/ x = "create" /\ y \in {"sync_parent", "recover"}
  \/ x = "sync_parent" /\ y = "revalidate"
  \/ x = "read" /\ y = "backup"
  \/ x = "backup" /\ y = "backup_sync"
  \/ x = "backup_sync" /\ y = "update_begin"
  \/ x = "temp" /\ y = "recheck"
  \/ x = "rename" /\ y = "sync_etc"
  \/ x = "sync_etc" /\ y = "read_back"
  \/ x = "capture" /\ y = "dump_write"
  \/ x = "dump_write" /\ y = "dump_compare"
  \/ x = "dump_sync" /\ y \in {"authorize", "removal_begin"}

(* The steps that write the journal.                                       *)
JournalEdge(x, y) ==
  \/ x = "journal" /\ y \in {"check", "stopped"}
  \/ x = "create_begin" /\ y = "create"
  \/ x \in {"created", "format_begin"} /\ y \in {"format_begin", "mkswap"}
  \/ x \in {"formatted", "swapon_begin"} /\ y \in {"swapon_begin", "swapon"}
  \/ x \in {"activated", "swapoff_begin"} /\ y \in {"swapoff_begin", "swapoff"}
  \/ x = "deactivated" /\ y = "update_check"
  \/ x = "update_begin" /\ y = "temp"
  \/ x = "updated" /\ y = "prepare"
  \/ x = "removal_begin" /\ y = "sfdisk"
  \/ x = "removed" /\ y = "complete"
  \/ x = "complete" /\ y \in {"reload", "recover"}
  \/ x = "recover" /\ y = "stopped"
  \/ y \in {"unwritten", "unrecorded"}

(* A step along such an edge enters no stretch of which more is said,      *)
(* except in the part of the state that the step changes.                  *)
LEMMA EdgeMoves ==
  ASSUME NEW x, NEW y, Edge(x, y), temp' = temp \/ x = "temp" \/ x = "rename"
  PROVE  /\ JournalMoves(x, y) /\ ActiveMoves(x, y)
         /\ x \notin {"create", "sync_parent"} => SwapfileMoves(x, y)
         /\ x \notin {"rename", "sync_etc"} => FstabMoves(x, y)
         /\ x \notin {"read", "backup", "backup_sync", "temp"} =>
              UpdateMoves(x, y)
         /\ x \notin {"capture", "dump_sync"} => TableMoves(x, y)
         /\ x \notin Over /\ y \notin Removed
  <1> USE DEF Live, AfterCreation, AfterMkswap, AfterSwapon, AfterSwapoff,
              AfterBackup, AfterRename, AfterSync, Removed, Removing, Renamed,
              Saved, Saving, Switched, Both, Formatted, Made, Creating, Checked,
              Early, Quiet
  <1>1. JournalMoves(x, y)
    BY DEF Edge, JournalMoves, Unrenamed
  <1>2. ActiveMoves(x, y)
    BY DEF Edge, ActiveMoves
  <1>3. x \notin {"create", "sync_parent"} => SwapfileMoves(x, y)
    BY DEF Edge, SwapfileMoves
  <1>4. x \notin {"rename", "sync_etc"} => FstabMoves(x, y)
    BY DEF Edge, FstabMoves
  <1>5. x \notin {"read", "backup", "backup_sync", "temp"} => UpdateMoves(x, y)
    BY DEF Edge, UpdateMoves
  <1>6. x \notin {"capture", "dump_sync"} => TableMoves(x, y)
    BY DEF Edge, TableMoves, Unremoved, Dumped, Targeted
  <1>7. x \notin Over /\ y \notin Removed
    BY DEF Edge, Over, Ended
  <1> QED
    BY <1>1, <1>2, <1>3, <1>4, <1>5, <1>6, <1>7

(* Nor does a step that writes the journal, except in what is said of the  *)
(* journal (Transition, PersistNew).                                       *)
LEMMA JournalEdgeMoves ==
  ASSUME NEW x, NEW y, JournalEdge(x, y), temp' = temp
  PROVE  /\ SwapfileMoves(x, y) /\ FstabMoves(x, y) /\ UpdateMoves(x, y)
         /\ ActiveMoves(x, y) /\ TableMoves(x, y)
         /\ y \in Removed => x \in Removed
         /\ x \in Over => y \in Over
  <1> USE DEF Live, AfterCreation, AfterMkswap, AfterSwapon, AfterSwapoff,
              AfterBackup, AfterRename, AfterSync, Removed, Removing, Renamed,
              Saved, Saving, Switched, Both, Formatted, Made, Creating, Checked,
              Early
  <1>1. SwapfileMoves(x, y)
    BY DEF JournalEdge, SwapfileMoves
  <1>2. FstabMoves(x, y)
    BY DEF JournalEdge, FstabMoves
  <1>3. UpdateMoves(x, y)
    BY DEF JournalEdge, UpdateMoves
  <1>4. ActiveMoves(x, y)
    BY DEF JournalEdge, ActiveMoves
  <1>5. TableMoves(x, y)
    BY DEF JournalEdge, TableMoves, Unremoved, Dumped, Targeted
  <1>6. y \in Removed => x \in Removed
    BY DEF JournalEdge
  <1>7. x \in Over => y \in Over
    BY DEF JournalEdge, Over, Ended
  <1> QED
    BY <1>1, <1>2, <1>3, <1>4, <1>5, <1>6, <1>7

(* A step of another process than the invocation.                          *)
LEMMA StayMoves ==
  ASSUME NEW x
  PROVE  /\ JournalMoves(x, x) /\ SwapfileMoves(x, x) /\ FstabMoves(x, x)
         /\ temp' = temp => UpdateMoves(x, x)
         /\ ActiveMoves(x, x) /\ TableMoves(x, x) /\ FinalMoves(x, x)
  BY DEF JournalMoves, SwapfileMoves, FstabMoves, UpdateMoves, ActiveMoves,
         TableMoves, FinalMoves

(* The end of the invocation.                                              *)
LEMMA EndMoves ==
  ASSUME NEW x, NEW y \in {"killed", "unwritten", "unrecorded"}
  PROVE  /\ JournalMoves(x, y) /\ SwapfileMoves(x, y) /\ FstabMoves(x, y)
         /\ UpdateMoves(x, y) /\ ActiveMoves(x, y) /\ TableMoves(x, y)
         /\ FinalMoves(x, y)
  <1> USE DEF Live, AfterCreation, AfterMkswap, AfterSwapon, AfterSwapoff,
              AfterBackup, AfterRename, AfterSync, Removed, Removing, Renamed,
              Saved, Saving, Switched, Both, Formatted, Made, Creating, Checked,
              Early, Quiet
  <1>1. JournalMoves(x, y) /\ SwapfileMoves(x, y) /\ FstabMoves(x, y)
    BY DEF JournalMoves, SwapfileMoves, FstabMoves, Unrenamed
  <1>2. UpdateMoves(x, y) /\ ActiveMoves(x, y)
    BY DEF UpdateMoves, ActiveMoves
  <1>3. TableMoves(x, y) /\ FinalMoves(x, y)
    BY DEF TableMoves, FinalMoves, Unremoved, Dumped, Targeted, Over, Ended
  <1> QED
    BY <1>1, <1>2, <1>3

(* A step that leaves the journal alone and is none of its last steps.     *)
LEMMA FinalAway ==
  ASSUME SwapInv, UNCHANGED storeVars, at' \notin Removed, pc \notin Over
  PROVE  FinalInv'
  <1>1. Outcomes(Id)' = Outcomes(Id)
    BY DEF Outcomes, storeVars
  <1> QED
    BY <1>1 DEF SwapInv, FinalInv, IsCompleted, Over

-----------------------------------------------------------------------------
(* The steps of the invocation, one lemma for each kind of step.           *)

(* create_exact_swapfile, and the fsync of its directory.                  *)
LEMMA SwapfileStep ==
  ASSUME SwapInv, CreateSwapfile \/ CreateSwapfileFails \/ SyncParent
  PROVE  SwapInv'
  <1>1. /\ UNCHANGED <<storeVars, mem, before, fresh, prepared, active,
                       toolVars, etcVars, backupVars, tableVars, dumpVars,
                       opVars>>
        /\ \/ /\ pc = "create" /\ pc' = "sync_parent"
              /\ swapfile' = "allocated" /\ named' = FALSE
           \/ /\ pc = "create" /\ pc' = "recover"
              /\ swapfile' \in {swapfile, "partial"} /\ named' = named
           \/ /\ pc = "sync_parent" /\ pc' = "revalidate"
              /\ swapfile' = swapfile /\ named' = TRUE
    BY DEF CreateSwapfile, CreateSwapfileFails, SyncParent, Goto
  <1>2. at = pc /\ at' = pc' /\ Edge(pc, pc')
    BY <1>1, AtPc DEF Edge
  <1>3. PICK x, y : x = at /\ y = at'
    OBVIOUS
  <1>4. /\ JournalMoves(x, y) /\ ActiveMoves(x, y) /\ FstabMoves(x, y)
        /\ UpdateMoves(x, y) /\ TableMoves(x, y)
        /\ x \notin Over /\ y \notin Removed
    BY <1>1, <1>2, <1>3, EdgeMoves DEF etcVars
  <1>5. at \in Live \ Checked /\ at \in Unrenamed
    BY <1>1, <1>2 DEF Live, Creating, Checked, Unrenamed
  <1>6. TypeOK'
    <2>1. StoreTyped(Journals)'
      BY <1>1, StoreUnchangedLemma DEF SwapInv, TypeOK
    <2>2. pc' \in ControlStates
      BY <1>1 DEF ControlStates, Live, AfterCreation, Creating, Made
    <2>3. /\ swapfile' \in {"none", "partial", "allocated", "formatted"}
          /\ named' \in BOOLEAN
      BY <1>1 DEF SwapInv, TypeOK
    <2> QED
      BY <1>1, <2>1, <2>2, <2>3
         DEF SwapInv, TypeOK, toolVars, etcVars, backupVars, tableVars,
             dumpVars, opVars
  <1>7. ToolInv'
    BY <1>1 DEF SwapInv, ToolInv, toolVars
  <1>8. SwapfileInv'
    <2>1. "rename" \notin started'
      BY <1>1, <1>5 DEF SwapInv, JournalInv, toolVars
    <2>2. at' \notin Early
      BY <1>1, <1>2 DEF Early
    <2>3. at' \notin AfterMkswap
      BY <1>1, <1>2
         DEF AfterMkswap, AfterSwapon, AfterSwapoff, AfterBackup, AfterRename,
             AfterSync, Formatted, Both, Switched, Saving, Saved, Renamed,
             Removing, Removed
    <2>4. at' \in AfterCreation => named' /\ swapfile' # "none"
      <3>1. CASE pc = "create"
        <4>1. at' \notin AfterCreation
          BY <1>1, <1>2, <2>3, <3>1 DEF AfterCreation, Made
        <4> QED
          BY <4>1
      <3>2. CASE pc = "sync_parent"
        BY <1>1, <1>2, <3>2 DEF SwapInv, SwapfileInv
      <3> QED
        BY <1>1, <3>1, <3>2
    <2>5. at' = "sync_parent" => swapfile' # "none"
      BY <1>1, <1>2
    <2> QED
      BY <2>1, <2>2, <2>3, <2>4, <2>5 DEF SwapfileInv
  <1>9. JournalInv' /\ StoppedInv'
    BY <1>1, <1>3, <1>4, JournalFrame, StoppedFrame DEF toolVars
  <1>10. IntentInv'
    <2>1. "rename" \notin started' /\ "sfdisk" \notin started'
      BY <1>1, <1>2, <1>5
         DEF SwapInv, JournalInv, TableInv, toolVars, Live, Creating,
             Removing, Removed
    <2> QED
      BY <1>1, <1>5, <2>1, IntentNew
  <1>11. FstabInv'
    BY <1>1, <1>3, <1>4, FstabFrame DEF opVars, etcVars, toolVars
  <1>12. UpdateInv'
    BY <1>1, <1>3, <1>4, UpdateFrame DEF opVars, etcVars, toolVars
  <1>13. EditsSurvive'
    BY <1>1 DEF SwapInv, EditsSurvive, opVars, etcVars
  <1>14. ActiveInv'
    BY <1>1, <1>3, <1>4, ActiveFrame DEF opVars, toolVars
  <1>15. TableInv'
    BY <1>1, <1>3, <1>4, TableFrame DEF opVars, tableVars, toolVars
  <1>16. FinalInv'
    BY <1>1, <1>2, <1>3, <1>4, FinalAway
  <1> QED
    BY <1>6, <1>7, <1>8, <1>9, <1>10, <1>11, <1>12, <1>13, <1>14, <1>15,
       <1>16 DEF SwapInv

(* A storage tool is started.                                              *)
LEMMA SpawnStep ==
  ASSUME SwapInv, Spawn
  PROVE  SwapInv'
  <1>1. /\ pc \in ToolNames /\ pc' = "await"
        /\ tool' = Tool(pc, "running") /\ started' = started \cup {pc}
        /\ UNCHANGED <<storeVars, mem, before, fresh, prepared, swapVars,
                       etcVars, backupVars, tableVars, dumpVars, opVars>>
    BY ToolsTable DEF Spawn
  <1>2. tool' \in Processes /\ tool'.name = pc
    BY <1>1 DEF Tool, Processes
  <1>3. at = pc /\ at' = at
    BY <1>1, <1>2, AtPc DEF ToolNames
  <1>4. PICK x : x = at /\ x \in ToolNames /\ x = pc
    BY <1>1, <1>3
  <1>5. /\ JournalMoves(x, x) /\ SwapfileMoves(x, x) /\ FstabMoves(x, x)
        /\ UpdateMoves(x, x) /\ ActiveMoves(x, x) /\ TableMoves(x, x)
    BY <1>1, StayMoves DEF etcVars
  <1> USE DEF Live, AfterCreation, AfterMkswap, AfterSwapon, AfterSwapoff,
              AfterBackup, AfterRename, AfterSync, Removed, Removing, Renamed,
              Saved, Saving, Switched, Both, Formatted, Made, Creating, Checked,
              Early
  <1>6. /\ x \in Live \ Checked /\ x \notin Early /\ x \notin Removed
        /\ x = "swapoff" => x \in AfterSwapon
        /\ x = "sfdisk" => x \in Removing
        /\ x \in Removing => x \notin Unremoved
        /\ x \in Unrenamed \/ x \in AfterRename
        /\ x = "mkswap" => x \in Unrenamed
        /\ "rename" \notin ToolNames
        /\ x \notin {"await", "killed"} /\ x \notin Over
    BY <1>4 DEF ToolNames, Unrenamed, Unremoved, Over, Ended
  <1>7. TypeOK'
    <2>1. StoreTyped(Journals)'
      BY <1>1, StoreUnchangedLemma DEF SwapInv, TypeOK
    <2>2. pc' \in ControlStates
      BY <1>1 DEF ControlStates
    <2>3. started' \in SUBSET (ToolNames \cup {"rename"})
      BY <1>1 DEF SwapInv, TypeOK
    <2> QED
      BY <1>1, <2>1, <2>2, <2>3
         DEF SwapInv, TypeOK, swapVars, etcVars, backupVars, tableVars,
             dumpVars, opVars
  <1>8. ToolInv'
    <2>1. pc = "mkswap" => "rename" \notin started'
      BY <1>1, <1>4, <1>6 DEF SwapInv, JournalInv
    <2> QED
      BY <1>1, <1>2, <2>1 DEF ToolInv
  <1>9. SwapfileInv'
    BY <1>1, <1>3, <1>4, <1>5, <1>6, SwapfileFrame DEF swapVars
  <1>10. JournalInv' /\ StoppedInv'
    BY <1>1, <1>3, <1>4, <1>5, <1>6, JournalFrame, StoppedFrame
  <1>11. IntentInv'
    <2>1. "rename" \in started' => mem.config
      BY <1>1, <1>4, <1>6 DEF SwapInv, IntentInv, Admits
    <2>2. "sfdisk" \in started' => mem.table
      <3>1. x = "sfdisk" => mem.table
        BY <1>4, <1>6 DEF SwapInv, JournalInv
      <3> QED
        BY <1>1, <1>4, <3>1 DEF SwapInv, IntentInv, Admits
    <2> QED
      BY <1>1, <1>4, <1>6, <2>1, <2>2, IntentNew
  <1>12. FstabInv'
    <2>1. "sfdisk" \in started' => "sfdisk" \in started \/ at \in AfterSync
      BY <1>1, <1>4
    <2>2. started \subseteq started'
      BY <1>1
    <2> QED
      BY <1>1, <1>3, <1>4, <1>5, <2>1, <2>2, FstabFrame DEF opVars, etcVars
  <1>13. UpdateInv'
    BY <1>1, <1>3, <1>4, <1>5, <1>6, UpdateFrame DEF opVars, etcVars
  <1>14. EditsSurvive'
    BY <1>1 DEF SwapInv, EditsSurvive, opVars, etcVars
  <1>15. ActiveInv'
    BY <1>1, <1>2, <1>3, <1>4, <1>5, <1>6, ActiveFrame DEF opVars, swapVars
  <1>16. TableInv'
    <2>1. "sfdisk" \in started' => "sfdisk" \in started \/ at \in Removing
      BY <1>1, <1>4, <1>6
    <2>2. at' \in Unremoved => ("sfdisk" \in started' => "sfdisk" \in started)
      BY <1>1, <1>3, <1>4, <1>6
    <2>3. started \subseteq started'
      BY <1>1
    <2> QED
      BY <1>1, <1>3, <1>4, <1>5, <2>1, <2>2, <2>3, TableFrame
         DEF opVars, tableVars
  <1>17. FinalInv'
    BY <1>1, <1>3, <1>4, <1>6, FinalAway
  <1> QED
    BY <1>7, <1>8, <1>9, <1>10, <1>11, <1>12, <1>13, <1>14, <1>15, <1>16,
       <1>17 DEF SwapInv

(* A storage tool exits, whether the invocation awaits it or was killed.   *)
LEMMA ToolExitsStep ==
  ASSUME SwapInv, ToolExits
  PROVE  SwapInv'
  <1>1. PICK p \in Processes : p = tool
    BY DEF ToolExits, SwapInv, ToolInv
  <1>2. /\ Effect(p.name)
        /\ UNCHANGED <<storeVars, procVars, started, etcVars, backupVars,
                       dumpVars, opVars>>
        /\ pc \in {"await", "killed"} /\ p.name \in ToolNames
        /\ p.name \in started
        /\ p.name = "mkswap" => "rename" \notin started
    BY <1>1 DEF ToolExits, SwapInv, ToolInv, Processes
  <1>3. \/ pc = "await" /\ tool' \in Processes /\ tool'.name = p.name
        \/ pc = "killed" /\ tool' = None
    <2>1. PICK status \in {"ok", "failed"} :
            tool' = IF pc = "await" THEN Tool(tool.name, status) ELSE None
      BY DEF ToolExits
    <2> QED
      BY <1>1, <1>2, <2>1 DEF Tool, Processes
  <1>4. at' = at /\ at \in {p.name, "killed"}
    BY <1>1, <1>2, <1>3, AtPc DEF procVars
  <1>5. PICK x : x = at /\ x \in ToolNames \cup {"killed"}
    BY <1>2, <1>4
  <1>6. /\ JournalMoves(x, x) /\ SwapfileMoves(x, x) /\ FstabMoves(x, x)
        /\ UpdateMoves(x, x) /\ ActiveMoves(x, x) /\ TableMoves(x, x)
    BY <1>2, StayMoves DEF etcVars
  <1> USE DEF AfterMkswap, AfterSwapon, AfterSwapoff, AfterBackup, AfterRename,
              AfterSync, Removed, Removing, Renamed, Saved, Saving, Switched,
              Both, Formatted
  <1>7. /\ x \notin Removed
        /\ x \in AfterMkswap => x # "mkswap"
        /\ x \in AfterSwapon => x \notin {"mkswap", "swapon"}
        /\ x \in AfterSwapoff => x \notin {"swapon", "swapoff"}
        /\ x \notin Dumped
    BY <1>5 DEF ToolNames, Dumped
  <1>8. TypeOK'
    <2>1. StoreTyped(Journals)'
      BY <1>2, StoreUnchangedLemma DEF SwapInv, TypeOK
    <2>2. /\ active' \in SUBSET {Old, New}
          /\ swapfile' \in {"none", "partial", "allocated", "formatted"}
          /\ named' = named
      BY <1>2 DEF SwapInv, TypeOK, Effect, swapVars
    <2>3. /\ table' \in SUBSET (Retired \cup {Sibling})
          /\ mapped' \in SUBSET (Retired \cup {Sibling})
      BY <1>2 DEF SwapInv, TypeOK, Effect, tableVars
    <2> QED
      BY <1>2, <2>1, <2>2, <2>3
         DEF SwapInv, TypeOK, procVars, etcVars, backupVars, dumpVars, opVars
  <1>9. ToolInv'
    <2>1. pc' = pc /\ started' = started
      BY <1>2 DEF procVars
    <2> QED
      BY <1>2, <1>3, <2>1 DEF ToolInv
  <1>10. SwapfileInv'
    <2>1. CASE UNCHANGED <<swapfile, named>>
      BY <1>2, <1>4, <1>5, <1>6, <2>1, SwapfileFrame
    <2>2. CASE /\ p.name = "mkswap" /\ swapfile # "none"
               /\ swapfile' \in {"allocated", "formatted"} /\ named' = named
      <3>1. at' \notin Early
        BY <1>4, <2>2 DEF Early
      <3>2. at' \notin AfterMkswap /\ "rename" \notin started'
        BY <1>2, <1>4, <1>5, <1>7, <2>2
      <3> QED
        BY <1>4, <2>2, <3>1, <3>2 DEF SwapInv, SwapfileInv
    <2> QED
      BY <1>2, <2>1, <2>2 DEF Effect, swapVars
  <1>11. JournalInv' /\ StoppedInv'
    BY <1>2, <1>4, <1>5, <1>6, JournalFrame, StoppedFrame DEF procVars
  <1>12. IntentInv'
    <2>1. swapfile' # "none" => swapfile # "none"
      BY <1>2 DEF Effect, swapVars
    <2> QED
      BY <1>2, <2>1, IntentFrame DEF procVars
  <1>13. FstabInv'
    BY <1>2, <1>4, <1>5, <1>6, FstabFrame DEF opVars, etcVars
  <1>14. UpdateInv'
    BY <1>2, <1>4, <1>5, <1>6, UpdateFrame DEF opVars, etcVars, procVars
  <1>15. EditsSurvive'
    BY <1>2 DEF SwapInv, EditsSurvive, opVars, etcVars
  <1>16. ActiveInv'
    <2>1. tool' # None /\ tool'.name = "swapoff" =>
            (tool # None /\ tool.name = "swapoff") /\ p.name = "swapoff"
      BY <1>1, <1>3 DEF ToolExits
    <2>2. CASE active' = active
      BY <1>2, <1>4, <1>5, <1>6, <2>1, <2>2, ActiveFrame DEF opVars
    <2>3. CASE p.name = "swapon" /\ active' = active \cup {New}
      <3>1. at' \notin AfterSwapon /\ at' \notin AfterSwapoff
        BY <1>4, <1>5, <1>7, <2>3
      <3> QED
        BY <2>1, <2>3, <3>1 DEF ActiveInv
    <2>4. CASE p.name = "swapoff" /\ active' = active \ {Old}
      <3>1. ~meddled => New \in active
        BY <1>1, <2>4 DEF SwapInv, ActiveInv, ToolExits
      <3>2. ~meddled => New \in active'
        BY <2>4, <3>1, SwapAssumption
      <3>3. at' \notin AfterSwapoff
        BY <1>4, <1>5, <1>7, <2>4
      <3>4. meddled' = meddled
        BY <1>2 DEF opVars
      <3> QED
        BY <3>2, <3>3, <3>4 DEF ActiveInv
    <2> QED
      BY <1>2, <2>2, <2>3, <2>4 DEF Effect, swapVars
  <1>17. TableInv'
    <2>1. CASE table' = table
      BY <1>2, <1>4, <1>5, <1>6, <2>1, TableFrame
         DEF opVars, procVars
    <2>2. CASE p.name = "sfdisk"
      <3>1. "sfdisk" \in started'
        BY <1>2, <2>2
      <3>2. /\ dump' = dump /\ undumped' = undumped /\ fresh' = fresh
            /\ prepared' = prepared /\ sibling' = sibling
            /\ started' = started
        BY <1>2 DEF dumpVars, procVars, opVars
      <3>3. at' \notin {"dump_write", "dump_compare", "dump_sync"}
        BY <1>4, <1>5, <1>7 DEF Dumped
      <3>4. TableInv
        BY DEF SwapInv
      <3> QED
        BY <1>4, <3>1, <3>2, <3>3, <3>4 DEF TableInv
    <2> QED
      BY <1>2, <2>1, <2>2 DEF Effect, tableVars
  <1>18. FinalInv'
    <2>1. ~Final
      BY <1>1 DEF Final, ToolExits
    <2>2. Outcomes(Id)' = Outcomes(Id)
      BY <1>2 DEF Outcomes, storeVars
    <2> QED
      BY <1>4, <1>5, <1>7, <2>1, <2>2 DEF SwapInv, FinalInv, IsCompleted
  <1> QED
    BY <1>8, <1>9, <1>10, <1>11, <1>12, <1>13, <1>14, <1>15, <1>16, <1>17,
       <1>18 DEF SwapInv

(* The steps of the update that leave fstab itself alone.                  *)
LEMMA UpdateStep ==
  ASSUME SwapInv, ReadFstab \/ WriteBackup \/ SyncBackup \/ WriteTemp
  PROVE  SwapInv'
  <1>1. /\ UNCHANGED <<storeVars, mem, fresh, prepared, swapVars, toolVars, etc,
                       tableVars, dumpVars, opVars>>
        /\ \/ /\ pc = "read" /\ pc' = "backup"
              /\ {Old, New, Rival} \cap fstab = {Old}
              /\ before' = fstab /\ same' = TRUE /\ temp' = temp
              /\ backup' = backup /\ unsaved' = unsaved
           \/ /\ pc = "backup" /\ pc' = "backup_sync"
              /\ before' = before /\ same' = same /\ temp' = temp
              /\ backup' = before /\ unsaved' = {None}
           \/ /\ pc = "backup_sync" /\ pc' = "update_begin"
              /\ before' = before /\ same' = same /\ temp' = temp
              /\ backup' = backup /\ unsaved' = {}
           \/ /\ pc = "temp" /\ pc' = "recheck"
              /\ before' = before /\ same' = same
              /\ temp' = Version(Rewritten(before), TRUE)
              /\ backup' = backup /\ unsaved' = unsaved
    BY DEF ReadFstab, WriteBackup, SyncBackup, WriteTemp, Goto, etcVars,
           backupVars
  <1>2. at = pc /\ at' = pc' /\ Edge(pc, pc')
    BY <1>1, AtPc DEF Edge
  <1>3. PICK x, y : x = at /\ y = at'
    OBVIOUS
  <1>4. /\ JournalMoves(x, y) /\ ActiveMoves(x, y) /\ FstabMoves(x, y)
        /\ SwapfileMoves(x, y) /\ TableMoves(x, y)
        /\ x \notin Over /\ y \notin Removed
    BY <1>1, <1>2, <1>3, EdgeMoves
  <1>5. fstab \in SUBSET Lines
    BY LastVersion DEF SwapInv
  <1>6. "rename" \notin started'
    BY <1>1, <1>2
       DEF SwapInv, JournalInv, Unrenamed, Switched, Saving, Saved, toolVars
  <1>7. TypeOK'
    <2>1. StoreTyped(Journals)'
      BY <1>1, StoreUnchangedLemma DEF SwapInv, TypeOK
    <2>2. pc' \in ControlStates
      BY <1>1
         DEF ControlStates, Live, AfterCreation, AfterMkswap, AfterSwapon,
             AfterSwapoff, AfterBackup, Saving, Saved
    <2>3. /\ before' \in SUBSET Lines /\ same' \in BOOLEAN
          /\ backup' \in (SUBSET Lines) \cup {None} /\ unsaved' \in {{}, {None}}
      BY <1>1, <1>5 DEF SwapInv, TypeOK
    <2>4. temp' \in Versions \cup {None}
      <3>1. CASE pc = "temp"
        <4>1. before \in SUBSET Lines /\ before \ Notes = {Old}
          BY <1>2, <3>1 DEF SwapInv, TypeOK, UpdateInv, Saved
        <4> QED
          BY <1>1, <3>1, <4>1, RewrittenLines
      <3> QED
        BY <1>1, <3>1 DEF SwapInv, TypeOK
    <2> QED
      BY <1>1, <2>1, <2>2, <2>3, <2>4
         DEF SwapInv, TypeOK, swapVars, toolVars, tableVars, dumpVars, opVars
  <1>8. ToolInv'
    BY <1>1 DEF SwapInv, ToolInv, toolVars
  <1>9. SwapfileInv'
    BY <1>1, <1>3, <1>4, SwapfileFrame DEF swapVars, toolVars
  <1>10. JournalInv' /\ StoppedInv'
    BY <1>1, <1>3, <1>4, JournalFrame, StoppedFrame DEF toolVars
  <1>11. IntentInv'
    BY <1>1, IntentFrame DEF swapVars, toolVars
  <1>12. FstabInv'
    BY <1>1, <1>3, <1>4, FstabFrame DEF opVars, toolVars
  <1>13. UpdateInv'
    <2>1. typed' = typed /\ raced' = raced
      BY <1>1 DEF opVars
    <2>2. UpdateInv
      BY DEF SwapInv
    <2> USE DEF AfterBackup, AfterRename, AfterSync, Saving, Saved, Renamed,
                Removing, Removed
    <2>3. CASE pc = "read"
      <3>1. before' \ Notes = {Old}
        BY <1>1, <1>5, <2>3, ReadLines
      <3>2. ~raced => before' = typed
        <4>1. ~raced => fstab \in {typed, Rewritten(typed)}
          BY LastVersion DEF SwapInv, EditsSurvive, fstab
        <4> QED
          BY <1>1, <1>5, <2>3, <4>1, ReadLines
      <3> QED
        BY <1>1, <1>2, <1>6, <2>1, <2>3, <3>1, <3>2 DEF UpdateInv
    <2>4. CASE pc = "backup"
      BY <1>1, <1>2, <1>6, <2>1, <2>2, <2>4 DEF UpdateInv
    <2>5. CASE pc = "backup_sync"
      BY <1>1, <1>2, <1>6, <2>1, <2>2, <2>5 DEF UpdateInv
    <2>6. CASE pc = "temp"
      BY <1>1, <1>2, <1>6, <2>1, <2>2, <2>6 DEF UpdateInv
    <2> QED
      BY <1>1, <2>3, <2>4, <2>5, <2>6
  <1>14. EditsSurvive'
    BY <1>1 DEF SwapInv, EditsSurvive, opVars
  <1>15. ActiveInv'
    BY <1>1, <1>3, <1>4, ActiveFrame DEF opVars, swapVars, toolVars
  <1>16. TableInv'
    BY <1>1, <1>3, <1>4, TableFrame DEF opVars, tableVars, toolVars
  <1>17. FinalInv'
    BY <1>1, <1>2, <1>3, <1>4, FinalAway
  <1> QED
    BY <1>7, <1>8, <1>9, <1>10, <1>11, <1>12, <1>13, <1>14, <1>15, <1>16,
       <1>17 DEF SwapInv

(* The new file takes the place of fstab (Rename).                         *)
LEMMA RenameStep ==
  ASSUME SwapInv, Rename
  PROVE  SwapInv'
  <1>1. /\ pc = "rename" /\ pc' = "sync_etc"
        /\ etc' = Append(etc, temp) /\ temp' = None
        /\ started' = started \cup {"rename"}
        /\ UNCHANGED <<storeVars, mem, before, fresh, prepared, swapVars, tool,
                       same, backupVars, tableVars, dumpVars, opVars>>
    BY DEF Rename, Goto
  <1>2. at = pc /\ at' = pc' /\ Edge(pc, pc')
    BY <1>1, AtPc DEF Edge
  <1>3. PICK x, y : x = at /\ y = at'
    OBVIOUS
  <1>4. /\ JournalMoves(x, y) /\ ActiveMoves(x, y) /\ UpdateMoves(x, y)
        /\ SwapfileMoves(x, y) /\ TableMoves(x, y)
        /\ x \notin Over /\ y \notin Removed
    BY <1>1, <1>2, <1>3, EdgeMoves
  <1>5. /\ at \in Live \ Checked /\ at \in AfterMkswap /\ at \in AfterBackup
        /\ at \in Saved /\ at' \notin Unrenamed \cup Early
        /\ at' \notin AfterSync /\ at' = "sync_etc"
    <2>1. at = "rename" /\ at' = "sync_etc"
      BY <1>1, <1>2
    <2>2. at \in Saved /\ at \in AfterBackup /\ at \in AfterMkswap
      BY <2>1
         DEF AfterMkswap, AfterSwapon, AfterSwapoff, AfterBackup, Saved
    <2>3. at \in Live \ Checked
      BY <2>1, <2>2 DEF Live, AfterCreation, Checked
    <2>4. at' \notin AfterSync
      BY <2>1 DEF AfterSync, Removed, Removing, Renamed
    <2>5. at' \notin Unrenamed \cup Early
      BY <2>1
         DEF Unrenamed, Saved, Saving, Switched, Both, Formatted, Made,
             Creating, Checked, Early
    <2> QED
      BY <2>1, <2>2, <2>3, <2>4, <2>5
  <1>6. PICK v \in Versions :
          v = temp /\ v.contents = Rewritten(before) /\ v.synced = TRUE
                   /\ SwapLines(v) = {New}
    <2>1. before \in SUBSET Lines /\ before \ Notes = {Old}
      BY <1>2, <1>5 DEF SwapInv, TypeOK, UpdateInv
    <2>2. temp = Version(Rewritten(before), TRUE)
      BY <1>1, <1>2 DEF SwapInv, UpdateInv
    <2> QED
      BY <2>1, <2>2, RewrittenLines DEF SwapLines
  <1>7. "sfdisk" \notin started /\ "sfdisk" \notin started'
    <2>1. at \in Live \ (Removing \cup Removed \cup {"reload"})
      BY <1>1, <1>2, <1>5 DEF Removing, Removed
    <2> QED
      BY <1>1, <2>1 DEF SwapInv, TableInv
  <1>8. /\ etc' \in Seq(Versions) /\ Len(etc') > 0
        /\ etc'[Len(etc')] = v
        /\ \A i \in DOMAIN etc' :
             etc'[i] = v \/ \E k \in DOMAIN etc : etc'[i] = etc[k]
    <2>1. etc \in Seq(Versions) /\ Len(etc) \in Nat
      BY DEF SwapInv, TypeOK
    <2>2. etc' = Append(etc, v)
      BY <1>1, <1>6
    <2>3. etc' \in Seq(Versions) /\ Len(etc') = Len(etc) + 1
      BY <2>1, <2>2
    <2>4. DOMAIN etc' = 1..(Len(etc) + 1) /\ DOMAIN etc = 1..Len(etc)
      BY <2>1, <2>3
    <2> QED
      BY <2>1, <2>2, <2>3, <2>4
  <1>9. TypeOK'
    <2>1. StoreTyped(Journals)'
      BY <1>1, StoreUnchangedLemma DEF SwapInv, TypeOK
    <2>2. pc' \in ControlStates
      BY <1>1
         DEF ControlStates, Live, AfterCreation, AfterMkswap, AfterSwapon,
             AfterSwapoff, AfterBackup, AfterRename
    <2>3. started' \in SUBSET (ToolNames \cup {"rename"})
      BY <1>1 DEF SwapInv, TypeOK
    <2> QED
      BY <1>1, <1>8, <2>1, <2>2, <2>3
         DEF SwapInv, TypeOK, swapVars, backupVars, tableVars, dumpVars, opVars
  <1>10. ToolInv'
    <2>1. tool = None
      BY <1>1 DEF SwapInv, ToolInv
    <2> QED
      BY <1>1, <2>1 DEF ToolInv
  <1>11. SwapfileInv'
    BY <1>1, <1>3, <1>4, <1>5, SwapfileFrame DEF swapVars
  <1>12. JournalInv' /\ StoppedInv'
    BY <1>1, <1>3, <1>4, <1>5, JournalFrame, StoppedFrame
  <1>13. IntentInv'
    <2>1. mem.config
      BY <1>1, <1>2 DEF SwapInv, JournalInv
    <2> QED
      BY <1>1, <1>5, <1>7, <2>1, IntentNew
  <1>14. FstabInv'
    <2>1. FstabInv /\ meddled' = meddled
      BY <1>1 DEF SwapInv, opVars
    <2>2. \A i \in DOMAIN etc' : etc'[i].synced
      BY <1>6, <1>8, <2>1 DEF FstabInv
    <2>3. ~meddled' => \A i \in DOMAIN etc' :
             \/ SwapLines(etc'[i]) = {Old}
             \/ SwapLines(etc'[i]) = {New} /\ "rename" \in started'
      BY <1>1, <1>6, <1>8, <2>1 DEF FstabInv, SwapLines
    <2>4. SwapLines(etc'[Len(etc')]) = {New}
      BY <1>6, <1>8 DEF SwapLines
    <2> QED
      BY <1>5, <1>7, <2>2, <2>3, <2>4 DEF FstabInv, SwapLines
  <1>15. UpdateInv'
    BY <1>1, <1>3, <1>4, <1>5, UpdateFrame DEF opVars
  <1>16. EditsSurvive'
    <2>1. ~raced => Rewritten(before) = Rewritten(typed)
      BY <1>1, <1>2, <1>5 DEF SwapInv, UpdateInv
    <2>2. typed' = typed /\ raced' = raced
      BY <1>1 DEF opVars
    <2>3. ASSUME ~raced, NEW i \in DOMAIN etc'
          PROVE  etc'[i].contents \in {typed, Rewritten(typed)}
      BY <1>6, <1>8, <2>1, <2>3 DEF SwapInv, EditsSurvive
    <2> QED
      BY <2>2, <2>3 DEF EditsSurvive, Rewritten
  <1>17. ActiveInv'
    BY <1>1, <1>3, <1>4, ActiveFrame DEF opVars, swapVars
  <1>18. TableInv'
    BY <1>1, <1>3, <1>4, <1>7, TableFrame DEF opVars, tableVars
  <1>19. FinalInv'
    BY <1>1, <1>2, <1>3, <1>4, FinalAway
  <1> QED
    BY <1>9, <1>10, <1>11, <1>12, <1>13, <1>14, <1>15, <1>16, <1>17, <1>18,
       <1>19 DEF SwapInv

(* The rename is made durable (SyncEtc).                                   *)
LEMMA SyncEtcStep ==
  ASSUME SwapInv, SyncEtc
  PROVE  SwapInv'
  <1>1. /\ pc = "sync_etc" /\ pc' = "read_back"
        /\ etc' = <<etc[Len(etc)]>>
        /\ UNCHANGED <<storeVars, mem, before, fresh, prepared, swapVars,
                       toolVars, temp, same, backupVars, tableVars, dumpVars,
                       opVars>>
    BY DEF SyncEtc, Goto
  <1>2. at = pc /\ at' = pc' /\ Edge(pc, pc')
    BY <1>1, AtPc DEF Edge
  <1>3. PICK x, y : x = at /\ y = at'
    OBVIOUS
  <1>4. /\ JournalMoves(x, y) /\ ActiveMoves(x, y) /\ UpdateMoves(x, y)
        /\ SwapfileMoves(x, y) /\ TableMoves(x, y)
        /\ x \notin Over /\ y \notin Removed
    BY <1>1, <1>2, <1>3, EdgeMoves
  <1>5. PICK k \in DOMAIN etc : k = Len(etc)
    BY LastVersion DEF SwapInv
  <1>6. PICK v \in Versions : v = etc[k]
    BY LastVersion DEF SwapInv
  <1>7. etc' = <<v>>
    BY <1>1, <1>5, <1>6
  <1>8. DOMAIN etc' = {1} /\ etc'[1] = v
    BY <1>7
  <1>9. etc' \in Seq(Versions)
    BY <1>7
  <1>10. Len(etc') = 1
    BY <1>7
  <1>11. TypeOK'
    <2>1. StoreTyped(Journals)'
      BY <1>1, StoreUnchangedLemma DEF SwapInv, TypeOK
    <2>2. pc' \in ControlStates
      BY <1>1
         DEF ControlStates, Live, AfterCreation, AfterMkswap, AfterSwapon,
             AfterSwapoff, AfterBackup, AfterRename, AfterSync, Renamed
    <2> QED
      BY <1>1, <1>9, <1>10, <2>1, <2>2
         DEF SwapInv, TypeOK, swapVars, toolVars, backupVars, tableVars,
             dumpVars, opVars
  <1>12. ToolInv'
    BY <1>1 DEF SwapInv, ToolInv, toolVars
  <1>13. SwapfileInv'
    BY <1>1, <1>3, <1>4, SwapfileFrame DEF swapVars, toolVars
  <1>14. JournalInv' /\ StoppedInv'
    BY <1>1, <1>3, <1>4, JournalFrame, StoppedFrame DEF toolVars
  <1>15. IntentInv'
    BY <1>1, IntentFrame DEF swapVars, toolVars
  <1>16. FstabInv'
    <2>1. FstabInv /\ meddled' = meddled /\ started' = started
      BY <1>1 DEF SwapInv, opVars, toolVars
    <2>2. v.synced
      BY <1>6, <2>1 DEF FstabInv
    <2>3. ~meddled => SwapLines(v) = {New}
      BY <1>1, <1>2, <1>5, <1>6, <2>1 DEF FstabInv
    <2>4. ~meddled => \/ SwapLines(v) = {Old}
                      \/ SwapLines(v) = {New} /\ "rename" \in started
      BY <1>6, <2>1 DEF FstabInv
    <2> QED
      BY <1>1, <1>2, <1>8, <2>1, <2>2, <2>3, <2>4 DEF FstabInv, SwapLines
  <1>17. UpdateInv'
    BY <1>1, <1>3, <1>4, UpdateFrame DEF opVars, toolVars
  <1>18. EditsSurvive'
    <2>1. ~raced => v.contents \in {typed, Rewritten(typed)}
      BY <1>6 DEF SwapInv, EditsSurvive
    <2>2. typed' = typed /\ raced' = raced
      BY <1>1 DEF opVars
    <2> QED
      BY <1>8, <2>1, <2>2 DEF EditsSurvive, Rewritten
  <1>19. ActiveInv'
    BY <1>1, <1>3, <1>4, ActiveFrame DEF opVars, swapVars, toolVars
  <1>20. TableInv'
    BY <1>1, <1>3, <1>4, TableFrame DEF opVars, tableVars, toolVars
  <1>21. FinalInv'
    BY <1>1, <1>2, <1>3, <1>4, FinalAway
  <1> QED
    BY <1>11, <1>12, <1>13, <1>14, <1>15, <1>16, <1>17, <1>18, <1>19, <1>20,
       <1>21 DEF SwapInv

(* The recovery dump, the first and the second time (CaptureDump,          *)
(* WriteDump, SyncDump).                                                   *)
LEMMA DumpStep ==
  ASSUME SwapInv, CaptureDump \/ WriteDump \/ SyncDump
  PROVE  SwapInv'
  <1>1. /\ UNCHANGED <<storeVars, mem, before, swapVars, toolVars, etcVars,
                       backupVars, tableVars, opVars>>
        /\ \/ /\ pc = "capture" /\ pc' = "dump_write"
              /\ fresh' = table /\ prepared' = prepared
              /\ dump' = dump /\ undumped' = undumped
           \/ /\ pc = "dump_write" /\ pc' = "dump_compare"
              /\ fresh' = fresh /\ prepared' = prepared
              /\ \/ dump = None /\ dump' = fresh /\ undumped' = {None}
                 \/ dump # None /\ dump' = dump /\ undumped' = undumped
           \/ /\ pc = "dump_sync" /\ fresh' = fresh /\ prepared' = TRUE
              /\ pc' = IF prepared THEN "removal_begin" ELSE "authorize"
              /\ dump' = dump /\ undumped' = {}
    BY DEF CaptureDump, WriteDump, SyncDump, Goto, dumpVars
  <1>2. /\ at = pc /\ at' = pc' /\ Edge(pc, pc')
        /\ pc \in {"capture", "dump_write", "dump_sync"}
        /\ pc' \in {"dump_write", "dump_compare", "authorize",
                    "removal_begin"}
    BY <1>1, AtPc DEF Edge
  <1>3. PICK x, y : x = at /\ y = at'
    OBVIOUS
  <1>4. /\ JournalMoves(x, y) /\ ActiveMoves(x, y) /\ FstabMoves(x, y)
        /\ SwapfileMoves(x, y) /\ UpdateMoves(x, y)
        /\ x \notin Over /\ y \notin Removed
    BY <1>1, <1>2, <1>3, EdgeMoves DEF etcVars
  <1>5. TableInv /\ table \in SUBSET (Retired \cup {Sibling})
    BY DEF SwapInv, TypeOK
  <1>6. "sfdisk" \notin started /\ started' = started
    BY <1>1, <1>2
       DEF SwapInv, TableInv, Live, AfterCreation, AfterMkswap, AfterSwapon,
           AfterSwapoff, AfterBackup, AfterRename, AfterSync, Renamed,
           Removing, Removed, toolVars
  <1>7. /\ table \in Tables
        /\ sibling # "none" <=> Sibling \in table
        /\ pc \in {"dump_write", "dump_sync"} =>
             fresh \in Tables /\ (Sibling \in fresh => Sibling \in table)
        /\ pc = "dump_sync" => dump = fresh
        /\ prepared => dump \in Tables /\ undumped = {} /\ dump = Retired
        /\ pc \in {"dump_write", "dump_sync"} /\ prepared /\ sibling = "early"
             => Sibling \in fresh
    BY <1>2, <1>5, <1>6 DEF TableInv
  <1>8. /\ \A t \in Tables : t # None /\ t \in SUBSET (Retired \cup {Sibling})
        /\ Sibling \notin Retired
        /\ \A t \in Tables : t = Retired \/ Sibling \in t
    BY NoneAssumption, SwapAssumption DEF Tables, Retired
  <1>9. TypeOK'
    <2>1. StoreTyped(Journals)'
      BY <1>1, StoreUnchangedLemma DEF SwapInv, TypeOK
    <2>2. pc' \in ControlStates
      BY <1>2
         DEF ControlStates, Live, AfterCreation, AfterMkswap, AfterSwapon,
             AfterSwapoff, AfterBackup, AfterRename, AfterSync, Renamed
    <2>3. /\ fresh' \in SUBSET (Retired \cup {Sibling})
          /\ dump' \in (SUBSET (Retired \cup {Sibling})) \cup {None}
          /\ undumped' \in {{}, {None}}
      BY <1>1 DEF SwapInv, TypeOK
    <2>4. prepared' \in BOOLEAN
      BY <1>1 DEF SwapInv, TypeOK
    <2> QED
      BY <1>1, <2>1, <2>2, <2>3, <2>4
         DEF SwapInv, TypeOK, swapVars, toolVars, etcVars, backupVars,
             tableVars, opVars
  <1>10. ToolInv'
    BY <1>1, <1>2 DEF SwapInv, ToolInv, toolVars
  <1>11. SwapfileInv'
    BY <1>1, <1>3, <1>4, SwapfileFrame DEF swapVars, toolVars
  <1>12. JournalInv' /\ StoppedInv'
    BY <1>1, <1>3, <1>4, JournalFrame, StoppedFrame DEF toolVars
  <1>13. IntentInv'
    BY <1>1, IntentFrame DEF swapVars, toolVars
  <1>14. FstabInv'
    BY <1>1, <1>3, <1>4, FstabFrame DEF opVars, toolVars, etcVars
  <1>15. UpdateInv'
    BY <1>1, <1>3, <1>4, UpdateFrame DEF opVars, toolVars, etcVars
  <1>16. EditsSurvive'
    BY <1>1 DEF SwapInv, EditsSurvive, opVars, etcVars
  <1>17. ActiveInv'
    BY <1>1, <1>3, <1>4, ActiveFrame DEF opVars, swapVars, toolVars
  <1>18. TableInv'
    <2>1. table' = table /\ sibling' = sibling
      BY <1>1 DEF tableVars, opVars
    <2>2. at' \notin Removing /\ "sfdisk" \notin started'
      BY <1>2, <1>6 DEF Removing
    <2>3. CASE pc = "capture"
      BY <1>1, <1>2, <1>5, <1>7, <1>8, <2>1, <2>2, <2>3 DEF TableInv
    <2>4. CASE pc = "dump_write"
      <3>1. prepared => dump' = dump /\ undumped' = undumped
        BY <1>1, <1>7, <1>8, <2>4
      <3>2. dump' = None \/ dump' \in Tables
        BY <1>1, <1>5, <1>7, <2>4 DEF TableInv
      <3>3. Sibling \in table \/ dump' \in {None, Retired}
        BY <1>1, <1>5, <1>6, <1>7, <1>8, <2>4 DEF TableInv
      <3> QED
        BY <1>1, <1>2, <1>7, <2>1, <2>2, <2>4, <3>1, <3>2, <3>3 DEF TableInv
    <2>5. CASE pc = "dump_sync"
      <3>1. prepared => sibling # "early"
        BY <1>7, <1>8, <2>5
      <3> QED
        BY <1>1, <1>2, <1>5, <1>6, <1>7, <2>1, <2>2, <2>5, <3>1 DEF TableInv
    <2> QED
      BY <1>2, <2>3, <2>4, <2>5
  <1>19. FinalInv'
    BY <1>1, <1>2, <1>3, <1>4, FinalAway
  <1> QED
    BY <1>9, <1>10, <1>11, <1>12, <1>13, <1>14, <1>15, <1>16, <1>17, <1>18,
       <1>19 DEF SwapInv

-----------------------------------------------------------------------------
(* What the operator does.                                                 *)

(* Another version of fstab (EditFstab): an edit that the update could not *)
(* see is one that this step says it raced with.                           *)
LEMMA EditStep ==
  ASSUME SwapInv, EditFstab
  PROVE  SwapInv'
  <1>1. /\ UNCHANGED <<storeVars, procVars, swapVars, toolVars, temp,
                       backupVars, tableVars, dumpVars, sibling>>
        /\ meddles' = meddles + 1
    BY DEF EditFstab
  <1>2. PICK lines \in SUBSET Lines, inPlace \in BOOLEAN :
          /\ etc' = <<Version(lines, TRUE)>>
          /\ typed' = lines
          /\ same' = (same /\ inPlace)
          /\ raced' = (pc = "rename" \/ (pc \in Updating /\ same /\ inPlace))
          /\ meddled' = (meddled \/ lines \ Notes # fstab \ Notes)
    BY DEF EditFstab
  <1>3. PICK v \in Versions :
          v = Version(lines, TRUE) /\ v.contents = lines /\ v.synced = TRUE
    <2>1. Version(lines, TRUE) \in Versions
      BY DEF Version, Versions
    <2> QED
      BY <2>1 DEF Version
  <1>4. etc' = <<v>>
    BY <1>2, <1>3
  <1>5. DOMAIN etc' = {1} /\ etc'[1] = v
    BY <1>4
  <1>6. etc' \in Seq(Versions)
    BY <1>4
  <1>7. Len(etc') = 1
    BY <1>4
  <1>8. at' = at /\ pc' = pc /\ tool' = tool /\ started' = started
    BY <1>1 DEF at, procVars, toolVars
  <1>9. PICK x : x = at
    OBVIOUS
  <1>10. /\ JournalMoves(x, x) /\ SwapfileMoves(x, x) /\ TableMoves(x, x)
         /\ FinalMoves(x, x)
    BY StayMoves
  <1>11. PICK k \in DOMAIN etc : k = Len(etc)
    BY LastVersion DEF SwapInv
  <1>12. ~meddled' => ~meddled /\ v.contents \ Notes = SwapLines(etc[k])
    BY <1>2, <1>3, <1>11 DEF SwapLines, fstab
  <1>13. TypeOK'
    <2>1. StoreTyped(Journals)'
      BY <1>1, StoreUnchangedLemma DEF SwapInv, TypeOK
    <2>2. same' \in BOOLEAN
      BY <1>2
    <2>3. raced' \in BOOLEAN
      BY <1>2
    <2>4. meddled' \in BOOLEAN
      BY <1>2
    <2>5. meddles' \in Nat
      BY <1>1 DEF SwapInv, TypeOK
    <2>6. Len(etc') > 0
      BY <1>7
    <2>7. typed' \in SUBSET Lines
      BY <1>2
    <2>8. /\ pc' = pc /\ mem' = mem /\ before' = before /\ fresh' = fresh
          /\ prepared' = prepared
      BY <1>1 DEF procVars
    <2>9. /\ active' = active /\ swapfile' = swapfile /\ named' = named
          /\ started' = started /\ temp' = temp
      BY <1>1 DEF swapVars, toolVars
    <2>10. /\ backup' = backup /\ unsaved' = unsaved /\ table' = table
           /\ mapped' = mapped /\ dump' = dump /\ undumped' = undumped
           /\ sibling' = sibling
      BY <1>1 DEF backupVars, tableVars, dumpVars
    <2>11. TypeOK
      BY DEF SwapInv
    <2>12. /\ pc' \in ControlStates /\ mem' \in Journals \cup {None}
           /\ before' \in SUBSET Lines
           /\ fresh' \in SUBSET (Retired \cup {Sibling})
           /\ prepared' \in BOOLEAN
      BY <2>8, <2>11 DEF TypeOK
    <2>13. /\ active' \in SUBSET {Old, New}
           /\ swapfile' \in {"none", "partial", "allocated", "formatted"}
           /\ named' \in BOOLEAN
           /\ started' \in SUBSET (ToolNames \cup {"rename"})
           /\ temp' \in Versions \cup {None}
      BY <2>9, <2>11 DEF TypeOK
    <2>14. /\ backup' \in (SUBSET Lines) \cup {None}
           /\ unsaved' \in {{}, {None}}
           /\ table' \in SUBSET (Retired \cup {Sibling})
           /\ mapped' \in SUBSET (Retired \cup {Sibling})
           /\ dump' \in (SUBSET (Retired \cup {Sibling})) \cup {None}
           /\ undumped' \in {{}, {None}}
           /\ sibling' \in {"none", "early", "late"}
      BY <2>10, <2>11 DEF TypeOK
    <2> QED
      BY <1>6, <2>1, <2>2, <2>3, <2>4, <2>5, <2>6, <2>7, <2>12, <2>13, <2>14
         DEF TypeOK
  <1>14. ToolInv'
    BY <1>8 DEF SwapInv, ToolInv
  <1>15. SwapfileInv'
    BY <1>1, <1>8, <1>9, <1>10, SwapfileFrame DEF swapVars
  <1>16. JournalInv' /\ StoppedInv'
    BY <1>1, <1>8, <1>9, <1>10, JournalFrame, StoppedFrame DEF procVars
  <1>17. IntentInv'
    BY <1>1, <1>8, IntentFrame DEF swapVars, procVars
  <1>18. FstabInv'
    <2>1. FstabInv
      BY DEF SwapInv
    <2>2. etc'[1].synced /\ SwapLines(etc'[1]) = v.contents \ Notes
      BY <1>3, <1>5 DEF SwapLines
    <2>3. ~meddled' =>
            \/ v.contents \ Notes = {Old}
            \/ v.contents \ Notes = {New} /\ "rename" \in started
      BY <1>11, <1>12, <2>1 DEF FstabInv
    <2>4. at \in AfterSync \cup {"sync_etc"} \/ "sfdisk" \in started =>
            (~meddled' => v.contents \ Notes = {New})
      BY <1>11, <1>12, <2>1 DEF FstabInv
    <2> QED
      BY <1>5, <1>7, <1>8, <2>2, <2>3, <2>4 DEF FstabInv, SwapLines
  <1>19. UpdateInv'
    <2>1. /\ before' = before /\ backup' = backup /\ unsaved' = unsaved
          /\ temp' = temp
      BY <1>1 DEF procVars, backupVars
    <2>2. UpdateInv
      BY DEF SwapInv
    <2>3. at \in Saving \cup Saved => pc = at
      <3>1. pc = "await" => at \in ToolNames
        BY AtPc DEF SwapInv, ToolInv, Processes
      <3> QED
        BY <3>1, AtPc DEF Saving, Saved, ToolNames
    <2>4. at \in Saving \cup Saved /\ (same' \/ at = "rename") => raced'
      BY <1>2, <2>3 DEF Saving, Saved, Updating
    <2> QED
      BY <1>8, <2>1, <2>2, <2>4 DEF UpdateInv
  <1>20. EditsSurvive'
    BY <1>2, <1>3, <1>5 DEF EditsSurvive
  <1>21. ActiveInv'
    BY <1>1, <1>8, <1>12 DEF SwapInv, ActiveInv, swapVars
  <1>22. TableInv'
    BY <1>1, <1>8, <1>9, <1>10, TableFrame DEF procVars, tableVars
  <1>23. FinalInv'
    <2>1. Outcomes(Id)' = Outcomes(Id)
      BY <1>1 DEF Outcomes, storeVars
    <2>2. Final => Final'
      <3>1. Final /\ ~meddled' => SwapLines(etc'[1]) = {New}
        BY <1>3, <1>5, <1>11, <1>12 DEF Final, SwapLines
      <3> QED
        BY <1>1, <1>5, <1>8, <1>12, <3>1
           DEF Final, swapVars, tableVars, SwapLines
    <2> QED
      BY <1>8, <1>9, <1>10, <2>1, <2>2, FinalFrame
  <1> QED
    BY <1>13, <1>14, <1>15, <1>16, <1>17, <1>18, <1>19, <1>20, <1>21, <1>22,
       <1>23 DEF SwapInv

(* Other swap areas in use (OperatorSwaps).                                *)
LEMMA OperatorSwapsStep ==
  ASSUME SwapInv, OperatorSwaps
  PROVE  SwapInv'
  <1>1. /\ UNCHANGED <<storeVars, procVars, swapfile, named, toolVars,
                       etcVars, backupVars, tableVars, dumpVars, typed, raced,
                       sibling>>
        /\ active' \in SUBSET {Old, New} /\ meddles' = meddles + 1
        /\ meddled' = TRUE
    BY DEF OperatorSwaps
  <1>2. at' = at /\ pc' = pc /\ tool' = tool /\ started' = started
    BY <1>1 DEF at, procVars, toolVars
  <1>3. PICK x : x = at
    OBVIOUS
  <1>4. /\ JournalMoves(x, x) /\ SwapfileMoves(x, x) /\ UpdateMoves(x, x)
        /\ TableMoves(x, x) /\ FinalMoves(x, x)
    BY <1>1, StayMoves DEF etcVars
  <1>5. TypeOK'
    <2>1. StoreTyped(Journals)'
      BY <1>1, StoreUnchangedLemma DEF SwapInv, TypeOK
    <2>2. meddles' \in Nat
      BY <1>1 DEF SwapInv, TypeOK
    <2> QED
      BY <1>1, <2>1, <2>2
         DEF SwapInv, TypeOK, procVars, toolVars, etcVars, backupVars,
             tableVars, dumpVars
  <1>6. ToolInv'
    BY <1>2 DEF SwapInv, ToolInv
  <1>7. SwapfileInv'
    BY <1>1, <1>2, <1>3, <1>4, SwapfileFrame
  <1>8. JournalInv' /\ StoppedInv'
    BY <1>1, <1>2, <1>3, <1>4, JournalFrame, StoppedFrame DEF procVars
  <1>9. IntentInv'
    BY <1>1, <1>2, IntentFrame DEF procVars
  <1>10. FstabInv'
    BY <1>1 DEF SwapInv, FstabInv, etcVars
  <1>11. UpdateInv'
    BY <1>1, <1>2, <1>3, <1>4, UpdateFrame DEF procVars, etcVars
  <1>12. EditsSurvive'
    BY <1>1 DEF SwapInv, EditsSurvive, etcVars
  <1>13. ActiveInv'
    BY <1>1 DEF ActiveInv
  <1>14. TableInv'
    BY <1>1, <1>2, <1>3, <1>4, TableFrame DEF procVars, tableVars
  <1>15. FinalInv'
    <2>1. Outcomes(Id)' = Outcomes(Id)
      BY <1>1 DEF Outcomes, storeVars
    <2>2. Final => Final'
      BY <1>1, <1>2 DEF Final, tableVars
    <2> QED
      BY <1>2, <1>3, <1>4, <2>1, <2>2, FinalFrame
  <1> QED
    BY <1>5, <1>6, <1>7, <1>8, <1>9, <1>10, <1>11, <1>12, <1>13, <1>14, <1>15
       DEF SwapInv

(* Another logical partition (OperatorAddsSibling): late, from the capture *)
(* of the second dump.                                                     *)
LEMMA SiblingStep ==
  ASSUME SwapInv, OperatorAddsSibling
  PROVE  SwapInv'
  <1>1. /\ UNCHANGED <<storeVars, procVars, swapVars, toolVars, etcVars,
                       backupVars, dumpVars, meddled, typed, raced>>
        /\ Extended \in table /\ Sibling \notin table
        /\ table' = table \cup {Sibling} /\ mapped' = mapped \cup {Sibling}
        /\ meddles' = meddles + 1
        /\ \/ /\ sibling' = "late" /\ prepared
              /\ pc \notin {"authorize", "prepare", "receipt", "snapshot",
                            "capture"}
           \/ /\ sibling' = "early"
              /\ \/ ~prepared
                 \/ pc \in {"authorize", "prepare", "receipt", "snapshot",
                            "capture"}
    BY DEF OperatorAddsSibling
  <1>2. at' = at /\ pc' = pc /\ tool' = tool /\ started' = started
    BY <1>1 DEF at, procVars, toolVars
  <1>3. PICK x : x = at
    OBVIOUS
  <1>4. /\ JournalMoves(x, x) /\ SwapfileMoves(x, x) /\ FstabMoves(x, x)
        /\ UpdateMoves(x, x) /\ ActiveMoves(x, x) /\ FinalMoves(x, x)
    BY <1>1, StayMoves DEF etcVars
  <1>5. TypeOK'
    <2>1. StoreTyped(Journals)'
      BY <1>1, StoreUnchangedLemma DEF SwapInv, TypeOK
    <2>2. meddles' \in Nat
      BY <1>1 DEF SwapInv, TypeOK
    <2>3. /\ table' \in SUBSET (Retired \cup {Sibling})
          /\ mapped' \in SUBSET (Retired \cup {Sibling})
      BY <1>1 DEF SwapInv, TypeOK
    <2>4. sibling' \in {"none", "early", "late"}
      BY <1>1
    <2> QED
      BY <1>1, <2>1, <2>2, <2>3, <2>4
         DEF SwapInv, TypeOK, procVars, swapVars, toolVars, etcVars,
             backupVars, dumpVars
  <1>6. ToolInv'
    BY <1>2 DEF SwapInv, ToolInv
  <1>7. SwapfileInv'
    BY <1>1, <1>2, <1>3, <1>4, SwapfileFrame DEF swapVars
  <1>8. JournalInv' /\ StoppedInv'
    BY <1>1, <1>2, <1>3, <1>4, JournalFrame, StoppedFrame DEF procVars
  <1>9. IntentInv'
    BY <1>1, <1>2, IntentFrame DEF procVars, swapVars
  <1>10. FstabInv'
    BY <1>1, <1>2, <1>3, <1>4, FstabFrame DEF etcVars
  <1>11. UpdateInv'
    BY <1>1, <1>2, <1>3, <1>4, UpdateFrame DEF procVars, etcVars
  <1>12. EditsSurvive'
    BY <1>1 DEF SwapInv, EditsSurvive, etcVars
  <1>13. ActiveInv'
    BY <1>1, <1>2, <1>3, <1>4, ActiveFrame DEF swapVars
  <1>14. TableInv'
    <2>1. /\ dump' = dump /\ undumped' = undumped /\ fresh' = fresh
          /\ prepared' = prepared
      BY <1>1 DEF dumpVars, procVars
    <2>2. TableInv
      BY DEF SwapInv
    <2>3. "sfdisk" \notin started => table' \in Tables
      BY <1>1, <2>2, SwapAssumption DEF TableInv, Tables
    <2>4. at \in Dumped => sibling' = "late" \/ ~prepared
      <3>1. pc = "await" => at \in ToolNames
        BY AtPc DEF SwapInv, ToolInv, Processes
      <3>2. at \in Dumped => pc = at
        BY <3>1, AtPc DEF Dumped, ToolNames
      <3> QED
        BY <1>1, <3>2 DEF Dumped
    <2>5. at \in {"removal_begin"} \cup Removing \/ "sfdisk" \in started =>
            sibling' = "late"
      <3>1. pc \in {"authorize", "prepare", "receipt", "snapshot", "capture"}
              => "sfdisk" \notin started /\ at = pc
        <4>1. CASE pc \in {"authorize", "prepare", "receipt", "snapshot",
                           "capture"}
          <5>1. at = pc
            BY <4>1, AtPc
          <5>2. at \in Live \ (Removing \cup Removed \cup {"reload"})
            BY <4>1, <5>1
               DEF Live, AfterCreation, AfterMkswap, AfterSwapon,
                   AfterSwapoff, AfterBackup, AfterRename, AfterSync,
                   Renamed, Removing, Removed
          <5> QED
            BY <2>2, <5>1, <5>2 DEF TableInv
        <4> QED
          BY <4>1
      <3>2. at \in {"removal_begin"} \cup Removing \/ "sfdisk" \in started =>
              prepared
        BY <2>2 DEF TableInv
      <3> QED
        BY <1>1, <3>1, <3>2 DEF Removing
    <2> QED
      BY <1>1, <1>2, <2>1, <2>2, <2>3, <2>4, <2>5 DEF TableInv, Dumped
  <1>15. FinalInv'
    <2>1. Outcomes(Id)' = Outcomes(Id)
      BY <1>1 DEF Outcomes, storeVars
    <2>2. ~Final
      BY <1>1 DEF Final, Retired
    <2> QED
      BY <1>2, <1>3, <1>4, <2>1, <2>2, FinalFrame
  <1> QED
    BY <1>5, <1>6, <1>7, <1>8, <1>9, <1>10, <1>11, <1>12, <1>13, <1>14, <1>15
       DEF SwapInv

-----------------------------------------------------------------------------
(* A crash of the host.                                                    *)

(* What swap is in use after a boot (SwapsOf): the partition, as long as   *)
(* it is there, or the swapfile, when it is formatted.                     *)
LEMMA BootSwaps ==
  ASSUME NEW lines \in SUBSET Lines, NEW disk, NEW partitions
  PROVE  /\ SwapsOf(lines, disk, partitions) \in SUBSET {Old, New}
         /\ lines \ Notes = {Old} /\ Part \in partitions =>
              Old \in SwapsOf(lines, disk, partitions)
         /\ lines \ Notes = {New} /\ disk = "formatted" =>
              SwapsOf(lines, disk, partitions) = {New}
  <1>1. SwapsOf(lines, disk, partitions) \in SUBSET {Old, New}
    BY DEF SwapsOf
  <1>2. ASSUME lines \ Notes = {Old}, Part \in partitions
        PROVE  Old \in SwapsOf(lines, disk, partitions)
    BY <1>2 DEF SwapsOf
  <1>3. ASSUME lines \ Notes = {New}, disk = "formatted"
        PROVE  SwapsOf(lines, disk, partitions) = {New}
    <2>1. New \in lines /\ Old \notin lines /\ Rival \notin lines
      BY <1>3, SwapAssumption
    <2> QED
      BY <1>3, <2>1, SwapAssumption DEF SwapsOf
  <1> QED
    BY <1>1, <1>2, <1>3

(* Every version of fstab that a crash can bring back was synced whole, so *)
(* that a boot finds swap in it (HostCrash).                               *)
LEMMA CrashStep ==
  ASSUME SwapInv, HostCrash
  PROVE  SwapInv'
  <1>1. /\ StoreCrash
        /\ pc' = IF pc \in Ended THEN pc ELSE "killed"
        /\ swapfile' \in {swapfile} \cup (IF named THEN {} ELSE {"none"})
        /\ named' = (swapfile' # "none")
        /\ tool' = None /\ temp' = None
        /\ backup' \in {backup} \cup unsaved /\ unsaved' = {}
        /\ dump' \in {dump} \cup undumped /\ undumped' = {}
        /\ mapped' = table
        /\ UNCHANGED <<mem, before, fresh, prepared, started, same, table,
                       opVars>>
    BY DEF HostCrash
  <1>2. PICK i \in DOMAIN etc :
          \E lines \in {etc[i].contents}
                         \cup (IF etc[i].synced THEN {} ELSE {{}}) :
            /\ etc' = <<Version(lines, TRUE)>>
            /\ active' = SwapsOf(lines, swapfile', table)
    BY DEF HostCrash
  <1>3. PICK lines \in SUBSET Lines :
          /\ lines = etc[i].contents
          /\ etc' = <<Version(lines, TRUE)>>
          /\ active' = SwapsOf(lines, swapfile', table)
    <2>1. etc[i] \in Versions /\ etc[i].synced
      BY <1>2, LastVersion DEF SwapInv, FstabInv
    <2>2. etc[i].contents \in SUBSET Lines
      BY <2>1 DEF Versions
    <2> QED
      BY <1>2, <2>1, <2>2
  <1>4. PICK v \in Versions :
          v = Version(lines, TRUE) /\ v.contents = lines /\ v.synced = TRUE
    <2>1. Version(lines, TRUE) \in Versions
      BY <1>3 DEF Version, Versions
    <2> QED
      BY <2>1 DEF Version
  <1>5. etc' = <<v>>
    BY <1>3, <1>4
  <1>6. DOMAIN etc' = {1} /\ etc'[1] = v
    BY <1>5
  <1>7. etc' \in Seq(Versions)
    BY <1>5
  <1>8. Len(etc') = 1
    BY <1>5
  <1>9. /\ pc' \in Ended /\ at' = pc' /\ pc' # "await"
        /\ pc' = "stopped" => pc = "stopped"
    BY <1>1, AtPc DEF Ended
  <1>10. /\ at' \notin Live \cup Early \cup {"recover"}
         /\ at' \notin Unrenamed \cup Quiet
    BY <1>9
       DEF Ended, Unrenamed, Quiet, Live, AfterCreation, AfterMkswap,
           AfterSwapon, AfterSwapoff, AfterBackup, AfterRename, AfterSync,
           Removed, Removing, Renamed, Saved, Saving, Switched, Both,
           Formatted, Made, Creating, Checked, Early
  <1>11. /\ Outcomes(Id)' \subseteq Outcomes(Id) /\ StoreTyped(Journals)'
    BY <1>1, OneId, StoreCrashLemma DEF SwapInv, TypeOK
  <1>12. /\ swapfile = "formatted" /\ named =>
              swapfile' = "formatted" /\ named' = TRUE
         /\ swapfile' # "none" => swapfile # "none"
    BY <1>1
  <1>13. v.contents \ Notes = SwapLines(etc[i])
    BY <1>3, <1>4 DEF SwapLines
  <1>14. /\ ~meddled => \/ v.contents \ Notes = {Old}
                        \/ v.contents \ Notes = {New} /\ "rename" \in started
         /\ "sfdisk" \in started /\ ~meddled => v.contents \ Notes = {New}
    BY <1>2, <1>13 DEF SwapInv, FstabInv
  <1>15. typed' = typed /\ raced' = raced /\ meddled' = meddled
         /\ sibling' = sibling /\ meddles' = meddles
    BY <1>1 DEF opVars
  <1>16. TypeOK'
    <2>1. pc' \in ControlStates
      BY <1>9 DEF ControlStates
    <2>2. swapfile' \in {"none", "partial", "allocated", "formatted"}
      BY <1>1 DEF SwapInv, TypeOK
    <2>3. named' \in BOOLEAN
      BY <1>1
    <2>4. active' \in SUBSET {Old, New}
      BY <1>3, BootSwaps
    <2>5. /\ backup' \in (SUBSET Lines) \cup {None} /\ unsaved' \in {{}, {None}}
          /\ dump' \in (SUBSET (Retired \cup {Sibling})) \cup {None}
          /\ undumped' \in {{}, {None}}
      <3>1. unsaved \subseteq {None} /\ undumped \subseteq {None}
        BY DEF SwapInv, TypeOK
      <3>2. backup' \in {backup, None} /\ dump' \in {dump, None}
        BY <1>1, <3>1
      <3>3. backup' \in (SUBSET Lines) \cup {None}
        BY <3>2 DEF SwapInv, TypeOK
      <3>4. dump' \in (SUBSET (Retired \cup {Sibling})) \cup {None}
        BY <3>2 DEF SwapInv, TypeOK
      <3> QED
        BY <1>1, <3>3, <3>4
    <2>6. Len(etc') > 0
      BY <1>8
    <2> QED
      BY <1>1, <1>7, <1>11, <1>15, <2>1, <2>2, <2>3, <2>4, <2>5, <2>6
         DEF SwapInv, TypeOK
  <1>17. ToolInv'
    BY <1>1, <1>9 DEF ToolInv
  <1>18. SwapfileInv'
    <2>1. "rename" \in started' => named' /\ swapfile' = "formatted"
      BY <1>1, <1>12 DEF SwapInv, SwapfileInv
    <2>2. /\ at' \notin AfterCreation \cup AfterMkswap
          /\ at' \notin Early \cup {"sync_parent"}
      BY <1>10 DEF Live, AfterCreation, Creating
    <2> QED
      BY <2>1, <2>2 DEF SwapfileInv
  <1>19. JournalInv'
    <2>1. /\ at' \notin AfterRename \cup {"temp", "recheck", "rename"}
          /\ at' \notin Removing \cup Removed
      BY <1>10
         DEF Live, AfterCreation, AfterMkswap, AfterSwapon, AfterSwapoff,
             AfterBackup, AfterRename, AfterSync, Saved
    <2> QED
      BY <1>10, <2>1 DEF JournalInv
  <1>20. StoppedInv'
    BY <1>9, <1>11 DEF SwapInv, StoppedInv
  <1>21. IntentInv'
    BY <1>1, <1>11, <1>12 DEF SwapInv, IntentInv, Admits
  <1>22. FstabInv'
    <2>1. at' \notin AfterSync /\ at' # "sync_etc"
      BY <1>10
         DEF Live, AfterCreation, AfterMkswap, AfterSwapon, AfterSwapoff,
             AfterBackup, AfterRename
    <2> QED
      BY <1>1, <1>4, <1>6, <1>14, <1>15, <2>1 DEF FstabInv, SwapLines
  <1>23. UpdateInv'
    <2>1. at' \notin Saving \cup Saved \cup AfterBackup
      BY <1>10
         DEF Live, AfterCreation, AfterMkswap, AfterSwapon, AfterSwapoff,
             AfterBackup
    <2>2. "rename" \in started => backup = before /\ unsaved = {}
      BY DEF SwapInv, UpdateInv
    <2>3. "rename" \in started => backup' = before' /\ unsaved' = {}
      BY <1>1, <2>2
    <2> QED
      BY <1>1, <2>1, <2>3 DEF UpdateInv, Saved, Saving
  <1>24. EditsSurvive'
    <2>1. ~raced => v.contents \in {typed, Rewritten(typed)}
      BY <1>2, <1>3, <1>4 DEF SwapInv, EditsSurvive
    <2> QED
      BY <1>6, <1>15, <2>1 DEF EditsSurvive, Rewritten
  <1>25. ActiveInv'
    <2>1. at' \notin AfterSwapon \cup AfterSwapoff
      BY <1>10 DEF Live, AfterCreation, AfterMkswap, AfterSwapon
    <2>2. ~meddled => active' # {}
      <3>1. CASE v.contents \ Notes = {Old} /\ ~meddled
        <4>1. "sfdisk" \notin started
          BY <1>14, <3>1, SwapAssumption
        <4>2. Part \in table
          BY <4>1 DEF SwapInv, TableInv, Tables, Retired
        <4> QED
          BY <1>3, <1>4, <3>1, <4>2, BootSwaps
      <3>2. CASE v.contents \ Notes = {New} /\ "rename" \in started
        <4>1. swapfile' = "formatted"
          BY <1>12, <3>2 DEF SwapInv, SwapfileInv
        <4> QED
          BY <1>3, <1>4, <3>2, <4>1, BootSwaps
      <3> QED
        BY <1>14, <3>1, <3>2
    <2> QED
      BY <1>1, <1>15, <2>1, <2>2 DEF ActiveInv
  <1>26. TableInv'
    <2>1. TableInv /\ undumped \in {{}, {None}}
      BY DEF SwapInv, TypeOK
    <2>2. at' \notin Dumped \cup {"removal_begin", "capture"} \cup Removing
      BY <1>10
         DEF Live, AfterCreation, AfterMkswap, AfterSwapon, AfterSwapoff,
             AfterBackup, AfterRename, AfterSync, Renamed, Dumped
    <2>3. /\ dump' \in {dump, None}
          /\ prepared => dump' = dump /\ undumped' = {}
      BY <1>1, <2>1 DEF TableInv
    <2> QED
      BY <1>1, <1>10, <1>15, <2>1, <2>2, <2>3 DEF TableInv, Dumped
  <1>27. FinalInv'
    <2>1. at' \notin Removed
      BY <1>10
         DEF Live, AfterCreation, AfterMkswap, AfterSwapon, AfterSwapoff,
             AfterBackup, AfterRename, AfterSync
    <2>2. ASSUME Final PROVE Final'
      <3>1. /\ named' /\ swapfile' = "formatted"
            /\ Retired \cap (table' \cup mapped') = {}
        BY <1>1, <1>12, <2>2 DEF Final
      <3>2. ~meddled => v.contents \ Notes = {New}
        BY <1>2, <1>13, <2>2 DEF Final
      <3>3. ~meddled => active' = {New}
        BY <1>3, <1>4, <3>1, <3>2, BootSwaps
      <3> QED
        BY <1>1, <1>6, <1>15, <3>1, <3>2, <3>3 DEF Final, SwapLines
    <2>3. pc' \in {"recover", "reload"} \cup Ended
      BY <1>9
    <2> QED
      BY <1>11, <2>1, <2>2, <2>3 DEF SwapInv, FinalInv, IsCompleted
  <1> QED
    BY <1>16, <1>17, <1>18, <1>19, <1>20, <1>21, <1>22, <1>23, <1>24, <1>25,
       <1>26, <1>27 DEF SwapInv

-----------------------------------------------------------------------------
(* The steps that write the journal, and a kill.                           *)

(* What a transition makes of a journal: its phase is new, its flags only  *)
(* grow (Enter).                                                           *)
LEMMA EnterJournal ==
  ASSUME NEW j \in Journals, NEW phase \in Phases
  PROVE  /\ Enter(j, phase) \in Journals
         /\ Enter(j, phase).phase = phase
         /\ j.config \/ phase \in ConfigPhases => Enter(j, phase).config
         /\ j.table \/ phase \in TablePhases => Enter(j, phase).table
  <1>1. /\ (j.config \/ phase \in ConfigPhases) \in BOOLEAN
        /\ (j.table \/ phase \in TablePhases) \in BOOLEAN
    OBVIOUS
  <1>2. Enter(j, phase) \in Journals
    BY <1>1 DEF Enter, Journals
  <1>3. Enter(j, phase).phase = phase
    BY DEF Enter
  <1>4. Enter(j, phase).config = (j.config \/ phase \in ConfigPhases)
    BY DEF Enter
  <1>5. Enter(j, phase).table = (j.table \/ phase \in TablePhases)
    BY DEF Enter
  <1>6. j.config \/ phase \in ConfigPhases => Enter(j, phase).config
    BY <1>4
  <1>7. j.table \/ phase \in TablePhases => Enter(j, phase).table
    BY <1>5
  <1> QED
    BY <1>2, <1>3, <1>6, <1>7

(* The new journal is empty (Fresh).                                       *)
LEMMA FreshJournal ==
  Fresh \in Journals /\ Fresh.phase = "Prepared"
  <1>1. Fresh.phase = "Prepared"
    BY DEF Fresh
  <1> QED
    <2>1. Fresh.phase \in Phases /\ Fresh.config = FALSE /\ Fresh.table = FALSE
      BY <1>1, PhasesTable DEF Fresh
    <2>2. Fresh \in Journals
      BY PhasesTable DEF Fresh, Journals
    <2> QED
      BY <1>1, <2>2

(* Where a transition comes from, where it leads, and what the phase it    *)
(* records says of the stretch that it leads to (Transitions).             *)
LEMMA TransitionEdges ==
  ASSUME pc \in DOMAIN Transitions, NEW t, t = Transitions[pc]
  PROVE  /\ JournalEdge(pc, t.next) /\ JournalEdge(pc, t.failed)
         /\ t.phase \in Phases \ {"Prepared"}
         /\ pc \in Live \cup {"recover"}
         /\ pc \notin {"await", "killed", "reload"} \cup Ended
         /\ t.next \notin Early \cup {"await", "killed", "recover"}
         /\ t.next \in Unrenamed => pc \in Unrenamed
         /\ t.next \in AfterRename \cup {"temp", "recheck", "rename"} =>
              \/ pc \in AfterRename \cup {"temp", "recheck", "rename"}
              \/ t.phase \in ConfigPhases
         /\ t.next \in Removing \cup Removed =>
              pc \in Removing \cup Removed \/ t.phase \in TablePhases
         /\ t.next \in Quiet \cup {"stopped"} => t.phase \notin Started
         /\ t.phase = "Completed" => pc = "complete" /\ t.next = "reload"
         /\ t.failed \in {"unwritten", "unrecorded", "recover"}
         /\ t.failed = "recover" => pc = "complete"
         /\ t.next \in ControlStates
  <1>1. JournalEdge(pc, t.next) /\ JournalEdge(pc, t.failed)
    BY TransitionTable DEF JournalEdge
  <1>2. t.phase \in Phases \ {"Prepared"}
    BY TransitionTable, PhasesTable
  <1>3. /\ t.phase = "Completed" => pc = "complete" /\ t.next = "reload"
        /\ t.failed \in {"unwritten", "unrecorded", "recover"}
        /\ t.failed = "recover" => pc = "complete"
        /\ pc \notin {"await", "killed", "reload"} \cup Ended
    BY TransitionTable DEF Ended
  <1> USE DEF Live, AfterCreation, AfterMkswap, AfterSwapon, AfterSwapoff,
              AfterBackup, AfterRename, AfterSync, Removed, Removing, Renamed,
              Saved, Saving, Switched, Both, Formatted, Made, Creating, Checked,
              Early
  <1>4. pc \in Live \cup {"recover"}
    BY TransitionTable
  <1>5. t.next \notin Early \cup {"await", "killed", "recover"}
    BY TransitionTable
  <1>6. t.next \in Unrenamed => pc \in Unrenamed
    BY TransitionTable DEF Unrenamed
  <1>7. t.next \in AfterRename \cup {"temp", "recheck", "rename"} =>
          \/ pc \in AfterRename \cup {"temp", "recheck", "rename"}
          \/ t.phase \in ConfigPhases
    BY TransitionTable DEF ConfigPhases
  <1>8. t.next \in Removing \cup Removed =>
          pc \in Removing \cup Removed \/ t.phase \in TablePhases
    BY TransitionTable DEF TablePhases
  <1>9. t.next \in Quiet \cup {"stopped"} => t.phase \notin Started
    BY TransitionTable DEF Quiet, Started
  <1>10. t.next \in ControlStates
    BY TransitionTable DEF ControlStates, Ended
  <1> HIDE DEF Live, AfterCreation, AfterMkswap, AfterSwapon, AfterSwapoff,
               AfterBackup, AfterRename, AfterSync, Removed, Removing, Renamed,
               Saved, Saving, Switched, Both, Formatted, Made, Creating,
               Checked, Early
  <1> QED
    BY <1>1, <1>2, <1>3, <1>4, <1>5, <1>6, <1>7, <1>8, <1>9, <1>10

(* A step that changes nothing but pc, the journal in memory and the one   *)
(* on disk.                                                                *)
LEMMA JournalOnly ==
  ASSUME SwapInv,
         UNCHANGED <<before, fresh, prepared, swapVars, toolVars, etcVars,
                     backupVars, tableVars, dumpVars, opVars>>,
         SwapfileMoves(at, at'), FstabMoves(at, at'), UpdateMoves(at, at'),
         ActiveMoves(at, at'), TableMoves(at, at')
  PROVE  /\ SwapfileInv' /\ FstabInv' /\ UpdateInv' /\ EditsSurvive'
         /\ ActiveInv' /\ TableInv'
         /\ Final => Final'
         /\ (StoreTyped(Journals)' /\ pc' \in ControlStates
               /\ mem' \in Journals \cup {None}) => TypeOK'
  <1>1. SwapfileInv'
    BY SwapfileFrame DEF swapVars, toolVars
  <1>2. FstabInv'
    BY FstabFrame DEF opVars, toolVars, etcVars
  <1>3. UpdateInv'
    BY UpdateFrame DEF opVars, toolVars, etcVars
  <1>4. EditsSurvive'
    BY DEF SwapInv, EditsSurvive, opVars, etcVars
  <1>5. ActiveInv'
    BY ActiveFrame DEF opVars, swapVars, toolVars
  <1>6. TableInv'
    BY TableFrame DEF opVars, tableVars, toolVars
  <1>7. Final => Final'
    BY DEF Final, swapVars, toolVars, tableVars, opVars, etcVars
  <1>8. ASSUME StoreTyped(Journals)', pc' \in ControlStates,
               mem' \in Journals \cup {None}
        PROVE  TypeOK'
    BY <1>8
       DEF SwapInv, TypeOK, swapVars, toolVars, etcVars, backupVars,
           tableVars, dumpVars, opVars
  <1> QED
    BY <1>1, <1>2, <1>3, <1>4, <1>5, <1>6, <1>7, <1>8

(* The first record (PersistNew), its failure (PersistNewFails), and a     *)
(* kill on its way: nothing was started yet.                               *)
LEMMA PersistStep ==
  ASSUME SwapInv, pc = "journal", pc' \in {"check", "stopped", "killed"},
         \/ pc' = "check" /\ Created(Id, Fresh) /\ mem' = Fresh
         \/ pc' # "check" /\ CreateFails(Id, Fresh) /\ mem' = mem,
         UNCHANGED <<before, fresh, prepared, swapVars, toolVars, etcVars,
                     backupVars, tableVars, dumpVars, opVars>>
  PROVE  SwapInv'
  <1>1. at = pc /\ at' = pc' /\ at \in Early
    BY AtPc DEF Early
  <1>2. PICK x, y : x = at /\ y = at'
    OBVIOUS
  <1>3. JournalEdge(x, y) \/ y = "killed"
    BY <1>1, <1>2 DEF JournalEdge
  <1>4. /\ SwapfileMoves(x, y) /\ FstabMoves(x, y) /\ UpdateMoves(x, y)
        /\ ActiveMoves(x, y) /\ TableMoves(x, y)
    BY <1>3, JournalEdgeMoves, EndMoves DEF etcVars
  <1>5. /\ file[Id] = None /\ undo[Id] = {} /\ started = {}
        /\ swapfile = "none" /\ tool = None
    BY <1>1 DEF SwapInv, JournalInv, SwapfileInv, ToolInv
  <1>6. started' = started /\ swapfile' = swapfile /\ tool' = tool
    BY DEF toolVars, swapVars
  <1>7. Once(Fresh).record = Fresh /\ Twice(Fresh).record = Fresh
    BY OnceIsFile, FreshJournal
  <1>8. /\ StoreTyped(Journals)'
        /\ Outcomes(Id)' \subseteq {None, Once(Fresh), Twice(Fresh)}
        /\ pc' = "check" => Settled(Id, Fresh)'
    <2>1. CASE Created(Id, Fresh)
      <3>1. StoreTyped(Journals)' /\ Settled(Id, Fresh)'
        BY <2>1, CreatedLemma, FreshJournal, OneId DEF SwapInv, TypeOK
      <3> QED
        BY <3>1 DEF Settled, Outcomes
    <2>2. CASE pc' # "check" /\ CreateFails(Id, Fresh)
      <3>1. /\ StoreTyped(Journals)'
            /\ Outcomes(Id)' \subseteq
                 Outcomes(Id) \cup {None, Once(Fresh), Twice(Fresh)}
        BY <2>2, CreateFailsLemma, FreshJournal, OneId DEF SwapInv, TypeOK
      <3> QED
        BY <1>5, <2>2, <3>1 DEF Outcomes
    <2> QED
      BY <2>1, <2>2
  <1>9. TypeOK'
    <2>1. mem' \in Journals \cup {None}
      BY FreshJournal DEF SwapInv, TypeOK
    <2>2. pc' \in ControlStates
      BY DEF ControlStates, Live, Checked, Ended
    <2> QED
      BY <1>2, <1>4, <1>8, <2>1, <2>2, JournalOnly
  <1>10. ToolInv'
    BY <1>5, <1>6 DEF ToolInv
  <1>11. /\ SwapfileInv' /\ FstabInv' /\ UpdateInv' /\ EditsSurvive'
         /\ ActiveInv' /\ TableInv'
    BY <1>2, <1>4, JournalOnly
  <1>12. JournalInv'
    <2>1. CASE pc' = "check"
      <3>1. mem' = Fresh /\ Settled(Id, Fresh)'
        BY <1>8, <2>1
      <3>2. /\ at' = "check"
            /\ at' \notin Early \cup {"recover", "temp", "recheck", "rename"}
            /\ at' \in Checked
            /\ at' \notin AfterRename \cup Removing \cup Removed
        BY <1>1, <2>1
           DEF Early, Checked, AfterRename, AfterSync, Renamed, Removing,
               Removed
      <3>3. Settled(Id, mem)'
        BY <3>1 DEF Settled
      <3>4. mem'.phase = "Prepared" /\ mem' \in Journals
        BY <3>1, FreshJournal
      <3> QED
        BY <1>5, <1>6, <3>2, <3>3, <3>4 DEF JournalInv, Started
    <2>2. CASE pc' \in {"stopped", "killed"}
      <3>1. at' \in {"stopped", "killed"}
        BY <1>1, <2>2
      <3>2. at' \notin Live \cup Early \cup {"recover"}
        BY <3>1
           DEF Live, AfterCreation, AfterMkswap, AfterSwapon, AfterSwapoff,
               AfterBackup, AfterRename, AfterSync, Removed, Removing,
               Renamed, Saved, Saving, Switched, Both, Formatted, Made,
               Creating, Checked, Early
      <3>3. at' \notin Unrenamed \cup Quiet
        BY <3>1
           DEF Unrenamed, Quiet, Saved, Saving, Switched, Both, Formatted,
               Made, Creating, Checked, Early
      <3>4. /\ at' \notin AfterRename \cup {"temp", "recheck", "rename"}
            /\ at' \notin Removing \cup Removed
        BY <3>1
           DEF AfterRename, AfterSync, Renamed, Removing, Removed
      <3> QED
        BY <3>2, <3>3, <3>4 DEF JournalInv
    <2> QED
      BY <2>1, <2>2
  <1>13. IntentInv'
    BY <1>5, <1>6 DEF IntentInv
  <1>14. StoppedInv'
    BY <1>7, <1>8, FreshJournal DEF StoppedInv, Started
  <1>15. FinalInv'
    <2>1. at' \notin Removed
      BY <1>1 DEF Removed
    <2> QED
      BY <1>7, <1>8, <2>1, FreshJournal DEF FinalInv, IsCompleted
  <1> QED
    BY <1>9, <1>10, <1>11, <1>12, <1>13, <1>14, <1>15 DEF SwapInv

(* A transition that was recorded, in memory and on disk (Transition).     *)
LEMMA TransitionStep ==
  ASSUME SwapInv, Transition
  PROVE  SwapInv'
  <1>1. /\ UNCHANGED <<before, fresh, prepared, swapVars, toolVars, etcVars,
                       backupVars, tableVars, dumpVars, opVars>>
        /\ pc \in DOMAIN Transitions
    BY DEF Transition
  <1>2. PICK t : t = Transitions[pc]
    OBVIOUS
  <1>3. /\ Replaced(Id, Enter(mem, t.phase)) /\ mem' = Enter(mem, t.phase)
        /\ pc' = t.next
    BY <1>2 DEF Transition
  <1>4. /\ JournalEdge(pc, t.next) /\ t.phase \in Phases \ {"Prepared"}
        /\ pc \in Live \cup {"recover"} /\ pc \notin {"await", "killed"}
        /\ pc' \notin Early \cup {"await", "killed", "recover"}
        /\ pc' \in ControlStates
    BY <1>1, <1>2, <1>3, TransitionEdges
  <1>5. at = pc /\ at' = pc' /\ tool = None /\ tool' = None
    BY <1>1, <1>4, AtPc DEF SwapInv, ToolInv, toolVars
  <1>6. PICK x, y : x = at /\ y = at' /\ x = pc /\ y = t.next
    BY <1>3, <1>5
  <1>7. PICK j \in Journals : j = mem
    BY <1>4, <1>5 DEF SwapInv, JournalInv
  <1>8. PICK k \in Journals :
          /\ k = Enter(j, t.phase) /\ k.phase = t.phase
          /\ j.config \/ t.phase \in ConfigPhases => k.config
          /\ j.table \/ t.phase \in TablePhases => k.table
    BY <1>4, EnterJournal
  <1>9. /\ StoreTyped(Journals)' /\ Settled(Id, k)' /\ mem' = k
        /\ Outcomes(Id)' = {Once(k)}
    <2>1. Replaced(Id, k) /\ mem' = k
      BY <1>3, <1>7, <1>8
    <2>2. StoreTyped(Journals)' /\ Settled(Id, k)'
      BY <2>1, ReplacedLemma, OneId DEF SwapInv, TypeOK
    <2> QED
      BY <2>1, <2>2 DEF Settled, Outcomes
  <1>10. Once(k) # None /\ Once(k).record = k /\ Once(k).names = 1
    BY OnceIsFile, NoneAssumption DEF FilesOf
  <1>11. /\ SwapfileMoves(x, y) /\ FstabMoves(x, y) /\ UpdateMoves(x, y)
         /\ ActiveMoves(x, y) /\ TableMoves(x, y)
         /\ y \in Removed => x \in Removed
    BY <1>1, <1>4, <1>6, JournalEdgeMoves DEF etcVars
  <1>12. /\ SwapfileInv' /\ FstabInv' /\ UpdateInv' /\ EditsSurvive'
         /\ ActiveInv' /\ TableInv' /\ TypeOK' /\ (Final => Final')
    BY <1>1, <1>4, <1>6, <1>9, <1>11, JournalOnly
  <1>13. ToolInv'
    BY <1>4, <1>5 DEF ToolInv
  <1>14. started' = started /\ swapfile' = swapfile
    BY <1>1 DEF toolVars, swapVars
  <1>15. JournalInv'
    <2>1. JournalInv
      BY DEF SwapInv
    <2>2. at' \notin Early \cup {"recover"}
      BY <1>4, <1>5
    <2>3. at' \in Unrenamed => "rename" \notin started'
      BY <1>1, <1>2, <1>6, <1>14, <2>1, TransitionEdges DEF JournalInv
    <2>4. mem' \in Journals /\ mem'.phase # "Prepared" /\ Settled(Id, mem)'
      BY <1>4, <1>8, <1>9 DEF Settled
    <2>5. at' \in AfterRename \cup {"temp", "recheck", "rename"} => mem'.config
      <3>1. x \in AfterRename \cup {"temp", "recheck", "rename"} => j.config
        BY <1>6, <1>7, <2>1 DEF JournalInv
      <3> QED
        BY <1>1, <1>2, <1>6, <1>8, <1>9, <3>1, TransitionEdges
    <2>6. at' \in Removing \cup Removed => mem'.table
      <3>1. x \in Removing \cup Removed => j.table
        BY <1>6, <1>7, <2>1 DEF JournalInv
      <3> QED
        BY <1>1, <1>2, <1>6, <1>8, <1>9, <3>1, TransitionEdges
    <2>7. at' \in Quiet => mem'.phase \notin Started
      BY <1>1, <1>2, <1>6, <1>8, <1>9, TransitionEdges
    <2>8. mem'.phase = "Completed" => at' = "reload"
      BY <1>1, <1>2, <1>6, <1>8, <1>9, TransitionEdges
    <2> QED
      BY <2>2, <2>3, <2>4, <2>5, <2>6, <2>7, <2>8 DEF JournalInv
  <1>16. IntentInv'
    <2>1. ASSUME swapfile # "none" \/ started # {}
          PROVE  Admits(k)'
      <3>1. Admits(j)
        BY <1>7, <2>1 DEF SwapInv, IntentInv
      <3> QED
        BY <1>4, <1>8, <1>14, <3>1 DEF Admits
    <2> QED
      BY <1>9, <1>10, <1>14, <2>1 DEF IntentInv, Admits
  <1>17. StoppedInv'
    <2>1. pc' = "stopped" => k.phase \notin Started
      BY <1>1, <1>2, <1>3, <1>8, TransitionEdges
    <2> QED
      BY <1>9, <1>10, <2>1 DEF StoppedInv
  <1>18. FinalInv'
    <2>1. at' \in Removed => Final'
      BY <1>6, <1>11, <1>12 DEF SwapInv, FinalInv
    <2>2. k.phase = "Completed" => Final' /\ pc' = "reload"
      <3>1. "complete" \in Removed
        BY DEF Removed
      <3> QED
        BY <1>1, <1>2, <1>3, <1>5, <1>8, <1>12, <3>1, TransitionEdges
           DEF SwapInv, FinalInv
    <2> QED
      BY <1>9, <1>10, <2>1, <2>2 DEF FinalInv, IsCompleted
  <1> QED
    BY <1>12, <1>13, <1>15, <1>16, <1>17, <1>18 DEF SwapInv

(* A transition that was not recorded, or perhaps was (TransitionFails),   *)
(* and a kill on its way.                                                  *)
LEMMA TransitionFailsStep ==
  ASSUME SwapInv, pc \in DOMAIN Transitions,
         ReplaceFails(Id, Enter(mem, Transitions[pc].phase)),
         pc' \in {Transitions[pc].failed, "killed"},
         UNCHANGED <<mem, before, fresh, prepared, swapVars, toolVars,
                     etcVars, backupVars, tableVars, dumpVars, opVars>>
  PROVE  SwapInv'
  <1>1. PICK t : t = Transitions[pc]
    OBVIOUS
  <1>2. /\ ReplaceFails(Id, Enter(mem, t.phase))
        /\ pc' \in {t.failed, "killed"}
    BY <1>1
  <1>3. /\ JournalEdge(pc, pc') \/ pc' = "killed"
        /\ t.phase \in Phases \ {"Prepared"}
        /\ pc \in Live \cup {"recover"}
        /\ pc \notin {"await", "killed", "reload"} \cup Ended
        /\ t.phase = "Completed" => pc = "complete"
        /\ pc' \in {"unwritten", "unrecorded", "recover", "killed"}
        /\ pc' = "recover" => pc = "complete"
    BY <1>1, <1>2, TransitionEdges
  <1>4. at = pc /\ at' = pc' /\ tool = None /\ tool' = None
    BY <1>3, AtPc DEF SwapInv, ToolInv, toolVars
  <1>5. PICK x, y : x = at /\ y = at' /\ x = pc /\ y = pc'
    BY <1>4
  <1>6. PICK j \in Journals : j = mem
    BY <1>3, <1>4 DEF SwapInv, JournalInv
  <1>7. PICK k \in Journals :
          /\ k = Enter(j, t.phase) /\ k.phase = t.phase
          /\ j.config \/ t.phase \in ConfigPhases => k.config
          /\ j.table \/ t.phase \in TablePhases => k.table
    BY <1>3, EnterJournal
  <1>8. /\ StoreTyped(Journals)'
        /\ Outcomes(Id)' \subseteq Outcomes(Id) \cup {Once(k)}
    <2>1. ReplaceFails(Id, k)
      BY <1>2, <1>6, <1>7
    <2> QED
      BY <2>1, ReplaceFailsLemma, OneId DEF SwapInv, TypeOK
  <1>9. Once(k) # None /\ Once(k).record = k /\ Once(k).names = 1
    BY OnceIsFile, NoneAssumption DEF FilesOf
  <1>10. /\ SwapfileMoves(x, y) /\ FstabMoves(x, y) /\ UpdateMoves(x, y)
         /\ ActiveMoves(x, y) /\ TableMoves(x, y)
    BY <1>3, <1>5, JournalEdgeMoves, EndMoves DEF etcVars
  <1>11. pc' \in ControlStates
    BY <1>3 DEF ControlStates, Ended
  <1>12. /\ SwapfileInv' /\ FstabInv' /\ UpdateInv' /\ EditsSurvive'
         /\ ActiveInv' /\ TableInv' /\ TypeOK' /\ (Final => Final')
    <2>1. mem' \in Journals \cup {None}
      BY <1>6
    <2> QED
      BY <1>5, <1>8, <1>10, <1>11, <2>1, JournalOnly
  <1>13. ToolInv'
    BY <1>3, <1>4 DEF ToolInv
  <1>14. started' = started /\ swapfile' = swapfile
    BY DEF toolVars, swapVars
  <1>15. JournalInv'
    <2>1. mem' = j
      BY <1>6
    <2>2. at' = "recover" => j.phase # "Prepared"
      <3>1. "complete" \in Live \ Checked
        BY DEF Live, AfterCreation, AfterMkswap, AfterSwapon, AfterSwapoff,
               AfterBackup, AfterRename, AfterSync, Removed, Checked
      <3> QED
        BY <1>3, <1>4, <1>6, <3>1 DEF SwapInv, JournalInv
    <2>3. at' \notin Live \cup Early
      BY <1>3, <1>4
         DEF Live, AfterCreation, AfterMkswap, AfterSwapon, AfterSwapoff,
             AfterBackup, AfterRename, AfterSync, Removed, Removing,
             Renamed, Saved, Saving, Switched, Both, Formatted, Made,
             Creating, Checked, Early
    <2>4. at' \notin Unrenamed \cup Quiet
      BY <1>3, <1>4
         DEF Unrenamed, Quiet, Saved, Saving, Switched, Both, Formatted,
             Made, Creating, Checked, Early
    <2>5. /\ at' \notin AfterRename \cup {"temp", "recheck", "rename"}
          /\ at' \notin Removing \cup Removed
      BY <1>3, <1>4
         DEF AfterRename, AfterSync, Renamed, Removing, Removed
    <2> QED
      BY <2>1, <2>2, <2>3, <2>4, <2>5 DEF JournalInv
  <1>16. IntentInv'
    <2>1. ASSUME swapfile # "none" \/ started # {}
          PROVE  Admits(j)' /\ Admits(k)'
      <3>1. Admits(j)
        BY <1>6, <2>1 DEF SwapInv, IntentInv
      <3> QED
        BY <1>3, <1>7, <1>14, <3>1 DEF Admits
    <2>2. ASSUME swapfile # "none" \/ started # {},
                 NEW outcome \in Outcomes(Id)
          PROVE  outcome # None /\ outcome.names = 1 /\ Admits(outcome.record)'
      BY <1>14, <2>2 DEF SwapInv, IntentInv, Admits
    <2>3. mem' = j
      BY <1>6
    <2>4. ASSUME swapfile # "none" \/ started # {},
                 NEW outcome \in Outcomes(Id)'
          PROVE  outcome # None /\ outcome.names = 1 /\ Admits(outcome.record)'
      BY <1>8, <1>9, <2>1, <2>2, <2>4
    <2> QED
      BY <1>14, <2>1, <2>3, <2>4 DEF IntentInv, Admits
  <1>17. StoppedInv'
    BY <1>3 DEF StoppedInv
  <1>18. FinalInv'
    <2>1. at' \notin Removed
      BY <1>3, <1>4 DEF Removed
    <2>2. k.phase = "Completed" => Final'
      <3>1. "complete" \in Removed
        BY DEF Removed
      <3> QED
        BY <1>3, <1>4, <1>7, <1>12, <3>1 DEF SwapInv, FinalInv
    <2>3. pc' \in {"recover", "reload"} \cup Ended
      BY <1>3 DEF Ended
    <2>4. \A outcome \in Outcomes(Id) : IsCompleted(outcome) => Final'
      BY <1>12 DEF SwapInv, FinalInv
    <2> QED
      BY <1>8, <1>9, <2>1, <2>2, <2>3, <2>4 DEF FinalInv, IsCompleted
  <1> QED
    BY <1>12, <1>13, <1>15, <1>16, <1>17, <1>18 DEF SwapInv

(* SIGKILL (Kill): a write of the journal that was on its way may be on    *)
(* disk.                                                                   *)
LEMMA KillStep ==
  ASSUME SwapInv, Kill
  PROVE  SwapInv'
  <1>1. /\ InFlight /\ pc' = "killed"
        /\ UNCHANGED <<mem, before, fresh, prepared, swapVars, toolVars,
                       etcVars, backupVars, tableVars, dumpVars, opVars>>
    BY DEF Kill
  <1>2. CASE pc = "journal" /\ CreateFails(Id, Fresh)
    BY <1>1, <1>2, PersistStep
  <1>3. CASE /\ pc \in DOMAIN Transitions
             /\ ReplaceFails(Id, Enter(mem, Transitions[pc].phase))
    BY <1>1, <1>3, TransitionFailsStep
  <1>4. CASE UNCHANGED storeVars
    <2>1. at' = "killed"
      BY <1>1, AtPc
    <2>2. PICK x, y : x = at /\ y = at' /\ y = "killed"
      BY <2>1
    <2>3. /\ SwapfileMoves(x, y) /\ FstabMoves(x, y) /\ UpdateMoves(x, y)
          /\ ActiveMoves(x, y) /\ TableMoves(x, y) /\ JournalMoves(x, y)
          /\ FinalMoves(x, y)
      BY <2>2, EndMoves
    <2>4. /\ SwapfileInv' /\ FstabInv' /\ UpdateInv' /\ EditsSurvive'
          /\ ActiveInv' /\ TableInv' /\ TypeOK' /\ (Final => Final')
      <3>1. mem' \in Journals \cup {None} /\ StoreTyped(Journals)
        BY <1>1 DEF SwapInv, TypeOK
      <3>2. pc' \in ControlStates /\ StoreTyped(Journals)'
        BY <1>1, <1>4, <3>1, StoreUnchangedLemma DEF ControlStates, Ended
      <3> QED
        BY <1>1, <2>2, <2>3, <3>1, <3>2, JournalOnly
    <2>5. ToolInv'
      BY <1>1 DEF SwapInv, ToolInv, toolVars
    <2>6. JournalInv' /\ StoppedInv'
      BY <1>1, <1>4, <2>1, <2>2, <2>3, JournalFrame, StoppedFrame
         DEF Early, toolVars
    <2>7. IntentInv'
      BY <1>1, <1>4, IntentFrame DEF swapVars, toolVars
    <2>8. FinalInv'
      <3>1. Outcomes(Id)' = Outcomes(Id)
        BY <1>4 DEF Outcomes, storeVars
      <3>2. pc' \in Over
        BY <1>1 DEF Over, Ended
      <3> QED
        BY <2>2, <2>3, <2>4, <3>1, <3>2, FinalFrame
    <2> QED
      BY <2>4, <2>5, <2>6, <2>7, <2>8 DEF SwapInv
  <1> QED
    BY <1>1, <1>2, <1>3, <1>4 DEF InFlight

-----------------------------------------------------------------------------
(* The inductive invariant.                                                *)

(* A host before its migration (Init): swap on the partition, one line for *)
(* it in fstab, no journal.                                                *)
LEMMA InitLemma ==
  ASSUME Init
  PROVE  SwapInv
  <1>1. /\ StoreInit /\ pc = "activate" /\ mem = None /\ active = {Old}
        /\ swapfile = "none" /\ named = FALSE /\ tool = None /\ started = {}
        /\ temp = None /\ same = FALSE /\ before = {} /\ backup = None
        /\ unsaved = {} /\ table = Retired /\ mapped = Retired /\ fresh = {}
        /\ dump = None /\ undumped = {} /\ prepared = FALSE /\ meddles = 0
        /\ meddled = FALSE /\ raced = FALSE /\ sibling = "none"
    BY DEF Init
  <1>2. PICK lines \in SUBSET Notes :
          /\ etc = <<Version(lines \cup {Old}, TRUE)>>
          /\ typed = lines \cup {Old}
    BY DEF Init
  <1>3. lines \cup {Old} \in SUBSET Lines /\ (lines \cup {Old}) \ Notes = {Old}
    BY SwapAssumption DEF Lines
  <1>4. PICK v \in Versions : /\ v = Version(lines \cup {Old}, TRUE)
                              /\ v.contents = lines \cup {Old}
                              /\ v.synced = TRUE
    <2>1. Version(lines \cup {Old}, TRUE) \in Versions
      BY <1>3 DEF Version, Versions
    <2> QED
      BY <2>1 DEF Version
  <1>5. etc = <<v>>
    BY <1>2, <1>4
  <1>6. DOMAIN etc = {1} /\ etc[1] = v
    BY <1>5
  <1>7. etc \in Seq(Versions)
    BY <1>5
  <1>8. Len(etc) = 1
    BY <1>5
  <1>9. at = "activate"
    BY <1>1, AtPc
  <1>10. /\ at \in Early /\ at \in Unrenamed /\ at \notin Live
         /\ at \notin AfterCreation \cup Quiet
    BY <1>9
       DEF Unrenamed, Quiet, Live, AfterCreation, AfterMkswap, AfterSwapon,
           AfterSwapoff, AfterBackup, AfterRename, AfterSync, Removed,
           Removing, Renamed, Saved, Saving, Switched, Both, Formatted, Made,
           Creating, Checked, Early
  <1>11. /\ StoreTyped(Journals)
         /\ file[Id] = None /\ undo[Id] = {} /\ Outcomes(Id) = {None}
    BY <1>1, StoreInitLemma, OneId DEF Outcomes
  <1>12. SwapLines(v) = {Old}
    BY <1>3, <1>4 DEF SwapLines
  <1>13. TypeOK
    <2>1. /\ pc \in ControlStates
          /\ swapfile \in {"none", "partial", "allocated", "formatted"}
          /\ sibling \in {"none", "early", "late"}
      BY <1>1 DEF ControlStates, Early
    <2>2. /\ named \in BOOLEAN /\ same \in BOOLEAN /\ prepared \in BOOLEAN
          /\ meddled \in BOOLEAN /\ raced \in BOOLEAN
      BY <1>1
    <2>3. meddles \in Nat
      BY <1>1
    <2>4. Len(etc) > 0
      BY <1>8
    <2>5. /\ typed \in SUBSET Lines /\ before \in SUBSET Lines
          /\ active \in SUBSET {Old, New}
          /\ started \in SUBSET (ToolNames \cup {"rename"})
          /\ unsaved \in {{}, {None}} /\ undumped \in {{}, {None}}
      BY <1>1, <1>2, <1>3
    <2>6. /\ table \in SUBSET (Retired \cup {Sibling})
          /\ mapped \in SUBSET (Retired \cup {Sibling})
          /\ fresh \in SUBSET (Retired \cup {Sibling})
      BY <1>1
    <2> QED
      BY <1>1, <1>7, <1>11, <2>1, <2>2, <2>3, <2>4, <2>5, <2>6 DEF TypeOK
  <1>14. ToolInv
    BY <1>1 DEF ToolInv
  <1>15. SwapfileInv
    BY <1>1, <1>9, <1>10 DEF SwapfileInv, AfterCreation
  <1>16. JournalInv
    <2>1. /\ at \notin AfterRename \cup {"temp", "recheck", "rename"}
          /\ at \notin Removing \cup Removed \cup {"recover"}
      BY <1>9, <1>10
         DEF AfterCreation, AfterMkswap, AfterSwapon, AfterSwapoff,
             AfterBackup, AfterRename, AfterSync
    <2> QED
      BY <1>1, <1>10, <1>11, <2>1 DEF JournalInv
  <1>17. IntentInv
    BY <1>1 DEF IntentInv
  <1>18. StoppedInv
    BY <1>1 DEF StoppedInv
  <1>19. FstabInv
    <2>1. at \notin AfterSync \cup {"sync_etc"}
      BY <1>9, <1>10
         DEF AfterCreation, AfterMkswap, AfterSwapon, AfterSwapoff,
             AfterBackup, AfterRename
    <2> QED
      BY <1>1, <1>4, <1>6, <1>12, <2>1 DEF FstabInv
  <1>20. UpdateInv
    <2>1. at \notin Saving \cup Saved \cup AfterBackup
      BY <1>10
         DEF AfterCreation, AfterMkswap, AfterSwapon, AfterSwapoff,
             AfterBackup
    <2> QED
      BY <1>1, <1>9, <2>1 DEF UpdateInv
  <1>21. EditsSurvive
    BY <1>2, <1>4, <1>6 DEF EditsSurvive
  <1>22. ActiveInv
    <2>1. at \notin AfterSwapon \cup AfterSwapoff
      BY <1>10 DEF AfterCreation, AfterMkswap, AfterSwapon
    <2> QED
      BY <1>1, <2>1 DEF ActiveInv
  <1>23. TableInv
    <2>1. at \notin Removing
      BY <1>9 DEF Removing
    <2> QED
      BY <1>1, <1>9, <2>1, SwapAssumption DEF TableInv, Tables, Retired
  <1>24. FinalInv
    BY <1>9, <1>11 DEF FinalInv, IsCompleted, Removed
  <1> QED
    BY <1>13, <1>14, <1>15, <1>16, <1>17, <1>18, <1>19, <1>20, <1>21, <1>22,
       <1>23, <1>24 DEF SwapInv

(* No step of the migration, of its tools, of the operator or of the host  *)
(* leaves the invariant (Next).                                            *)
LEMMA NextStep ==
  ASSUME SwapInv, [Next]_vars
  PROVE  SwapInv'
  <1>1. CASE UNCHANGED vars
    <2>1. /\ at' = at /\ Outcomes(Id)' = Outcomes(Id)
          /\ file' = file /\ undo' = undo /\ pc' = pc /\ mem' = mem
      BY <1>1 DEF vars, procVars, toolVars, storeVars, at, Outcomes
    <2>2. TypeOK'
      BY <1>1
         DEF SwapInv, TypeOK, StoreTyped, vars, storeVars, procVars,
             swapVars, toolVars, etcVars, backupVars, tableVars, dumpVars,
             opVars
    <2>3. ToolInv'
      BY <1>1 DEF SwapInv, ToolInv, vars, procVars, toolVars
    <2>4. PICK x : x = at
      OBVIOUS
    <2>5. /\ SwapfileMoves(x, x) /\ FstabMoves(x, x) /\ UpdateMoves(x, x)
          /\ ActiveMoves(x, x) /\ TableMoves(x, x) /\ JournalMoves(x, x)
          /\ FinalMoves(x, x)
      BY <1>1, StayMoves DEF vars, etcVars
    <2>6. UNCHANGED <<storeVars, mem, before, fresh, prepared, swapVars,
                      toolVars, etcVars, backupVars, tableVars, dumpVars,
                      opVars>>
      BY <1>1 DEF vars, procVars
    <2>7. /\ SwapfileInv' /\ FstabInv' /\ UpdateInv' /\ EditsSurvive'
          /\ ActiveInv' /\ TableInv' /\ (Final => Final')
      BY <2>1, <2>4, <2>5, <2>6, JournalOnly
    <2>8. JournalInv' /\ StoppedInv'
      BY <2>1, <2>4, <2>5, <2>6, JournalFrame, StoppedFrame DEF toolVars
    <2>9. IntentInv'
      BY <2>6, IntentFrame DEF swapVars, toolVars
    <2>10. FinalInv'
      BY <2>1, <2>4, <2>5, <2>7, FinalFrame
    <2> QED
      BY <2>2, <2>3, <2>7, <2>8, <2>9, <2>10 DEF SwapInv
  <1>2. CASE \/ LookAndGo \/ LookFails \/ CannotLookAfterSwapoff
             \/ SyncParentFails \/ SpawnFails \/ Await \/ AwaitFails
             \/ Recheck \/ UpdateFails \/ CompareDump \/ DumpFails
    BY <1>2, IdleStep DEF Idle
  <1>3. CASE PersistNew
    BY <1>3, PersistStep DEF PersistNew, Goto
  <1>4. CASE PersistNewFails
    BY <1>4, PersistStep DEF PersistNewFails, Goto
  <1>5. CASE Transition
    BY <1>5, TransitionStep
  <1>6. CASE TransitionFails
    BY <1>6, TransitionFailsStep DEF TransitionFails
  <1>7. CASE CreateSwapfile \/ CreateSwapfileFails \/ SyncParent
    BY <1>7, SwapfileStep
  <1>8. CASE Spawn
    BY <1>8, SpawnStep
  <1>9. CASE ToolExits
    BY <1>9, ToolExitsStep
  <1>10. CASE ReadFstab \/ WriteBackup \/ SyncBackup \/ WriteTemp
    BY <1>10, UpdateStep
  <1>11. CASE Rename
    BY <1>11, RenameStep
  <1>12. CASE SyncEtc
    BY <1>12, SyncEtcStep
  <1>13. CASE CaptureDump \/ WriteDump \/ SyncDump
    BY <1>13, DumpStep
  <1>14. CASE Kill
    BY <1>14, KillStep
  <1>15. CASE HostCrash
    BY <1>15, CrashStep
  <1>16. CASE EditFstab
    BY <1>16, EditStep
  <1>17. CASE OperatorSwaps
    BY <1>17, OperatorSwapsStep
  <1>18. CASE OperatorAddsSibling
    BY <1>18, SiblingStep
  <1> QED
    BY <1>1, <1>2, <1>3, <1>4, <1>5, <1>6, <1>7, <1>8, <1>9, <1>10, <1>11,
       <1>12, <1>13, <1>14, <1>15, <1>16, <1>17, <1>18 DEF Next

(* Every reachable state of the migration satisfies the invariant, for     *)
(* every set of other lines in fstab and any number of things the operator *)
(* does (the steps of production_swap_loop_harness.rs).                    *)
THEOREM SwapInductive == Spec => []SwapInv
  <1>1. Init => SwapInv
    BY InitLemma
  <1>2. SwapInv /\ [Next]_vars => SwapInv'
    BY NextStep
  <1> QED
    BY <1>1, <1>2, PTL DEF Spec

-----------------------------------------------------------------------------
(* What it says of the migration.                                          *)

(* Once a mutation was started, whatever a crash leaves of the journal     *)
(* says so, and the fstab and the partition table of before are safe       *)
(* beside it (the intent-before-mutation phases of                         *)
(* production_swap_runtime_journal.rs).                                    *)
THEOREM WriteAheadHolds == Spec => []WriteAhead
  <1>1. SwapInv => WriteAhead
    <2> SUFFICES ASSUME SwapInv PROVE WriteAhead
      OBVIOUS
    <2>1. ASSUME swapfile # "none" \/ started # {},
                 NEW outcome \in Outcomes(Id)
          PROVE  /\ outcome # None /\ outcome.names = 1
                 /\ outcome.record.phase # "Prepared"
                 /\ "rename" \in started => outcome.record.config
                 /\ "sfdisk" \in started => outcome.record.table
      BY <2>1 DEF SwapInv, IntentInv, Admits
    <2>2. "rename" \in started => {backup} \cup unsaved = {before}
      BY DEF SwapInv, UpdateInv
    <2>3. "sfdisk" \in started => {dump} \cup undumped = {Retired}
      BY DEF SwapInv, TableInv
    <2> QED
      BY <2>1, <2>2, <2>3 DEF WriteAhead
  <1> QED
    BY <1>1, SwapInductive, PTL

(* The host has swap at every moment, and after a crash at any moment,     *)
(* unless the operator turns it off (the order of swapon, swapoff, the     *)
(* update of fstab and the removal).                                       *)
THEOREM SwapAlwaysHolds == Spec => []SwapAlways
  <1>1. SwapInv => SwapAlways
    BY DEF SwapInv, ActiveInv, SwapAlways
  <1> QED
    BY <1>1, SwapInductive, PTL

(* A logical partition that appears before the last dump of the table is   *)
(* never removed with its container (exact_removal_geometry, twice, and    *)
(* backup_matches_fresh_dump).                                             *)
THEOREM SiblingSparedHolds == Spec => []SiblingSpared
  <1>1. SwapInv => SiblingSpared
    BY DEF SwapInv, TableInv, SiblingSpared
  <1> QED
    BY <1>1, SwapInductive, PTL

(* The update of fstab takes away no edit that it could see                *)
(* (atomic_replace of production_swap_persistent_config.rs, which looks    *)
(* at the file once more before the rename).                               *)
THEOREM EditsSurviveHolds == Spec => []EditsSurvive
  <1>1. SwapInv => EditsSurvive
    BY DEF SwapInv
  <1> QED
    BY <1>1, SwapInductive, PTL

(* A journal that says Completed, before or after a crash, is true of the  *)
(* disk, and of swap and fstab unless the operator changed them            *)
(* (verify_post_state).                                                    *)
THEOREM CompletedTrueHolds == Spec => []CompletedTrue
  <1>1. SwapInv => CompletedTrue
    <2> SUFFICES ASSUME SwapInv, NEW outcome \in Outcomes(Id),
                        outcome # None, outcome.record.phase = "Completed"
                 PROVE  /\ Retired \cap (table \cup mapped) = {}
                        /\ ~meddled =>
                             /\ active = {New}
                             /\ \A i \in DOMAIN etc :
                                  etc[i].contents \ Notes = {New}
      BY DEF CompletedTrue
    <2>1. Final
      BY DEF SwapInv, FinalInv, IsCompleted
    <2> QED
      BY <2>1 DEF Final, SwapLines
  <1> QED
    BY <1>1, SwapInductive, PTL

(* An invocation that stopped with an error left no journal in the middle  *)
(* of a mutation (persist_recovery, in each of the three modules).         *)
THEOREM AmbiguityRecordedHolds == Spec => []AmbiguityRecorded
  <1>1. SwapInv => AmbiguityRecorded
    BY DEF SwapInv, StoppedInv, AmbiguityRecorded, Outcomes
  <1> QED
    BY <1>1, SwapInductive, PTL
=============================================================================
