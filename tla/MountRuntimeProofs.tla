------------------------- MODULE MountRuntimeProofs -------------------------
(***************************************************************************)
(* The mount and the update of fstab (MountRuntime), for any other lines   *)
(* of fstab and any number of edits by the operator: the two journals are  *)
(* ahead of what they announce (WriteAhead), fstab is never a file whose   *)
(* data is not on disk (FstabWhole), Completed is true of it for good      *)
(* (CompletedDurable), an error is on record (AmbiguityRecorded), and the  *)
(* operator's lines stay (EditsSurvive).                                   *)
(*                                                                         *)
(* The invariant MountInv says per stretch of the invocation what the two  *)
(* journals have on disk for certain, what is in the backup and beside     *)
(* fstab, and what the last check has seen of fstab.                       *)
(***************************************************************************)
EXTENDS MountRuntime, RecordStoreProofs

(* The control states, in the order an invocation passes them: up to the   *)
(* start of mount, until it is verified, while the update is prepared,     *)
(* under way, and after the rename.                                        *)
PreMount  == {"activate", "preflight", "mount_new", "mount_check",
              "mount_begin"}
InMount   == {"mount", "await", "mount_ran", "discover", "mount_verified",
              "mount_recover"}
Looking   == {"compare", "look_live", "update_new"}
Preparing == {"update_check", "look_alone", "read", "backup", "backup_write",
              "backup_sync", "update_begin"}
Writing   == {"temp", "recheck", "rename"}
Written   == {"update_written", "read_back", "look_line", "update_verified",
              "update_recover"}
Receipt   == {"receipt", "look_again", "reload"}

Unrenamed  == PreMount \cup InMount \cup Looking \cup Preparing \cup Writing
AfterMount == Looking \cup Preparing \cup Writing \cup {"sync"} \cup Written
                \cup Receipt

ControlStates == PreMount \cup InMount \cup AfterMount \cup Ended

TypeOK ==
  /\ StoreTyped(Phases)
  /\ pc \in ControlStates
  /\ mem \in [Ids -> Phases \cup {None}]
  /\ mounted \in {"none", "ours", "other"}
  /\ tool \in {"none", "running", "ok", "failed"}
  /\ etc \in Seq(Versions) /\ Len(etc) > 0
  /\ temp \in Versions \cup {None}
  /\ first \in SUBSET Lines /\ before \in SUBSET Lines
  /\ typed \in SUBSET Lines
  /\ backup \in Versions \cup {None} /\ unsaved \in {{}, {None}}
  /\ edits \in Nat
  /\ edited \in BOOLEAN /\ raced \in BOOLEAN
  /\ spawned \in BOOLEAN /\ renamed \in BOOLEAN

(* The journal of the mount is begun before mount is started, and finished *)
(* or recovered before the invocation goes on or stops.                    *)
MountJournalInv ==
  /\ pc \in PreMount => ~spawned
  /\ pc \in InMount \/ spawned => Recorded(Mount)
  /\ pc \in AfterMount \/ renamed => Settled(Mount, "Completed")
  /\ pc = "stopped" /\ spawned =>
       Settled(Mount, "Completed") \/ Settled(Mount, "RecoveryRequired")

(* So is the journal of the update, with the rename for the start.         *)
ConfigJournalInv ==
  /\ pc \in Unrenamed => ~renamed
  /\ pc \in Preparing => Settled(Config, "Prepared")
  /\ pc \in Writing \cup {"sync"} => Settled(Config, "UpdatingFstab")
  /\ pc \in Written \/ renamed => Recorded(Config)
  /\ pc \in Receipt => Settled(Config, "Completed")
  /\ pc = "stopped" /\ renamed =>
       Settled(Config, "Completed") \/ Settled(Config, "RecoveryRequired")

(* From the end of its sync the backup is what fstab was, for good.        *)
BackupInv ==
  /\ pc = "backup_sync" => backup = Version(before, TRUE)
  /\ renamed \/ pc \in {"update_begin", "sync"} \cup Writing \cup Written
                          \cup Receipt
       => backup = Version(before, TRUE) /\ unsaved = {}

(* What is about to be renamed, and what a check has seen of fstab, as     *)
(* long as nobody has edited it since.                                     *)
FstabInv ==
  /\ pc \in {"recheck", "rename"} => temp = Version(before \cup {Ours}, TRUE)
  /\ pc = "rename" /\ ~raced => fstab = before
  /\ pc \in {"update_written", "read_back", "look_line", "update_verified"} =>
       Len(etc) = 1
  /\ pc \in {"look_line", "update_verified"} /\ ~edited =>
       fstab = before \cup {Ours}

MountInv ==
  /\ TypeOK
  /\ MountJournalInv
  /\ ConfigJournalInv
  /\ BackupInv
  /\ FstabInv
  /\ FstabWhole
  /\ CompletedDurable
  /\ EditsSurvive

-----------------------------------------------------------------------------
(* The table Transitions: which journal and phase, and where to.           *)
LEMMA TransitionTable ==
  ASSUME pc \in DOMAIN Transitions, NEW t, t = Transitions[pc]
  PROVE  \/ /\ t.id = Mount
            /\ \/ /\ pc = "mount_begin" /\ t.phase = "Mounting"
                  /\ t.next = "mount" /\ t.failed = "stopped"
               \/ /\ pc = "mount_ran"
                  /\ t.phase = "MountedAwaitingVerification"
                  /\ t.next = "discover" /\ t.failed = "mount_recover"
               \/ /\ pc = "mount_verified" /\ t.phase = "Completed"
                  /\ t.next = "compare" /\ t.failed = "mount_recover"
               \/ /\ pc = "mount_recover" /\ t.phase = "RecoveryRequired"
                  /\ t.next = "stopped" /\ t.failed = "unrecorded"
         \/ /\ t.id = Config
            /\ \/ /\ pc = "update_begin" /\ t.phase = "UpdatingFstab"
                  /\ t.next = "temp" /\ t.failed = "stopped"
               \/ /\ pc = "update_written"
                  /\ t.phase = "FstabWrittenAwaitingVerification"
                  /\ t.next = "read_back" /\ t.failed = "update_recover"
               \/ /\ pc = "update_verified" /\ t.phase = "Completed"
                  /\ t.next = "receipt" /\ t.failed = "update_recover"
               \/ /\ pc = "update_recover" /\ t.phase = "RecoveryRequired"
                  /\ t.next = "stopped" /\ t.failed = "unrecorded"
  BY DEF Transitions, Step

(* The phases are those of the table, and Prepared.                        *)
LEMMA PhasesTable ==
  Phases = {"Prepared", "Mounting", "MountedAwaitingVerification",
            "Completed", "RecoveryRequired", "UpdatingFstab",
            "FstabWrittenAwaitingVerification"}
  <1>1. /\ Transitions["mount_begin"].phase = "Mounting"
        /\ Transitions["mount_ran"].phase = "MountedAwaitingVerification"
        /\ Transitions["mount_verified"].phase = "Completed"
        /\ Transitions["mount_recover"].phase = "RecoveryRequired"
        /\ Transitions["update_begin"].phase = "UpdatingFstab"
        /\ Transitions["update_written"].phase =
             "FstabWrittenAwaitingVerification"
        /\ Transitions["update_verified"].phase = "Completed"
        /\ Transitions["update_recover"].phase = "RecoveryRequired"
    BY DEF Transitions, Step
  <1>2. DOMAIN Transitions =
          {"mount_begin", "mount_ran", "mount_verified", "mount_recover",
           "update_begin", "update_written", "update_verified",
           "update_recover"}
    BY DEF Transitions
  <1> QED
    BY <1>1, <1>2 DEF Phases

(* The table Looks: where the checks lead, and what the one after the      *)
(* rename has seen.                                                        *)
LEMMA LooksTable ==
  ASSUME pc \in DOMAIN Looks
  PROVE  \/ /\ pc \in PreMount
            /\ Looks[pc].next \in PreMount /\ Looks[pc].failed = "stopped"
         \/ /\ pc = "discover"
            /\ Looks[pc].next = "mount_verified"
            /\ Looks[pc].failed = "mount_recover"
         \/ /\ pc \in {"compare", "look_live"}
            /\ Looks[pc].next \in Looking /\ Looks[pc].failed = "stopped"
         \/ /\ pc \in {"update_check", "look_alone"}
            /\ Looks[pc].next \in {"look_alone", "read"}
            /\ Looks[pc].failed = "stopped"
         \/ /\ pc = "read_back"
            /\ Looks[pc].next = "look_line"
            /\ Looks[pc].failed = "update_recover"
            /\ Looks[pc].sees = (fstab = before \cup {Ours})
         \/ /\ pc = "look_line"
            /\ Looks[pc].next = "update_verified"
            /\ Looks[pc].failed = "update_recover"
         \/ /\ pc \in Receipt
            /\ Looks[pc].next \in Receipt \cup {"done"}
            /\ Looks[pc].failed = "stopped"
  <1>1. pc \in {"activate", "preflight", "mount_check", "discover", "compare",
                "look_live", "update_check", "look_alone", "read_back",
                "look_line", "receipt", "look_again", "reload"}
    BY DEF Looks
  <1>2. CASE pc = "activate"
    BY <1>2 DEF Looks, Look, PreMount
  <1>3. CASE pc = "preflight"
    BY <1>3 DEF Looks, Look, PreMount
  <1>4. CASE pc = "mount_check"
    BY <1>4 DEF Looks, Look, PreMount
  <1>5. CASE pc = "discover"
    BY <1>5 DEF Looks, Look
  <1>6. CASE pc = "compare"
    BY <1>6 DEF Looks, Look, Looking
  <1>7. CASE pc = "look_live"
    BY <1>7 DEF Looks, Look, Looking
  <1>8. CASE pc = "update_check"
    BY <1>8 DEF Looks, Look
  <1>9. CASE pc = "look_alone"
    BY <1>9 DEF Looks, Look
  <1>10. CASE pc = "read_back"
    BY <1>10 DEF Looks, Look
  <1>11. CASE pc = "look_line"
    BY <1>11 DEF Looks, Look
  <1>12. CASE pc = "receipt"
    BY <1>12 DEF Looks, Look, Receipt
  <1>13. CASE pc = "look_again"
    BY <1>13 DEF Looks, Look, Receipt
  <1>14. CASE pc = "reload"
    BY <1>14 DEF Looks, Look, Receipt
  <1> QED
    BY <1>1, <1>2, <1>3, <1>4, <1>5, <1>6, <1>7, <1>8, <1>9, <1>10, <1>11,
       <1>12, <1>13, <1>14

-----------------------------------------------------------------------------
(* What is recorded stays recorded when nothing but later phases is        *)
(* written (persist).                                                      *)
LEMMA RecordedKept ==
  ASSUME NEW id, Recorded(id), Outcomes(id)' \subseteq Outcomes(id)
  PROVE  Recorded(id)'
  BY DEF Recorded

(* The same when a later phase may be written beside it (persist).         *)
LEMMA RecordedWritten ==
  ASSUME NEW id, Recorded(id), NEW j \in Phases, j # "Prepared",
         Outcomes(id)' \subseteq Outcomes(id) \cup {Once(j)}
  PROVE  Recorded(id)'
  <1>1. Once(j) # None /\ Once(j).names = 1 /\ Once(j).record = j
    BY OnceIsFile, NoneAssumption DEF FilesOf
  <1> QED
    BY <1>1 DEF Recorded

(* A durable record of a later phase is a record (persist returned Ok).    *)
LEMMA SettledRecorded ==
  ASSUME NEW id, NEW j \in Phases, j # "Prepared", Settled(id, j)
  PROVE  Recorded(id)
  <1>1. Once(j) # None /\ Once(j).names = 1 /\ Once(j).record = j
    BY OnceIsFile, NoneAssumption DEF FilesOf
  <1> QED
    BY <1>1 DEF Recorded, Settled, Outcomes

(* Completed is true of fstab as long as nothing changes, unless Completed *)
(* is new.                                                                 *)
LEMMA DurableFrame ==
  ASSUME CompletedDurable, UNCHANGED <<etc, before, edited>>,
         Outcomes(Config)' \subseteq Outcomes(Config)
  PROVE  CompletedDurable'
  BY DEF CompletedDurable

(* fstab is the last of its versions.                                      *)
LEMMA LastVersion ==
  ASSUME TypeOK
  PROVE  /\ DOMAIN etc = 1..Len(etc) /\ Len(etc) \in DOMAIN etc
         /\ \A i \in DOMAIN etc : etc[i] \in Versions
         /\ fstab \in SUBSET Lines
  <1>1. DOMAIN etc = 1..Len(etc) /\ Len(etc) \in DOMAIN etc
    BY DEF TypeOK
  <1>2. \A i \in DOMAIN etc : etc[i] \in Versions
    BY DEF TypeOK
  <1>3. PICK v \in Versions : v = etc[Len(etc)]
    BY <1>1, <1>2
  <1> QED
    BY <1>1, <1>2, <1>3 DEF fstab, Versions

(* The two IDs are all there are.                                          *)
LEMMA TwoIds == Mount \in Ids /\ Config \in Ids /\ Mount # Config
  BY MountAssumption

-----------------------------------------------------------------------------
(* A call to the store that failed, or that was cut off by a kill, leaves  *)
(* what the invocation relies on for the other journal, and for its own    *)
(* what was recorded (PersistNewFails, TransitionFails, InFlight).         *)
LEMMA InFlightLemma ==
  ASSUME MountInv, InFlight, UNCHANGED <<etc, before, edited>>
  PROVE  /\ StoreTyped(Phases)'
         /\ pc \in InMount \/ spawned => Recorded(Mount)'
         /\ pc \in AfterMount \/ renamed => Settled(Mount, "Completed")'
         /\ pc \in Written \/ renamed => Recorded(Config)'
         /\ CompletedDurable'
  <1>0. /\ StoreTyped(Phases)
        /\ "Prepared" \in Phases
        /\ CompletedDurable
        /\ pc \in InMount \/ spawned => Recorded(Mount)
        /\ pc \in AfterMount \/ renamed => Settled(Mount, "Completed")
        /\ pc \in Written \/ renamed => Recorded(Config)
    BY PhasesTable
       DEF MountInv, TypeOK, MountJournalInv, ConfigJournalInv
  <1>a. ASSUME \A x \in Ids : Untouched(x), StoreTyped(Phases)'
        PROVE  /\ StoreTyped(Phases)'
               /\ pc \in InMount \/ spawned => Recorded(Mount)'
               /\ pc \in AfterMount \/ renamed => Settled(Mount, "Completed")'
               /\ pc \in Written \/ renamed => Recorded(Config)'
               /\ CompletedDurable'
    BY <1>0, <1>a, TwoIds, UntouchedOutcomes, RecordedKept, SettledStays,
       DurableFrame
  <1>1. CASE UNCHANGED storeVars
    BY <1>0, <1>1, <1>a, StoreUnchangedLemma
  <1>2. CASE pc = "mount_new" /\ CreateFails(Mount, "Prepared")
    <2>1. ~spawned /\ ~renamed
      BY <1>2
         DEF MountInv, MountJournalInv, ConfigJournalInv, PreMount, Unrenamed
    <2>2. StoreTyped(Phases)' /\ Untouched(Config)
      BY <1>0, <1>2, TwoIds, CreateFailsLemma
    <2> QED
      BY <1>0, <1>2, <2>1, <2>2, UntouchedOutcomes, DurableFrame
         DEF InMount, AfterMount, Looking, Preparing, Writing, Written, Receipt
  <1>3. CASE pc = "update_new" /\ CreateFails(Config, "Prepared")
    <2>1. ~renamed /\ pc \notin Written
      BY <1>3 DEF MountInv, ConfigJournalInv, Unrenamed, Looking, Written
    <2>2. /\ StoreTyped(Phases)' /\ Untouched(Mount)
          /\ Outcomes(Config)' \subseteq
               Outcomes(Config) \cup {None, Once("Prepared"), Twice("Prepared")}
      BY <1>0, <1>3, TwoIds, CreateFailsLemma
    <2>3. CompletedDurable'
      <3>1. Once("Prepared").record = "Prepared"
            /\ Twice("Prepared").record = "Prepared"
        BY <1>0, OnceIsFile
      <3> QED
        BY <1>0, <2>2, <3>1 DEF CompletedDurable
    <2> QED
      BY <1>0, <2>1, <2>2, <2>3, UntouchedOutcomes, RecordedKept, SettledStays
  <1>4. CASE /\ pc \in DOMAIN Transitions
             /\ ReplaceFails(Transitions[pc].id, Transitions[pc].phase)
    <2>1. PICK t : t = Transitions[pc]
      OBVIOUS
    <2>2. t.phase \in Phases /\ t.phase # "Prepared"
      BY <1>4, <2>1, TransitionTable, PhasesTable
    <2>3. PICK j \in Phases : j = t.phase
      BY <2>2
    <2>4. CASE /\ t.id = Mount
               /\ pc \in {"mount_begin", "mount_ran", "mount_verified",
                          "mount_recover"}
      <3>1. /\ StoreTyped(Phases)' /\ Untouched(Config)
            /\ Outcomes(Mount)' \subseteq Outcomes(Mount) \cup {Once(j)}
        BY <1>0, <1>4, <2>1, <2>3, <2>4, TwoIds, ReplaceFailsLemma
      <3>2. ~renamed /\ pc \notin AfterMount /\ pc \notin Written
        BY <2>4
           DEF MountInv, ConfigJournalInv, Unrenamed, PreMount, InMount,
               AfterMount, Looking, Preparing, Writing, Written, Receipt
      <3>3. pc \in InMount \/ spawned => Recorded(Mount)'
        BY <1>0, <2>2, <2>3, <3>1, RecordedWritten
      <3>4. CompletedDurable'
        BY <1>0, <3>1, UntouchedOutcomes, DurableFrame
      <3> QED
        BY <3>1, <3>2, <3>3, <3>4
    <2>5. CASE /\ t.id = Config
               /\ pc \in {"update_begin", "update_written", "update_verified",
                          "update_recover"}
      <3>1. /\ StoreTyped(Phases)' /\ Untouched(Mount)
            /\ Outcomes(Config)' \subseteq Outcomes(Config) \cup {Once(j)}
        BY <1>0, <1>4, <2>1, <2>3, <2>5, TwoIds, ReplaceFailsLemma
      <3>2. /\ pc \in InMount \/ spawned => Recorded(Mount)'
            /\ pc \in AfterMount \/ renamed => Settled(Mount, "Completed")'
        BY <1>0, <3>1, UntouchedOutcomes, RecordedKept, SettledStays
      <3>3. pc \in Written \/ renamed => Recorded(Config)'
        BY <1>0, <2>2, <2>3, <3>1, RecordedWritten
      <3>4. CompletedDurable'
        <4>1. CASE pc = "update_verified"
          <5>1. ~edited => Len(etc) = 1 /\ fstab = before \cup {Ours}
            BY <4>1 DEF MountInv, FstabInv
          <5>2. ~edited => \A i \in DOMAIN etc : etc[i].lines = before \cup {Ours}
            <6>1. DOMAIN etc = 1..Len(etc)
              BY DEF MountInv, TypeOK
            <6> QED
              BY <5>1, <6>1 DEF fstab
          <5> QED
            BY <5>2 DEF CompletedDurable
        <4>2. CASE pc # "update_verified"
          <5>1. Once(j).record = j /\ j # "Completed"
            BY <1>4, <2>1, <2>3, <2>5, <4>2, TransitionTable, OnceIsFile
          <5> QED
            BY <1>0, <3>1, <5>1 DEF CompletedDurable
        <4> QED
          BY <4>1, <4>2
      <3> QED
        BY <3>1, <3>2, <3>3, <3>4
    <2> QED
      BY <1>4, <2>1, <2>4, <2>5, TransitionTable
  <1> QED
    BY <1>1, <1>2, <1>3, <1>4 DEF InFlight, NewJournals

(* The moves of pc that need no new record.                                *)
Follows(from, to) ==
  /\ to \in PreMount => from \in PreMount
  /\ to \in InMount => from \in InMount
  /\ to \in AfterMount => from \in AfterMount
  /\ to \in Unrenamed => from \in Unrenamed
  /\ to \in Preparing => from \in Preparing
  /\ to \in Writing => from \in Writing
  /\ to \in Written \cup {"sync"} =>
       from \in Written \cup {"sync"} \cup Writing
  /\ to = "sync" => from \in Writing \cup {"sync"}
  /\ to \in Receipt => from \in Receipt
  /\ to = "stopped" =>
       from \in PreMount \cup Looking \cup Preparing \cup Receipt \cup {"stopped"}

(* A step that does not call the store keeps what is said of the journals  *)
(* (checks, the mount process and the steps of the update).                *)
LEMMA JournalFrame ==
  ASSUME MountInv, UNCHANGED storeVars, Follows(pc, pc'),
         spawned' = spawned \/ pc \in InMount,
         renamed' = renamed \/ (pc = "rename" /\ pc' = "sync")
  PROVE  MountJournalInv' /\ ConfigJournalInv'
  <1>0. StoreTyped(Phases) /\ MountJournalInv /\ ConfigJournalInv
    BY DEF MountInv, TypeOK
  <1>1. \A x \in Ids : Untouched(x)
    BY <1>0, StoreUnchangedLemma
  <1>2. /\ Recorded(Mount) => Recorded(Mount)'
        /\ Recorded(Config) => Recorded(Config)'
        /\ \A j : Settled(Mount, j) => Settled(Mount, j)'
        /\ \A j : Settled(Config, j) => Settled(Config, j)'
    BY <1>1, TwoIds, UntouchedOutcomes, RecordedKept, SettledStays
  <1>3. Settled(Config, "UpdatingFstab") => Recorded(Config)
    BY PhasesTable, SettledRecorded
  <1>a. /\ PreMount \cap InMount = {} /\ PreMount \cap AfterMount = {}
        /\ InMount \cap AfterMount = {} /\ "stopped" \notin InMount
        /\ "rename" \in Writing /\ "rename" \in AfterMount
        /\ Looking \cup Preparing \cup Receipt \subseteq AfterMount
        /\ Looking \cup Preparing \cup PreMount \subseteq Unrenamed
        /\ "sync" \notin Unrenamed \cup PreMount \cup InMount \cup Preparing
                          \cup Writing \cup Written \cup Receipt
    BY DEF PreMount, InMount, AfterMount, Unrenamed, Looking, Preparing,
           Writing, Written, Receipt
  <1>4. MountJournalInv'
    BY <1>0, <1>2, <1>a DEF MountJournalInv, Follows
  <1>5. ConfigJournalInv'
    BY <1>0, <1>2, <1>3, <1>a DEF ConfigJournalInv, Follows
  <1> QED
    BY <1>4, <1>5

-----------------------------------------------------------------------------
(* The steps of the invocation, one lemma for each kind of step.           *)

(* FstabWhole, CompletedDurable and EditsSurvive stay as long as fstab and *)
(* the journal of the update do.                                           *)
LEMMA FstabFrame ==
  ASSUME MountInv, UNCHANGED <<storeVars, etc, before, editVars>>
  PROVE  FstabWhole' /\ CompletedDurable' /\ EditsSurvive'
  <1>1. Outcomes(Config)' = Outcomes(Config)
    BY DEF Outcomes, storeVars
  <1> QED
    BY <1>1, DurableFrame
       DEF MountInv, FstabWhole, EditsSurvive, editVars

(* The checks of the invocation (LookAndGo, LookFails).                    *)
LEMMA LookStep ==
  ASSUME MountInv, LookAndGo \/ LookFails
  PROVE  MountInv'
  <1>0. /\ pc \in DOMAIN Looks
        /\ \/ pc' = Looks[pc].next /\ Looks[pc].sees
           \/ pc' = Looks[pc].failed
        /\ UNCHANGED <<storeVars, mem, first, before, hostVars, etcVars,
                       backupVars, editVars>>
    BY DEF LookAndGo, LookFails
  <1>1. \/ pc \in PreMount /\ pc' \in PreMount \cup {"stopped"}
        \/ pc = "discover" /\ pc' \in {"mount_verified", "mount_recover"}
        \/ pc \in Looking /\ pc' \in Looking \cup {"stopped"}
        \/ /\ pc \in Preparing
           /\ pc' \in {"look_alone", "read", "stopped"}
        \/ pc = "read_back" /\ pc' = "look_line" /\ fstab = before \cup {Ours}
        \/ pc = "read_back" /\ pc' = "update_recover"
        \/ pc = "look_line" /\ pc' \in {"update_verified", "update_recover"}
        \/ pc \in Receipt /\ pc' \in Receipt \cup {"done", "stopped"}
    BY <1>0, LooksTable DEF Looking, Preparing
  <1> USE DEF PreMount, InMount, Looking, Preparing, Writing, Written, Receipt,
              AfterMount, Unrenamed
  <1>2. Follows(pc, pc')
    BY <1>1 DEF Follows
  <1>3. MountJournalInv' /\ ConfigJournalInv'
    BY <1>0, <1>2, JournalFrame DEF hostVars, etcVars
  <1>4. TypeOK'
    <2>1. StoreTyped(Phases)'
      BY <1>0, StoreUnchangedLemma DEF MountInv, TypeOK
    <2> QED
      BY <1>0, <1>1, <2>1
         DEF MountInv, TypeOK, hostVars, etcVars, backupVars, editVars,
             ControlStates, Ended
  <1>5. BackupInv'
    BY <1>0, <1>1 DEF MountInv, BackupInv, backupVars, etcVars
  <1>6. FstabInv'
    BY <1>0, <1>1 DEF MountInv, FstabInv, etcVars, editVars, fstab
  <1>7. FstabWhole' /\ CompletedDurable' /\ EditsSurvive'
    BY <1>0, FstabFrame DEF etcVars
  <1> QED
    BY <1>3, <1>4, <1>5, <1>6, <1>7 DEF MountInv

(* The mount process, and the operator beside it (Spawn, SpawnFails, Await, *)
(* ToolExits, OperatorMounts).                                             *)
LEMMA MountStep ==
  ASSUME MountInv,
         Spawn \/ SpawnFails \/ Await \/ ToolExits \/ OperatorMounts
  PROVE  MountInv'
  <1>1. /\ \/ pc = "mount" /\ pc' \in {"await", "mount_recover"}
           \/ pc = "await" /\ pc' \in {"mount_ran", "mount_recover"}
           \/ pc' = pc
        /\ spawned' = spawned \/ (pc = "mount" /\ spawned' = TRUE)
        /\ edits' \in Nat
        /\ UNCHANGED <<storeVars, mem, first, before, etcVars, backupVars,
                       typed, edited, raced>>
    BY DEF MountInv, TypeOK, Spawn, SpawnFails, Await, ToolExits,
           OperatorMounts, Goto, hostVars, procVars, editVars
  <1>2. tool' \in {"none", "running", "ok", "failed"}
    BY DEF MountInv, TypeOK, Spawn, SpawnFails, Await, ToolExits,
           OperatorMounts, hostVars
  <1>3. mounted' \in {"none", "ours", "other"}
    BY DEF MountInv, TypeOK, Spawn, SpawnFails, Await, ToolExits,
           OperatorMounts, hostVars
  <1> USE DEF PreMount, InMount, Looking, Preparing, Writing, Written, Receipt,
              AfterMount, Unrenamed
  <1>4. Follows(pc, pc')
    BY <1>1 DEF Follows
  <1>5. MountJournalInv' /\ ConfigJournalInv'
    BY <1>1, <1>4, JournalFrame DEF etcVars
  <1>6. TypeOK'
    <2>1. StoreTyped(Phases)'
      BY <1>1, StoreUnchangedLemma DEF MountInv, TypeOK
    <2>2. TypeOK
      BY DEF MountInv
    <2>3. pc' \in ControlStates
      BY <1>1, <2>2 DEF TypeOK, ControlStates
    <2>4. spawned' \in BOOLEAN
      BY <1>1, <2>2 DEF TypeOK
    <2>5. /\ mem' = mem /\ first' = first /\ before' = before
          /\ typed' = typed /\ edited' = edited /\ raced' = raced
          /\ edits' \in Nat
      BY <1>1
    <2>6. /\ etc' = etc /\ temp' = temp /\ renamed' = renamed
          /\ backup' = backup /\ unsaved' = unsaved
      BY <1>1 DEF etcVars, backupVars
    <2>7. /\ mem' \in [Ids -> Phases \cup {None}]
          /\ first' \in SUBSET Lines /\ before' \in SUBSET Lines
          /\ typed' \in SUBSET Lines
          /\ edited' \in BOOLEAN /\ raced' \in BOOLEAN
      BY <2>2, <2>5 DEF TypeOK
    <2>8. /\ etc' \in Seq(Versions) /\ Len(etc') > 0
          /\ temp' \in Versions \cup {None} /\ renamed' \in BOOLEAN
          /\ backup' \in Versions \cup {None} /\ unsaved' \in {{}, {None}}
      BY <2>2, <2>6 DEF TypeOK
    <2> QED
      BY <1>2, <1>3, <2>1, <2>3, <2>4, <2>5, <2>7, <2>8 DEF TypeOK
  <1>7. BackupInv'
    BY <1>1 DEF MountInv, BackupInv, backupVars, etcVars
  <1>8. FstabInv'
    BY <1>1 DEF MountInv, FstabInv, etcVars, fstab
  <1>9. FstabWhole' /\ CompletedDurable' /\ EditsSurvive'
    <2>1. Outcomes(Config)' = Outcomes(Config)
      BY <1>1 DEF Outcomes, storeVars
    <2> QED
      BY <1>1, <2>1, DurableFrame
         DEF MountInv, FstabWhole, EditsSurvive, etcVars
  <1> QED
    BY <1>5, <1>6, <1>7, <1>8, <1>9 DEF MountInv

(* A call to the store failed, or the invocation was killed in it.         *)
LEMMA FailStep ==
  ASSUME MountInv, PersistNewFails \/ TransitionFails \/ Kill
  PROVE  MountInv'
  <1>1. /\ InFlight
        /\ UNCHANGED <<mem, first, before, hostVars, etcVars, backupVars,
                       editVars>>
    BY DEF PersistNewFails, TransitionFails, Kill, InFlight
  <1>2. \/ pc \in {"mount_new", "update_new", "mount_begin", "update_begin"}
           /\ pc' = "stopped"
        \/ pc \in {"mount_ran", "mount_verified"} /\ pc' = "mount_recover"
        \/ pc \in {"update_written", "update_verified"}
           /\ pc' = "update_recover"
        \/ pc' \in {"unrecorded", "killed"}
    <2>1. CASE PersistNewFails
      BY <2>1 DEF PersistNewFails, NewJournals
    <2>2. CASE TransitionFails
      <3>1. PICK t : t = Transitions[pc]
        OBVIOUS
      <3> QED
        BY <2>2, <3>1, TransitionTable DEF TransitionFails
    <2>3. CASE Kill
      BY <2>3 DEF Kill
    <2> QED
      BY <2>1, <2>2, <2>3
  <1> USE DEF PreMount, InMount, Looking, Preparing, Writing, Written, Receipt,
              AfterMount, Unrenamed
  <1>3. /\ StoreTyped(Phases)'
        /\ pc \in InMount \/ spawned => Recorded(Mount)'
        /\ pc \in AfterMount \/ renamed => Settled(Mount, "Completed")'
        /\ pc \in Written \/ renamed => Recorded(Config)'
        /\ CompletedDurable'
    BY <1>1, InFlightLemma DEF etcVars, editVars
  <1>4. MountJournalInv'
    BY <1>1, <1>2, <1>3
       DEF MountInv, MountJournalInv, hostVars, etcVars, ConfigJournalInv
  <1>5. ConfigJournalInv'
    BY <1>1, <1>2, <1>3 DEF MountInv, ConfigJournalInv, etcVars
  <1>6. TypeOK'
    BY <1>1, <1>2, <1>3
       DEF MountInv, TypeOK, hostVars, etcVars, backupVars, editVars,
           ControlStates, Ended
  <1>7. BackupInv'
    BY <1>1, <1>2 DEF MountInv, BackupInv, backupVars, etcVars
  <1>8. FstabInv'
    BY <1>1, <1>2 DEF MountInv, FstabInv
  <1>9. FstabWhole' /\ EditsSurvive'
    BY <1>1 DEF MountInv, FstabWhole, EditsSurvive, etcVars, editVars
  <1> QED
    BY <1>3, <1>4, <1>5, <1>6, <1>7, <1>8, <1>9 DEF MountInv

(* A journal is created, and durable (persist_new).                        *)
LEMMA PersistNewStep ==
  ASSUME MountInv, PersistNew
  PROVE  MountInv'
  <1> USE DEF PreMount, InMount, Looking, Preparing, Writing, Written, Receipt,
              AfterMount, Unrenamed
  <1>0. /\ UNCHANGED <<first, before, hostVars, etcVars, backupVars, editVars>>
        /\ StoreTyped(Phases) /\ "Prepared" \in Phases
        /\ \/ /\ pc = "mount_new" /\ pc' = "mount_check"
              /\ Created(Mount, "Prepared")
              /\ mem' = [mem EXCEPT ![Mount] = "Prepared"]
           \/ /\ pc = "update_new" /\ pc' = "update_check"
              /\ Created(Config, "Prepared")
              /\ mem' = [mem EXCEPT ![Config] = "Prepared"]
    <2>1. /\ NewJournals["mount_new"] = Mount
          /\ NewJournals["update_new"] = Config
          /\ Checks["mount_new"] = "mount_check"
          /\ Checks["update_new"] = "update_check"
          /\ DOMAIN NewJournals = {"mount_new", "update_new"}
      BY DEF NewJournals, Checks
    <2>2. CASE pc = "mount_new"
      BY <2>1, <2>2, PhasesTable DEF PersistNew, MountInv, TypeOK
    <2>3. CASE pc = "update_new"
      BY <2>1, <2>3, PhasesTable DEF PersistNew, MountInv, TypeOK
    <2> QED
      BY <2>1, <2>2, <2>3 DEF PersistNew
  <1>1. /\ ~renamed /\ (pc = "mount_new" => ~spawned)
    BY <1>0 DEF MountInv, ConfigJournalInv, MountJournalInv
  <1>2. /\ StoreTyped(Phases)'
        /\ pc = "mount_new" => Untouched(Config)
        /\ pc = "update_new" => Untouched(Mount) /\ Settled(Config, "Prepared")'
    BY <1>0, TwoIds, CreatedLemma
  <1>3. MountJournalInv'
    <2>1. CASE pc = "mount_new"
      BY <1>0, <1>1, <2>1 DEF MountJournalInv, hostVars, etcVars
    <2>2. CASE pc = "update_new"
      <3>1. Settled(Mount, "Completed") /\ (spawned => Recorded(Mount))
        BY <2>2 DEF MountInv, MountJournalInv
      <3>2. Settled(Mount, "Completed")' /\ (spawned => Recorded(Mount)')
        BY <1>2, <2>2, <3>1, UntouchedOutcomes, RecordedKept, SettledStays
      <3> QED
        BY <1>0, <2>2, <3>2 DEF MountJournalInv, hostVars, etcVars
    <2> QED
      BY <1>0, <2>1, <2>2
  <1>4. ConfigJournalInv'
    BY <1>0, <1>1, <1>2 DEF ConfigJournalInv, etcVars
  <1>5. TypeOK'
    BY <1>0, <1>2
       DEF MountInv, TypeOK, hostVars, etcVars, backupVars, editVars,
           ControlStates
  <1>6. BackupInv'
    BY <1>0 DEF MountInv, BackupInv, backupVars, etcVars
  <1>7. FstabInv' /\ FstabWhole' /\ EditsSurvive'
    BY <1>0
       DEF MountInv, FstabInv, FstabWhole, EditsSurvive, etcVars, editVars
  <1>8. CompletedDurable'
    <2>1. CASE pc = "mount_new"
      BY <1>0, <1>2, <2>1, UntouchedOutcomes, DurableFrame
         DEF MountInv, etcVars, editVars
    <2>2. CASE pc = "update_new"
      <3>1. Outcomes(Config)' = {Once("Prepared")}
        BY <1>2, <2>2 DEF Settled, Outcomes
      <3>2. Once("Prepared").record = "Prepared"
        BY <1>0, OnceIsFile
      <3> QED
        BY <3>1, <3>2 DEF CompletedDurable
    <2> QED
      BY <1>0, <2>1, <2>2
  <1> QED
    BY <1>3, <1>4, <1>5, <1>6, <1>7, <1>8 DEF MountInv

(* A transition is recorded (persist).                                     *)
LEMMA TransitionStep ==
  ASSUME MountInv, Transition
  PROVE  MountInv'
  <1> USE DEF PreMount, InMount, Looking, Preparing, Writing, Written, Receipt,
              AfterMount, Unrenamed
  <1>1. PICK t : t = Transitions[pc]
    OBVIOUS
  <1>2. /\ pc \in DOMAIN Transitions
        /\ Replaced(t.id, t.phase)
        /\ mem' = [mem EXCEPT ![t.id] = t.phase]
        /\ pc' = t.next
        /\ UNCHANGED <<first, before, hostVars, etcVars, backupVars, editVars>>
    BY <1>1 DEF Transition
  <1>3. StoreTyped(Phases)
    BY DEF MountInv, TypeOK
  <1>4. \/ /\ t.id = Mount
           /\ \/ /\ pc = "mount_begin" /\ t.phase = "Mounting"
                 /\ t.next = "mount"
              \/ /\ pc = "mount_ran"
                 /\ t.phase = "MountedAwaitingVerification"
                 /\ t.next = "discover"
              \/ /\ pc = "mount_verified" /\ t.phase = "Completed"
                 /\ t.next = "compare"
              \/ /\ pc = "mount_recover" /\ t.phase = "RecoveryRequired"
                 /\ t.next = "stopped"
        \/ /\ t.id = Config
           /\ \/ /\ pc = "update_begin" /\ t.phase = "UpdatingFstab"
                 /\ t.next = "temp"
              \/ /\ pc = "update_written"
                 /\ t.phase = "FstabWrittenAwaitingVerification"
                 /\ t.next = "read_back"
              \/ /\ pc = "update_verified" /\ t.phase = "Completed"
                 /\ t.next = "receipt"
              \/ /\ pc = "update_recover" /\ t.phase = "RecoveryRequired"
                 /\ t.next = "stopped"
    BY <1>1, <1>2, TransitionTable
  <1>5. PICK j \in Phases : j = t.phase /\ j # "Prepared"
    BY <1>4, PhasesTable
  <1>6. TypeOK'
    <2>1. StoreTyped(Phases)'
      BY <1>2, <1>3, <1>4, <1>5, TwoIds, ReplacedLemma
    <2>2. mem' \in [Ids -> Phases \cup {None}]
      BY <1>2, <1>5 DEF MountInv, TypeOK
    <2>3. pc' \in ControlStates
      BY <1>2, <1>4 DEF ControlStates, Ended
    <2> QED
      BY <1>2, <2>1, <2>2, <2>3
         DEF MountInv, TypeOK, hostVars, etcVars, backupVars, editVars
  <1>7. BackupInv'
    BY <1>2, <1>4 DEF MountInv, BackupInv, backupVars, etcVars
  <1>8. FstabInv'
    BY <1>2, <1>4 DEF MountInv, FstabInv, etcVars, editVars, fstab
  <1>9. FstabWhole' /\ EditsSurvive'
    BY <1>2 DEF MountInv, FstabWhole, EditsSurvive, etcVars, editVars
  <1>10. CASE t.id = Mount
    <2>1. Settled(Mount, j)' /\ Untouched(Config)
      BY <1>2, <1>3, <1>5, <1>10, TwoIds, ReplacedLemma
    <2>2. pc \in {"mount_begin", "mount_ran", "mount_verified", "mount_recover"}
      BY <1>4, <1>10, TwoIds
    <2>3. ~renamed
      BY <2>2 DEF MountInv, ConfigJournalInv
    <2>4. Recorded(Mount)'
      <3>1. Once(j) # None /\ Once(j).names = 1 /\ Once(j).record = j
        BY OnceIsFile, NoneAssumption DEF FilesOf
      <3> QED
        BY <1>5, <2>1, <3>1 DEF Settled, Recorded, Outcomes
    <2>5. MountJournalInv'
      BY <1>2, <1>4, <1>5, <1>10, <2>1, <2>2, <2>3, <2>4, TwoIds
         DEF MountInv, MountJournalInv, hostVars, etcVars
    <2>6. ConfigJournalInv'
      BY <1>2, <1>4, <1>10, <2>2, <2>3, TwoIds DEF ConfigJournalInv, etcVars
    <2>7. CompletedDurable'
      BY <1>2, <2>1, UntouchedOutcomes, DurableFrame
         DEF MountInv, etcVars, editVars
    <2> QED
      BY <1>6, <1>7, <1>8, <1>9, <2>5, <2>6, <2>7 DEF MountInv
  <1>11. CASE t.id = Config
    <2>1. Settled(Config, j)' /\ Untouched(Mount)
      BY <1>2, <1>3, <1>5, <1>11, TwoIds, ReplacedLemma
    <2>2. pc \in {"update_begin", "update_written", "update_verified",
                  "update_recover"}
      BY <1>4, <1>11, TwoIds
    <2>3. Settled(Mount, "Completed")' /\ (spawned => Recorded(Mount)')
      BY <2>1, <2>2, UntouchedOutcomes, RecordedKept, SettledStays
         DEF MountInv, MountJournalInv
    <2>4. /\ Recorded(Config)'
          /\ Outcomes(Config)' = {Once(j)} /\ Once(j).record = j
      <3>1. Once(j) # None /\ Once(j).names = 1 /\ Once(j).record = j
        BY OnceIsFile, NoneAssumption DEF FilesOf
      <3> QED
        BY <1>5, <2>1, <3>1 DEF Settled, Recorded, Outcomes
    <2>5. MountJournalInv'
      BY <1>2, <1>4, <1>11, <2>2, <2>3, TwoIds
         DEF MountJournalInv, hostVars, etcVars
    <2>6. ConfigJournalInv'
      BY <1>2, <1>4, <1>5, <1>11, <2>1, <2>2, <2>4, TwoIds
         DEF MountInv, ConfigJournalInv, etcVars
    <2>7. CompletedDurable'
      <3>1. CASE pc = "update_verified"
        <4>1. ~edited => Len(etc) = 1 /\ fstab = before \cup {Ours}
          BY <3>1 DEF MountInv, FstabInv
        <4>2. ~edited => \A i \in DOMAIN etc : etc[i].lines = before \cup {Ours}
          <5>1. DOMAIN etc = 1..Len(etc)
            BY DEF MountInv, TypeOK
          <5> QED
            BY <4>1, <5>1 DEF fstab
        <4> QED
          BY <1>2, <4>2 DEF CompletedDurable, etcVars, editVars
      <3>2. CASE pc # "update_verified"
        <4>1. j # "Completed"
          BY <1>4, <1>5, <1>11, <3>2, TwoIds
        <4> QED
          BY <2>4, <4>1 DEF CompletedDurable
      <3> QED
        BY <3>1, <3>2
    <2> QED
      BY <1>6, <1>7, <1>8, <1>9, <2>5, <2>6, <2>7 DEF MountInv
  <1> QED
    BY <1>4, <1>10, <1>11

(* The steps of the update that leave fstab itself alone.                  *)
LEMMA UpdateStep ==
  ASSUME MountInv,
         \/ ReadFstab \/ CreateBackup \/ WriteBackup \/ SyncBackup
         \/ WriteTemp \/ Recheck \/ UpdateFails
  PROVE  MountInv'
  <1> USE DEF PreMount, InMount, Looking, Preparing, Writing, Written, Receipt,
              AfterMount, Unrenamed
  <1>1. /\ UNCHANGED <<storeVars, mem, first, hostVars, etc, renamed, editVars>>
        /\ \/ pc = "read" /\ pc' = "backup"
           \/ pc = "backup" /\ pc' = "backup_write"
           \/ pc = "backup_write" /\ pc' = "backup_sync"
           \/ pc = "backup_sync" /\ pc' = "update_begin"
           \/ pc = "temp" /\ pc' = "recheck"
           \/ pc = "recheck" /\ pc' = "rename"
           \/ /\ pc \in {"read", "backup", "backup_write", "backup_sync"}
              /\ pc' = "stopped"
           \/ /\ pc \in {"temp", "recheck", "rename", "sync"}
              /\ pc' = "update_recover"
        /\ before' = before \/ (pc = "read" /\ before' = fstab)
    BY DEF ReadFstab, CreateBackup, WriteBackup, SyncBackup, WriteTemp,
           Recheck, UpdateFails, Goto, etcVars
  <1>2. Follows(pc, pc')
    BY <1>1 DEF Follows
  <1>3. MountJournalInv' /\ ConfigJournalInv'
    BY <1>1, <1>2, JournalFrame DEF hostVars
  <1>4. before' \in SUBSET Lines
    BY <1>1, LastVersion DEF MountInv, TypeOK
  <1>5. /\ Version({}, FALSE) \in Versions
        /\ Version(before, TRUE) \in Versions
        /\ Version(before \cup {Ours}, TRUE) \in Versions
        /\ Version(before \cup {Ours}, TRUE).synced = TRUE
    BY DEF MountInv, TypeOK, Version, Versions, Lines
  <1>6. /\ backup' \in Versions \cup {None}
        /\ unsaved' \in {{}, {None}}
        /\ temp' \in Versions \cup {None}
    BY <1>5 DEF MountInv, TypeOK, ReadFstab, CreateBackup, WriteBackup,
                SyncBackup, WriteTemp, Recheck, UpdateFails, etcVars,
                backupVars
  <1>7. TypeOK'
    <2>1. StoreTyped(Phases)'
      BY <1>1, StoreUnchangedLemma DEF MountInv, TypeOK
    <2> QED
      BY <1>1, <1>4, <1>6, <2>1
         DEF MountInv, TypeOK, hostVars, editVars, ControlStates, Ended
  <1>8. BackupInv'
    <2>1. ~renamed => renamed' = renamed
      BY <1>1
    <2>2. pc = "sync" \/ ~renamed
      BY <1>1 DEF MountInv, ConfigJournalInv
    <2>3. CASE WriteBackup \/ SyncBackup
      BY <1>1, <2>2, <2>3
         DEF MountInv, BackupInv, WriteBackup, SyncBackup, Goto
    <2>4. CASE ReadFstab \/ CreateBackup
      BY <1>1, <2>2, <2>4 DEF BackupInv, ReadFstab, CreateBackup, Goto
    <2>5. CASE WriteTemp \/ Recheck \/ UpdateFails
      BY <1>1, <2>5
         DEF MountInv, BackupInv, WriteTemp, Recheck, UpdateFails, Goto,
             backupVars
    <2> QED
      BY <2>3, <2>4, <2>5
  <1>9. FstabInv'
    <2>1. CASE WriteTemp
      BY <2>1 DEF FstabInv, WriteTemp, Goto
    <2>2. CASE Recheck
      BY <2>2 DEF MountInv, FstabInv, Recheck, Goto, etcVars, editVars, fstab
    <2>3. CASE UpdateFails
      BY <1>1, <2>3 DEF FstabInv, UpdateFails
    <2>4. CASE ReadFstab \/ CreateBackup \/ WriteBackup \/ SyncBackup
      BY <2>4
         DEF FstabInv, ReadFstab, CreateBackup, WriteBackup, SyncBackup, Goto
    <2> QED
      BY <2>1, <2>2, <2>3, <2>4
  <1>10. FstabWhole' /\ EditsSurvive'
    BY <1>1 DEF MountInv, FstabWhole, EditsSurvive, editVars
  <1>11. CompletedDurable'
    <2>1. CASE before' = before
      <3>1. Outcomes(Config)' = Outcomes(Config)
        BY <1>1 DEF Outcomes, storeVars
      <3> QED
        BY <1>1, <2>1, <3>1, DurableFrame DEF MountInv, editVars
    <2>2. CASE pc = "read"
      <3>1. Settled(Config, "Prepared")
        BY <2>2 DEF MountInv, ConfigJournalInv
      <3>2. Outcomes(Config)' = {Once("Prepared")}
        BY <1>1, <3>1 DEF Settled, Outcomes, storeVars
      <3>3. Once("Prepared").record = "Prepared"
        BY PhasesTable, OnceIsFile
      <3> QED
        BY <3>2, <3>3 DEF CompletedDurable
    <2> QED
      BY <1>1, <2>1, <2>2
  <1> QED
    BY <1>3, <1>7, <1>8, <1>9, <1>10, <1>11 DEF MountInv

(* The new file takes the place of fstab (Rename): its data is on disk,    *)
(* and it holds what fstab holds now unless an edit fell in between.       *)
LEMMA RenameStep ==
  ASSUME MountInv, Rename
  PROVE  MountInv'
  <1> USE DEF PreMount, InMount, Looking, Preparing, Writing, Written, Receipt,
              AfterMount, Unrenamed
  <1>1. /\ pc = "rename" /\ pc' = "sync"
        /\ etc' = Append(etc, temp) /\ temp' = None
        /\ renamed' = TRUE /\ edited' = FALSE
        /\ UNCHANGED <<storeVars, mem, first, before, hostVars, backupVars,
                       edits, typed, raced>>
    BY DEF Rename, Goto
  <1>2. PICK v \in Versions :
          /\ v = temp /\ v.lines = before \cup {Ours} /\ v.synced = TRUE
    <2>1. Version(before \cup {Ours}, TRUE) \in Versions
      BY DEF MountInv, TypeOK, Version, Versions, Lines
    <2>2. temp = Version(before \cup {Ours}, TRUE)
      BY <1>1 DEF MountInv, FstabInv
    <2> QED
      BY <2>1, <2>2 DEF Version
  <1>3. /\ etc' \in Seq(Versions) /\ Len(etc') > 0
        /\ \A i \in DOMAIN etc' : etc'[i] = v \/ \E k \in DOMAIN etc : etc'[i] = etc[k]
    <2>1. etc \in Seq(Versions) /\ Len(etc) \in Nat
      BY DEF MountInv, TypeOK
    <2>2. etc' = Append(etc, v)
      BY <1>1, <1>2
    <2>3. etc' \in Seq(Versions) /\ Len(etc') = Len(etc) + 1
      BY <2>1, <2>2
    <2>4. DOMAIN etc' = 1..(Len(etc) + 1) /\ DOMAIN etc = 1..Len(etc)
      BY <2>1, <2>3
    <2> QED
      BY <2>1, <2>2, <2>3, <2>4
  <1>4. Follows(pc, pc')
    BY <1>1 DEF Follows
  <1>5. MountJournalInv' /\ ConfigJournalInv'
    BY <1>1, <1>4, JournalFrame DEF hostVars
  <1>6. TypeOK'
    <2>1. StoreTyped(Phases)'
      BY <1>1, StoreUnchangedLemma DEF MountInv, TypeOK
    <2> QED
      BY <1>1, <1>3, <2>1
         DEF MountInv, TypeOK, hostVars, backupVars, ControlStates
  <1>7. BackupInv'
    BY <1>1 DEF MountInv, BackupInv, backupVars
  <1>8. FstabInv'
    BY <1>1 DEF FstabInv
  <1>9. FstabWhole'
    BY <1>2, <1>3 DEF MountInv, FstabWhole
  <1>10. CompletedDurable'
    <2>1. Settled(Config, "UpdatingFstab")
      BY <1>1 DEF MountInv, ConfigJournalInv
    <2>2. Outcomes(Config)' = {Once("UpdatingFstab")}
      BY <1>1, <2>1 DEF Settled, Outcomes, storeVars
    <2>3. Once("UpdatingFstab").record = "UpdatingFstab"
      BY PhasesTable, OnceIsFile
    <2> QED
      BY <2>2, <2>3 DEF CompletedDurable
  <1>11. EditsSurvive'
    <2>1. ASSUME ~raced
          PROVE  before \cup {Ours} \in {typed, typed \cup {Ours}}
      <3>1. before = etc[Len(etc)].lines
        BY <1>1, <2>1 DEF MountInv, FstabInv, fstab
      <3>2. etc[Len(etc)].lines \in {typed, typed \cup {Ours}}
        BY <2>1, LastVersion DEF MountInv, EditsSurvive
      <3> QED
        BY <3>1, <3>2
    <2> QED
      BY <1>1, <1>2, <1>3, <2>1 DEF MountInv, EditsSurvive
  <1> QED
    BY <1>5, <1>6, <1>7, <1>8, <1>9, <1>10, <1>11 DEF MountInv

(* The steps that leave one version of fstab, one of those there were: the *)
(* fsync of its directory (SyncEtc) and a crash of the host (HostCrash).   *)
LEMMA OneVersionLeft ==
  ASSUME MountInv, NEW i \in DOMAIN etc, etc' = <<etc[i]>>,
         UNCHANGED <<before, editVars>>,
         Outcomes(Config)' \subseteq Outcomes(Config)
  PROVE  /\ etc' \in Seq(Versions) /\ Len(etc') = 1
         /\ FstabWhole' /\ CompletedDurable' /\ EditsSurvive'
  <1>1. PICK v \in Versions : v = etc[i]
    BY LastVersion DEF MountInv
  <1>2. etc' = <<v>> /\ DOMAIN etc' = {1} /\ etc'[1] = etc[i]
    BY <1>1
  <1>3. etc' \in Seq(Versions) /\ Len(etc') = 1
    BY <1>1, <1>2
  <1>4. FstabWhole'
    BY <1>2 DEF MountInv, FstabWhole
  <1>5. CompletedDurable'
    BY <1>2 DEF MountInv, CompletedDurable, editVars
  <1>6. EditsSurvive'
    BY <1>2 DEF MountInv, EditsSurvive, editVars
  <1> QED
    BY <1>3, <1>4, <1>5, <1>6

(* The rename is made durable (SyncEtc).                                   *)
LEMMA SyncEtcStep ==
  ASSUME MountInv, SyncEtc
  PROVE  MountInv'
  <1> USE DEF PreMount, InMount, Looking, Preparing, Writing, Written, Receipt,
              AfterMount, Unrenamed
  <1>1. /\ pc = "sync" /\ pc' = "update_written"
        /\ etc' = <<etc[Len(etc)]>>
        /\ UNCHANGED <<storeVars, mem, first, before, hostVars, temp, renamed,
                       backupVars, editVars>>
    BY DEF SyncEtc, Goto
  <1>2. Follows(pc, pc')
    BY <1>1 DEF Follows
  <1>3. MountJournalInv' /\ ConfigJournalInv'
    BY <1>1, <1>2, JournalFrame DEF hostVars
  <1>4. /\ etc' \in Seq(Versions) /\ Len(etc') = 1
        /\ FstabWhole' /\ CompletedDurable' /\ EditsSurvive'
    <2>1. Outcomes(Config)' = Outcomes(Config)
      BY <1>1 DEF Outcomes, storeVars
    <2>2. PICK k \in DOMAIN etc : k = Len(etc)
      BY LastVersion DEF MountInv
    <2> QED
      BY <1>1, <2>1, <2>2, OneVersionLeft
  <1>5. TypeOK'
    <2>1. StoreTyped(Phases)'
      BY <1>1, StoreUnchangedLemma DEF MountInv, TypeOK
    <2> QED
      BY <1>1, <1>4, <2>1
         DEF MountInv, TypeOK, hostVars, backupVars, editVars, ControlStates
  <1>6. BackupInv'
    BY <1>1 DEF MountInv, BackupInv, backupVars
  <1>7. FstabInv'
    BY <1>1, <1>4 DEF FstabInv
  <1> QED
    BY <1>3, <1>4, <1>5, <1>6, <1>7 DEF MountInv

(* The host goes down: of both journals, the backup and fstab one of the   *)
(* outcomes is left, and the invocation is over.                           *)
LEMMA HostCrashStep ==
  ASSUME MountInv, HostCrash
  PROVE  MountInv'
  <1> USE DEF PreMount, InMount, Looking, Preparing, Writing, Written, Receipt,
              AfterMount, Unrenamed
  <1>1. /\ StoreCrash /\ StoreTyped(Phases)
        /\ pc' \in Ended /\ (pc' = "stopped" => pc = "stopped")
        /\ unsaved' = {} /\ temp' = None /\ tool' = "none" /\ mounted' = "none"
        /\ backup' \in {backup} \cup unsaved
        /\ UNCHANGED <<mem, first, before, renamed, spawned, editVars>>
    BY DEF HostCrash, Ended, MountInv, TypeOK
  <1>2. /\ StoreTyped(Phases)'
        /\ \A x \in Ids : Outcomes(x)' \subseteq Outcomes(x)
    BY <1>1, StoreCrashLemma
  <1>3. /\ Recorded(Mount) => Recorded(Mount)'
        /\ Recorded(Config) => Recorded(Config)'
    BY <1>2, TwoIds, RecordedKept
  <1>4. /\ \A j : Settled(Mount, j) => Settled(Mount, j)'
        /\ \A j : Settled(Config, j) => Settled(Config, j)'
    BY <1>1, TwoIds, SettledCrash
  <1>5. /\ etc' \in Seq(Versions) /\ Len(etc') = 1
        /\ FstabWhole' /\ CompletedDurable' /\ EditsSurvive'
    <2>1. PICK i \in DOMAIN etc : etc' = <<etc[i]>>
      BY DEF HostCrash
    <2> QED
      BY <1>1, <1>2, <2>1, TwoIds, OneVersionLeft
  <1>6. MountJournalInv'
    BY <1>1, <1>3, <1>4 DEF MountInv, MountJournalInv, Ended
  <1>7. ConfigJournalInv'
    BY <1>1, <1>3, <1>4 DEF MountInv, ConfigJournalInv, Ended
  <1>8. TypeOK'
    <2>1. backup' \in Versions \cup {None}
      BY <1>1 DEF MountInv, TypeOK
    <2> QED
      BY <1>1, <1>2, <1>5, <2>1
         DEF MountInv, TypeOK, editVars, ControlStates
  <1>9. BackupInv'
    BY <1>1 DEF MountInv, BackupInv, Ended
  <1>10. FstabInv'
    BY <1>1 DEF FstabInv, Ended
  <1> QED
    BY <1>5, <1>6, <1>7, <1>8, <1>9, <1>10 DEF MountInv

(* The operator edits fstab (EditFstab).                                   *)
LEMMA EditStep ==
  ASSUME MountInv, EditFstab
  PROVE  MountInv'
  <1> USE DEF PreMount, InMount, Looking, Preparing, Writing, Written, Receipt,
              AfterMount, Unrenamed
  <1>1. /\ edits' = edits + 1 /\ edited' = TRUE /\ raced' = (pc = "rename")
        /\ UNCHANGED <<storeVars, procVars, hostVars, temp, renamed, backupVars>>
    BY DEF EditFstab
  <1>2. PICK lines \in SUBSET Lines :
          etc' = <<Version(lines, TRUE)>> /\ typed' = lines
    BY DEF EditFstab
  <1>3. PICK v \in Versions :
          /\ v = Version(lines, TRUE) /\ v.lines = lines /\ v.synced = TRUE
    <2>1. Version(lines, TRUE) \in Versions
      BY <1>2 DEF Version, Versions
    <2> QED
      BY <2>1 DEF Version
  <1>4. /\ etc' \in Seq(Versions) /\ Len(etc') = 1
        /\ DOMAIN etc' = {1} /\ etc'[1] = v
    <2>1. etc' = <<v>>
      BY <1>2, <1>3
    <2>2. DOMAIN etc' = {1} /\ etc'[1] = v
      BY <2>1
    <2>3. etc' \in Seq(Versions)
      BY <2>1
    <2>4. Len(etc') = 1
      BY <2>1
    <2> QED
      BY <2>2, <2>3, <2>4
  <1>5. Follows(pc, pc')
    BY <1>1 DEF Follows, procVars
  <1>6. MountJournalInv' /\ ConfigJournalInv'
    BY <1>1, <1>5, JournalFrame DEF hostVars
  <1>7. TypeOK'
    <2>1. StoreTyped(Phases)'
      BY <1>1, StoreUnchangedLemma DEF MountInv, TypeOK
    <2>2. raced' \in BOOLEAN /\ edited' \in BOOLEAN
      BY <1>1
    <2>3. edits' \in Nat /\ typed' \in SUBSET Lines
      BY <1>1, <1>2 DEF MountInv, TypeOK
    <2> QED
      BY <1>1, <1>4, <2>1, <2>2, <2>3
         DEF MountInv, TypeOK, procVars, hostVars, backupVars
  <1>8. BackupInv'
    BY <1>1 DEF MountInv, BackupInv, procVars, backupVars
  <1>9. FstabInv'
    BY <1>1, <1>4 DEF MountInv, FstabInv, procVars
  <1>10. FstabWhole' /\ CompletedDurable' /\ EditsSurvive'
    BY <1>1, <1>2, <1>3, <1>4 DEF FstabWhole, CompletedDurable, EditsSurvive
  <1> QED
    BY <1>6, <1>7, <1>8, <1>9, <1>10 DEF MountInv

-----------------------------------------------------------------------------
(* The invariant holds at first, every step keeps it, and it implies the   *)
(* properties of the runtime.                                              *)

(* Before the first step nothing is recorded, mounted or replaced (Init).  *)
LEMMA InitLemma ==
  ASSUME Init
  PROVE  MountInv
  <1> USE DEF PreMount, InMount, Looking, Preparing, Writing, Written, Receipt,
              AfterMount, Unrenamed
  <1>1. /\ StoreTyped(Phases)
        /\ \A id \in Ids : file[id] = None /\ undo[id] = {}
    BY StoreInitLemma DEF Init
  <1>2. PICK lines \in SUBSET Notes :
          etc = <<Version(lines, TRUE)>> /\ first = lines /\ typed = lines
    BY DEF Init
  <1>3. lines \in SUBSET Lines
    BY <1>2 DEF Lines
  <1>4. PICK v \in Versions :
          /\ v = Version(lines, TRUE) /\ v.lines = lines /\ v.synced = TRUE
    <2>1. Version(lines, TRUE) \in Versions
      BY <1>3 DEF Version, Versions
    <2> QED
      BY <2>1 DEF Version
  <1>5. etc = <<v>>
    BY <1>2, <1>4
  <1>6. DOMAIN etc = {1} /\ etc[1] = v
    BY <1>5
  <1>7. etc \in Seq(Versions)
    BY <1>5
  <1>8. Len(etc) = 1
    BY <1>5
  <1>9. TypeOK
    <2>1. mem \in [Ids -> Phases \cup {None}]
      BY DEF Init
    <2>2. before \in SUBSET Lines /\ first \in SUBSET Lines
          /\ typed \in SUBSET Lines
      BY <1>2, <1>3 DEF Init
    <2>3. pc \in ControlStates
      BY DEF Init, ControlStates
    <2>4. /\ mounted = "none" /\ tool = "none" /\ temp = None
          /\ backup = None /\ unsaved = {} /\ edits = 0
          /\ edited = FALSE /\ raced = FALSE
          /\ spawned = FALSE /\ renamed = FALSE
      BY DEF Init
    <2>5. /\ mounted \in {"none", "ours", "other"}
          /\ tool \in {"none", "running", "ok", "failed"}
          /\ temp \in Versions \cup {None} /\ backup \in Versions \cup {None}
          /\ unsaved \in {{}, {None}}
      BY <2>4
    <2>6. /\ edited \in BOOLEAN /\ raced \in BOOLEAN
          /\ spawned \in BOOLEAN /\ renamed \in BOOLEAN
      BY <2>4
    <2>7. edits \in Nat /\ Len(etc) > 0
      BY <1>8, <2>4
    <2> QED
      BY <1>1, <1>7, <2>1, <2>2, <2>3, <2>5, <2>6, <2>7 DEF TypeOK
  <1>10. MountJournalInv /\ ConfigJournalInv /\ BackupInv
    BY DEF Init, MountJournalInv, ConfigJournalInv, BackupInv
  <1>11. FstabInv
    BY DEF Init, FstabInv
  <1>12. FstabWhole /\ EditsSurvive
    BY <1>2, <1>4, <1>6 DEF FstabWhole, EditsSurvive
  <1>13. CompletedDurable
    BY <1>1, TwoIds DEF CompletedDurable, Outcomes
  <1> QED
    BY <1>9, <1>10, <1>11, <1>12, <1>13 DEF MountInv

(* A step that changes nothing (stuttering).                               *)
LEMMA StutterStep ==
  ASSUME MountInv, UNCHANGED vars
  PROVE  MountInv'
  <1>1. UNCHANGED <<storeVars, procVars, hostVars, etcVars, backupVars, editVars>>
    BY DEF vars
  <1>2. Follows(pc, pc')
    BY <1>1 DEF Follows, procVars
  <1>3. MountJournalInv' /\ ConfigJournalInv'
    BY <1>1, <1>2, JournalFrame DEF hostVars, etcVars
  <1>4. TypeOK'
    <2>1. StoreTyped(Phases)'
      BY <1>1, StoreUnchangedLemma DEF MountInv, TypeOK
    <2> QED
      BY <1>1, <2>1
         DEF MountInv, TypeOK, procVars, hostVars, etcVars, backupVars,
             editVars
  <1>5. BackupInv' /\ FstabInv'
    BY <1>1
       DEF MountInv, BackupInv, FstabInv, procVars, etcVars, backupVars,
           editVars, fstab
  <1>6. FstabWhole' /\ CompletedDurable' /\ EditsSurvive'
    BY <1>1, FstabFrame DEF etcVars, procVars
  <1> QED
    BY <1>3, <1>4, <1>5, <1>6 DEF MountInv

(* Every action of the invocation, the host and the operator (Next).       *)
LEMMA NextStep ==
  ASSUME MountInv, [Next]_vars
  PROVE  MountInv'
  BY LookStep, MountStep, FailStep, PersistNewStep, TransitionStep, UpdateStep,
     RenameStep, SyncEtcStep, HostCrashStep, EditStep, StutterStep
     DEF Next

(* Types, the state of both journals at every point of the invocation, and *)
(* what backup, temp and fstab hold there.                                 *)
THEOREM MountInductive == Spec => []MountInv
  <1>1. Init => MountInv
    BY InitLemma
  <1>2. MountInv /\ [Next]_vars => MountInv'
    BY NextStep
  <1> QED
    BY <1>1, <1>2, PTL DEF Spec

(* FstabWhole: no crash leaves an fstab whose data was never synced,       *)
(* because replace_fstab_atomically syncs the new file before the rename.  *)
THEOREM FstabWholeHolds == Spec => []FstabWhole
  <1>1. MountInv => FstabWhole
    BY DEF MountInv
  <1> QED
    BY <1>1, MountInductive, PTL

(* CompletedDurable: the record of the update says Completed only when the *)
(* line is in fstab for good, unless somebody has edited it since.         *)
THEOREM CompletedDurableHolds == Spec => []CompletedDurable
  <1>1. MountInv => CompletedDurable
    BY DEF MountInv
  <1> QED
    BY <1>1, MountInductive, PTL

(* EditsSurvive: an update takes no line of the operator's away, whenever  *)
(* the host crashes, if fstab is not edited between check and rename.      *)
THEOREM EditsSurviveHolds == Spec => []EditsSurvive
  <1>1. MountInv => EditsSurvive
    BY DEF MountInv
  <1> QED
    BY <1>1, MountInductive, PTL

(* WriteAhead: mount is started, and fstab replaced, only when the disks   *)
(* cannot lose the record of it nor the backup.                            *)
THEOREM WriteAheadHolds == Spec => []WriteAhead
  <1>1. MountInv => WriteAhead
    <2> SUFFICES ASSUME MountInv
                 PROVE  WriteAhead
      OBVIOUS
    <2>1. spawned => Recorded(Mount)
      BY DEF MountInv, MountJournalInv
    <2>2. renamed => \A outcome \in Outcomes(Mount) : outcome.record = "Completed"
      <3>1. Once("Completed").record = "Completed"
        BY PhasesTable, OnceIsFile
      <3> QED
        BY <3>1, SettledOutcome DEF MountInv, MountJournalInv
    <2>3. renamed => Recorded(Config)
      BY DEF MountInv, ConfigJournalInv
    <2>4. renamed => {backup} \cup unsaved = {Version(before, TRUE)}
      BY DEF MountInv, BackupInv
    <2> QED
      BY <2>1, <2>2, <2>3, <2>4 DEF WriteAhead
  <1> QED
    BY <1>1, MountInductive, PTL

(* AmbiguityRecorded: an invocation that stopped after mount was started,  *)
(* or after the rename, has left Completed or RecoveryRequired on record.  *)
THEOREM AmbiguityRecordedHolds == Spec => []AmbiguityRecorded
  <1>1. MountInv => AmbiguityRecorded
    <2> SUFFICES ASSUME MountInv, pc = "stopped"
                 PROVE  /\ spawned => file[Mount].record
                                        \in {"Completed", "RecoveryRequired"}
                        /\ renamed => file[Config].record
                                        \in {"Completed", "RecoveryRequired"}
      BY DEF AmbiguityRecorded
    <2>1. /\ Once("Completed").record = "Completed"
          /\ Once("RecoveryRequired").record = "RecoveryRequired"
      BY PhasesTable, OnceIsFile
    <2> QED
      BY <2>1 DEF MountInv, MountJournalInv, ConfigJournalInv, Settled
  <1> QED
    BY <1>1, MountInductive, PTL
=============================================================================
