--------------------------- MODULE CreateRuntime ---------------------------
(***************************************************************************)
(* The creation of a partition and a filesystem on one blank disk          *)
(* (production_create_runtime_exec.rs and the chain before it), driven by  *)
(* the program that calls it (bin/production_create_loop_harness.rs):      *)
(* consent file, preflight, journal, host lock, sfdisk, partx, rediscovery,*)
(* mkfs, verification.  Several invocations run on one host; any of them   *)
(* may fail or be killed at any step, the tools of a killed one run on,    *)
(* the host may go down, and the operator removes consent files.           *)
(*                                                                         *)
(* All that a launch is bound to is digested into its journal ID.  For one *)
(* disk it is the same each time but for the identity of the consent file, *)
(* device and inode: the ID of a journal is here the inode of its consent. *)
(***************************************************************************)
EXTENDS RecordStore

CONSTANTS
  Sessions,
  Nobody

ASSUME CreateAssumption ==
  /\ Nobody \notin Sessions
  /\ {None, "none", "torn"} \cap Ids = {}
  /\ None # "torn"

VARIABLES
  consent,  \* inode of the file at the consent path, None, or "torn"
  lock,
  pc,
  wrote,    \* inode the consent guard of a session will remove
  pin,      \* inode of the consent a session keeps open
  mem,      \* its journal in memory
  table,    \* what a complete discovery finds: "none", "torn", "exact"
  mapped,   \* the kernel knows the partition
  fs,       \* "none", "torn", or the ID it was made for
  tools,    \* storage tools running
  started,  \* ID -> names of the tools started for it (history)
  revoked,  \* the file a session pinned has left the path since (history)
  hasty     \* a consent was removed while something ran under it (history)

procVars   == <<consent, lock, pc, wrote, pin, mem, revoked>>
mediumVars == <<table, mapped, fs>>
toolVars   == <<tools, started>>
vars == <<storeVars, procVars, mediumVars, toolVars, hasty>>

-----------------------------------------------------------------------------
(* The journal.                                                            *)

NewJournal == [phase |-> "Prepared", table |-> FALSE, fs |-> FALSE]

(* Control state before a transition -> its phase and the state after it.  *)
Transitions ==
  [begin        |-> [phase |-> "WritingPartitionTable", next |-> "sfdisk"],
   written      |-> [phase |-> "PartitionTableWrittenAwaitingRediscovery",
                     next |-> "rediscover"],
   exact        |-> [phase |-> "PartitionMappedVerified", next |-> "mapped"],
   begin_format |-> [phase |-> "FormattingFilesystem", next |-> "mkfs"],
   formatted    |-> [phase |-> "FilesystemFormattedAwaitingVerification",
                     next |-> "verify"],
   complete     |-> [phase |-> "Completed", next |-> "closing"],
   recover      |-> [phase |-> "RecoveryRequired", next |-> "closing"]]

Phases == {"Prepared"} \cup {Transitions[x].phase : x \in DOMAIN Transitions}

Journals == [phase : Phases, table : BOOLEAN, fs : BOOLEAN]

(* None stands for the absence of a record, and of a file that holds one.  *)
ASSUME NoneAssumption ==
  None \notin Journals \cup [record : Journals, names : {1, 2}]

(* Faulty form: the flag is set when the tool has run.                     *)
ApplyTransitionLate(j, at) ==
  [phase |-> Transitions[at].phase,
   table |-> j.table \/ at = "written",
   fs    |-> j.fs \/ at = "formatted"]

ApplyTransition(j, at) ==
  [phase |-> Transitions[at].phase,
   table |-> j.table \/ at = "begin",
   fs    |-> j.fs \/ at = "begin_format"]

-----------------------------------------------------------------------------
(* What discovery checks.                                                  *)

BlankDisk       == table = "none" /\ ~mapped /\ fs = "none"
ExactPartition  == table = "exact" /\ mapped /\ fs = "none"
ExactFilesystem == table = "exact" /\ mapped /\ fs \in Ids

(* The file at the path is the pinned one, still readable as this consent. *)
ConsentHolds(s) == consent = pin[s]

-----------------------------------------------------------------------------
Init ==
  /\ StoreInit
  /\ consent = None /\ lock = Nobody
  /\ pc = [s \in Sessions |-> "start"]
  /\ wrote = [s \in Sessions |-> None]
  /\ pin = [s \in Sessions |-> None]
  /\ mem = [s \in Sessions |-> None]
  /\ revoked = [s \in Sessions |-> FALSE] /\ hasty = FALSE
  /\ table = "none" /\ mapped = FALSE /\ fs = "none"
  /\ tools = {}
  /\ started = [id \in Ids |-> {}]

Goto(s, from, to) == pc[s] = from /\ pc' = [pc EXCEPT ![s] = to]

(* The file at the consent path goes.                                      *)
NoteRemoval ==
  revoked' = [s \in Sessions |-> revoked[s] \/ pin[s] = consent]

-----------------------------------------------------------------------------
(* Discovery, plan, frozen intent, activation: the disk must be blank.     *)
Activate(s) ==
  /\ Goto(s, "start", "consent")
  /\ BlankDisk
  /\ UNCHANGED <<storeVars, consent, lock, wrote, pin, mem, revoked,
                 mediumVars, toolVars>>

(* Faulty form: the receipt of a consent is kept, its descriptor is not.   *)
FreeInodesByName == Ids \ {consent}

(* The inode numbers a new file may get: those with no name and no open    *)
(* descriptor.  A lease keeps the file it pinned open.                     *)
FreeInodes == Ids \ ({consent} \cup {pin[s] : s \in Sessions})

(* Faulty form: an existing consent file is replaced.                      *)
WriteConsentOver(s) ==
  /\ Goto(s, "consent", "pin")
  /\ \E inode \in FreeInodes :
       /\ consent' = inode
       /\ wrote' = [wrote EXCEPT ![s] = inode]
  /\ NoteRemoval
  /\ UNCHANGED <<storeVars, lock, pin, mem, mediumVars, toolVars>>

(* create_exact_create_consent refuses to replace an existing file.        *)
WriteConsent(s) ==
  /\ Goto(s, "consent", "pin")
  /\ consent = None
  /\ \E inode \in FreeInodes :
       /\ consent' = inode
       /\ wrote' = [wrote EXCEPT ![s] = inode]
  /\ UNCHANGED <<storeVars, lock, pin, mem, revoked, mediumVars, toolVars>>

(* An error before the guard exists leaves what was written, all of it or  *)
(* a part.                                                                 *)
WriteConsentFails(s) ==
  /\ Goto(s, "consent", "closing")
  /\ consent = None
  /\ consent' \in FreeInodes \cup {"torn"}
  /\ UNCHANGED <<storeVars, lock, wrote, pin, mem, revoked, mediumVars,
                 toolVars>>

(* pin_default_production_create_consent: whatever file is at the path, if *)
(* it consents to this activation.                                         *)
Pin(s) ==
  /\ Goto(s, "pin", "permit")
  /\ consent \in Ids
  /\ pin' = [pin EXCEPT ![s] = consent]
  /\ revoked' = [revoked EXCEPT ![s] = FALSE]
  /\ UNCHANGED <<storeVars, consent, lock, wrote, mem, mediumVars, toolVars>>

Permit(s) ==
  /\ Goto(s, "permit", "snapshot")
  /\ ConsentHolds(s)
  /\ UNCHANGED <<storeVars, consent, lock, wrote, pin, mem, revoked,
                 mediumVars, toolVars>>

(* The preflight reads the disk, then the consent again.                   *)
PreflightSnapshot(s) ==
  /\ Goto(s, "snapshot", "preflight")
  /\ BlankDisk
  /\ UNCHANGED <<storeVars, consent, lock, wrote, pin, mem, revoked,
                 mediumVars, toolVars>>

(* Then the tools are pinned and the launch is frozen.                     *)
PreflightConsent(s) ==
  /\ Goto(s, "preflight", "journal")
  /\ ConsentHolds(s)
  /\ UNCHANGED <<storeVars, consent, lock, wrote, pin, mem, revoked,
                 mediumVars, toolVars>>

PersistNew(s) ==
  /\ Goto(s, "journal", "lock")
  /\ Created(pin[s], NewJournal)
  /\ mem' = [mem EXCEPT ![s] = NewJournal]
  /\ UNCHANGED <<consent, lock, wrote, pin, revoked, mediumVars, toolVars>>

PersistNewFails(s) ==
  /\ Goto(s, "journal", "closing")
  /\ CreateFails(pin[s], NewJournal)
  /\ UNCHANGED <<consent, lock, wrote, pin, mem, revoked, mediumVars,
                 toolVars>>

TakeLock(s) ==
  /\ Goto(s, "lock", "check")
  /\ lock = Nobody
  /\ lock' = s
  /\ UNCHANGED <<storeVars, consent, wrote, pin, mem, revoked, mediumVars,
                 toolVars>>

-----------------------------------------------------------------------------
(* The partition crossing and the filesystem crossing.                     *)

Unchanged(s) ==
  UNCHANGED <<storeVars, consent, lock, wrote, pin, mem, revoked>>

(* The record is the journal in memory, the consent and the tools are the  *)
(* pinned ones.  The disk is not read again.                               *)
CheckPartitionCrossing(s) ==
  /\ Goto(s, "check", "begin")
  /\ Loads(pin[s], mem[s])
  /\ ConsentHolds(s)
  /\ Unchanged(s) /\ UNCHANGED <<mediumVars, toolVars>>

(* persist_production_create_runtime_transition: memory follows the disk.  *)
Transition(s) ==
  /\ pc[s] \in DOMAIN Transitions
  /\ LET j == ApplyTransition(mem[s], pc[s])
     IN  /\ Replaced(pin[s], j)
         /\ mem' = [mem EXCEPT ![s] = j]
  /\ pc' = [pc EXCEPT ![s] = Transitions[pc[s]].next]
  /\ UNCHANGED <<consent, lock, wrote, pin, revoked, mediumVars, toolVars>>

(* No recovery is recorded after a transition that was not.                *)
TransitionFails(s) ==
  /\ pc[s] \in DOMAIN Transitions
  /\ ReplaceFails(pin[s], ApplyTransition(mem[s], pc[s]))
  /\ pc' = [pc EXCEPT ![s] = "closing"]
  /\ UNCHANGED <<consent, lock, wrote, pin, mem, revoked, mediumVars,
                 toolVars>>

(* Control state -> the tool it starts and the state after it succeeded.   *)
Stages == [sfdisk |-> "partx", mkfs |-> "formatted"]

Tool(name, id, at) == [name |-> name, id |-> id, at |-> at]

Spawn(s) ==
  /\ pc[s] \in DOMAIN Stages
  /\ tools' = tools \cup {Tool(pc[s], pin[s], "started")}
  /\ started' = [started EXCEPT ![pin[s]] = @ \cup {pc[s]}]
  /\ pc' = [pc EXCEPT ![s] = "await"]
  /\ Unchanged(s) /\ UNCHANGED mediumVars

(* Its exit status decides; what it printed may not be readable.           *)
Await(s) ==
  /\ pc[s] = "await"
  /\ \E t \in tools :
       /\ t.id = pin[s] /\ t.at \in {"ok", "failed"}
       /\ tools' = tools \ {t}
       /\ \/ /\ t.at = "ok"
             /\ pc' = [pc EXCEPT ![s] = Stages[t.name]]
          \/ pc' = [pc EXCEPT ![s] = "recover"]
  /\ Unchanged(s) /\ UNCHANGED <<mediumVars, started>>

(* partx fails too when the kernel has the partition already; then a fresh *)
(* discovery decides.                                                      *)
Partx(s) ==
  /\ Goto(s, "partx", "written")
  /\ table = "exact"
  /\ mapped => ExactPartition
  /\ mapped' = TRUE
  /\ Unchanged(s) /\ UNCHANGED <<table, fs, toolVars>>

Rediscover(s) ==
  /\ Goto(s, "rediscover", "exact")
  /\ ExactPartition
  /\ Unchanged(s) /\ UNCHANGED <<mediumVars, toolVars>>

CheckFilesystemCrossing(s) ==
  /\ Goto(s, "mapped", "preformat")
  /\ Loads(pin[s], mem[s])
  /\ ConsentHolds(s)
  /\ Unchanged(s) /\ UNCHANGED <<mediumVars, toolVars>>

RediscoverBeforeFormat(s) ==
  /\ Goto(s, "preformat", "recheck")
  /\ ExactPartition
  /\ Unchanged(s) /\ UNCHANGED <<mediumVars, toolVars>>

RecheckConsent(s) ==
  /\ Goto(s, "recheck", "begin_format")
  /\ ConsentHolds(s)
  /\ Unchanged(s) /\ UNCHANGED <<mediumVars, toolVars>>

VerifyFilesystem(s) ==
  /\ Goto(s, "verify", "complete")
  /\ ExactFilesystem
  /\ Unchanged(s) /\ UNCHANGED <<mediumVars, toolVars>>

(* Any check or I/O fails.  Past the mutation boundary, and once the       *)
(* filesystem crossing has passed its first checks, this is recorded.      *)
Fails(s) ==
  /\ \/ /\ pc[s] \in {"consent", "pin", "permit", "snapshot", "preflight",
                      "journal", "lock", "check", "mapped"}
        /\ pc' = [pc EXCEPT ![s] = "closing"]
     \/ /\ pc[s] \in {"sfdisk", "partx", "rediscover", "preformat", "recheck",
                      "mkfs", "verify"}
        /\ pc' = [pc EXCEPT ![s] = "recover"]
  /\ Unchanged(s) /\ UNCHANGED <<mediumVars, toolVars>>

Released(s) == IF lock = s THEN Nobody ELSE lock

(* The locals are dropped in reverse order: the lock and the pinned        *)
(* consent before the guard that removes the file.                         *)
DropLock(s) ==
  /\ Goto(s, "closing", "guard")
  /\ lock' = Released(s)
  /\ pin' = [pin EXCEPT ![s] = None]
  /\ mem' = [mem EXCEPT ![s] = None]
  /\ UNCHANGED <<storeVars, consent, wrote, revoked, mediumVars, toolVars>>

DropGuard(s) ==
  /\ Goto(s, "guard", "start")
  /\ IF wrote[s] # None /\ consent = wrote[s]
     THEN consent' = None /\ NoteRemoval
     ELSE UNCHANGED <<consent, revoked>>
  /\ wrote' = [wrote EXCEPT ![s] = None]
  /\ UNCHANGED <<storeVars, lock, pin, mem, mediumVars, toolVars>>

-----------------------------------------------------------------------------
(* The world around.                                                       *)

(* A write that was on its way may be on disk.                             *)
InFlight(s) ==
  \/ pc[s] = "journal" /\ CreateFails(pin[s], NewJournal)
  \/ /\ pc[s] \in DOMAIN Transitions
     /\ ReplaceFails(pin[s], ApplyTransition(mem[s], pc[s]))
  \/ pc[s] \notin DOMAIN Transitions \cup {"journal"} /\ UNCHANGED storeVars

(* Its tool, when it has exited and was not waited for yet.                *)
ExitedFor(s) ==
  {t \in tools : pc[s] = "await" /\ t.id = pin[s] /\ t.at \in {"ok", "failed"}}

(* SIGKILL: the kernel releases the lock and closes the descriptors; no    *)
(* guard runs, and a tool runs on.                                         *)
Kill(s) ==
  /\ pc[s] # "start"
  /\ InFlight(s)
  /\ pc' = [pc EXCEPT ![s] = "start"]
  /\ lock' = Released(s)
  /\ wrote' = [wrote EXCEPT ![s] = None]
  /\ pin' = [pin EXCEPT ![s] = None]
  /\ mem' = [mem EXCEPT ![s] = None]
  /\ tools' = tools \ ExitedFor(s)
  /\ UNCHANGED <<consent, revoked, mediumVars, started>>

Waiting(t) == \E s \in Sessions : pc[s] = "await" /\ pin[s] = t.id

ToolWrites(t) ==
  /\ t.at = "started"
  /\ tools' = (tools \ {t}) \cup {[t EXCEPT !.at = "writing"]}
  /\ IF t.name = "sfdisk" THEN table' = "torn" /\ UNCHANGED fs
                          ELSE fs' = "torn" /\ UNCHANGED table
  /\ UNCHANGED <<storeVars, procVars, mapped, started>>

Ended(t, status) ==
  (tools \ {t}) \cup (IF Waiting(t) THEN {[t EXCEPT !.at = status]} ELSE {})

(* Exit status 0, and what it proves nothing about.                        *)
ToolSucceeds(t) ==
  /\ t.at = "writing"
  /\ tools' = Ended(t, "ok")
  /\ \/ t.name = "sfdisk" /\ table' = "exact" /\ UNCHANGED fs
     \/ t.name = "mkfs" /\ fs' = t.id /\ UNCHANGED table
     \/ UNCHANGED <<table, fs>>
  /\ UNCHANGED <<storeVars, procVars, mapped, started>>

ToolFails(t) ==
  /\ t.at \in {"started", "writing"}
  /\ tools' = Ended(t, "failed")
  /\ UNCHANGED <<storeVars, procVars, mediumVars, started>>

(* The kernel may find the partition by itself.                            *)
KernelMaps ==
  /\ table = "exact" /\ ~mapped
  /\ mapped' = TRUE
  /\ UNCHANGED <<storeVars, procVars, table, fs, toolVars>>

(* The consent file was synced, its directory was not: the name may be     *)
(* gone, and one that was removed earlier may be back.                     *)
HostCrash ==
  /\ StoreCrash
  /\ consent' \in {consent, None} \cup Ids
  /\ lock' = Nobody
  /\ pc' = [s \in Sessions |-> "start"]
  /\ wrote' = [s \in Sessions |-> None]
  /\ pin' = [s \in Sessions |-> None]
  /\ mem' = [s \in Sessions |-> None]
  /\ mapped' = (table = "exact")
  /\ tools' = {}
  /\ UNCHANGED <<revoked, table, fs, started>>

(* A consent that an invocation left, or one that is withdrawn.            *)
OperatorRemovesConsent ==
  /\ consent # None
  /\ consent' = None
  /\ hasty' = (hasty \/ tools # {} \/ \E s \in Sessions : pc[s] # "start")
  /\ NoteRemoval
  /\ UNCHANGED <<storeVars, lock, pc, wrote, pin, mem, mediumVars, toolVars>>

-----------------------------------------------------------------------------
Session(s) ==
  \/ Activate(s) \/ WriteConsent(s) \/ WriteConsentFails(s) \/ Pin(s)
  \/ Permit(s) \/ PreflightSnapshot(s) \/ PreflightConsent(s)
  \/ PersistNew(s) \/ PersistNewFails(s) \/ TakeLock(s)
  \/ CheckPartitionCrossing(s) \/ Transition(s) \/ TransitionFails(s)
  \/ Spawn(s) \/ Await(s) \/ Partx(s) \/ Rediscover(s)
  \/ CheckFilesystemCrossing(s) \/ RediscoverBeforeFormat(s)
  \/ RecheckConsent(s) \/ VerifyFilesystem(s) \/ Fails(s)
  \/ DropLock(s) \/ DropGuard(s) \/ Kill(s)

Next ==
  \/ /\ \/ \E s \in Sessions : Session(s)
        \/ \E t \in tools : ToolWrites(t) \/ ToolSucceeds(t) \/ ToolFails(t)
        \/ KernelMaps \/ HostCrash
     /\ UNCHANGED hasty
  \/ OperatorRemovesConsent

Spec == Init /\ [][Next]_vars

-----------------------------------------------------------------------------
(* "Crashes after the first mutation boundary therefore leave a durable    *)
(* phase": once a tool was started, whatever the disk keeps of the store,  *)
(* the record can be loaded and says what may have changed.                *)
WriteAhead ==
  \A id \in Ids : started[id] # {} =>
    \A outcome \in Outcomes(id) :
      /\ outcome # None /\ outcome.names = 1
      /\ outcome.record.phase # "Prepared" /\ outcome.record.table
      /\ "mkfs" \in started[id] => outcome.record.fs

(* "instead of blind replay": no launch starts a tool twice, although the  *)
(* inode of a consent, and with it the ID of the journal, is used again    *)
(* after a failure, a kill or a crash.                                     *)
NoBlindReplay ==
  [][\A s \in Sessions, id \in Ids, name \in DOMAIN Stages :
       (Spawn(s) /\ pin[s] = id /\ pc[s] = name)
         => name \notin started[id]]_vars

(* The two checks of the consent catch every withdrawal before them, also  *)
(* when another consent to the same activation was put in its place: the   *)
(* pinned descriptor keeps its inode number from being used again.         *)
ConsentInForce ==
  [][\A s \in Sessions :
       (CheckPartitionCrossing(s) \/ RecheckConsent(s)) => ~revoked[s]]_vars

\* A journal that says Completed, before or after a crash, is true of the
\* disk, and no tool is left to change that.
CompletedIntact ==
  \A id \in Ids : \A outcome \in Outcomes(id) :
    (outcome # None /\ outcome.record.phase = "Completed") =>
      /\ table = "exact" /\ fs = id
      /\ \A t \in tools : t.at \in {"ok", "failed"}

(* As long as consents were only removed after everything under them had   *)
(* ended: a disk is taken from blank to formatted once, whoever dies on    *)
(* the way, no tool writes over what another one has written, and what     *)
(* Completed says stays true whatever a later or concurrent invocation     *)
(* does.                                                                   *)
NothingOverwritten ==
  [][~hasty =>
     /\ table # table' => <<table, table'>> \in {<<"none", "torn">>,
                                                <<"torn", "exact">>}
     /\ fs # fs' => table = "exact" /\ fs \in {"none", "torn"} /\ fs' # "none"
     /\ \A t, u \in tools :
          {t.at, u.at} \subseteq {"started", "writing"} => t = u
     /\ ~hasty' => CompletedIntact']_vars
=============================================================================
