------------------------ MODULE CreateRuntimeProofs ------------------------
(***************************************************************************)
(* The create runtime (CreateRuntime), for any number of invocations and   *)
(* of inode numbers: the journal is ahead of the tools whatever a crash    *)
(* leaves of the store (WriteAhead), no tool is started twice under one    *)
(* journal (NoBlindReplay), the two checks of the consent miss no          *)
(* withdrawal (ConsentInForce), and no invocation writes over what another *)
(* one completed (NothingOverwritten).                                     *)
(*                                                                         *)
(* None of the four is inductive.  RuntimeInv says in addition that a      *)
(* session from its journal's creation to its last transition holds that   *)
(* journal alone, that the store has exactly what the session remembers,   *)
(* and that its control state tells what ran; RevokedInv that the inode of *)
(* a pinned consent is not in use for another one; OverwriteInv what each  *)
(* stretch of an invocation may rely on of the disk, as long as no consent *)
(* was removed too early.                                                  *)
(***************************************************************************)
EXTENDS CreateRuntime, RecordStoreProofs

ToolNames == {"sfdisk", "mkfs"}
ToolStates == {"started", "writing", "ok", "failed"}

(* Control states without a pinned consent, with one, and with a journal   *)
(* that is in the store for certain.                                       *)
Unpinned == {"start", "consent", "pin", "guard"}
Pinned   == {"permit", "snapshot", "preflight", "journal"}
Held ==
  {"lock", "check", "begin", "sfdisk", "await", "partx", "written",
   "rediscover", "exact", "mapped", "preformat", "recheck", "begin_format",
   "mkfs", "formatted", "verify", "complete", "recover"}

ControlStates == Unpinned \cup Pinned \cup Held \cup {"closing"}

(* Those before the journal says that the table may be written, those      *)
(* between that and the same for the filesystem, and those after it.       *)
BeforeTable  == {"lock", "check", "begin"}
BeforeFormat ==
  {"sfdisk", "partx", "written", "rediscover", "exact", "mapped",
   "preformat", "recheck", "begin_format"}
AfterFormat  == {"mkfs", "formatted", "verify", "complete"}

TypeOK ==
  /\ StoreTyped(Journals)
  /\ consent \in Ids \cup {None, "torn"}
  /\ lock \in Sessions \cup {Nobody}
  /\ pc \in [Sessions -> ControlStates]
  /\ wrote \in [Sessions -> Ids \cup {None}]
  /\ pin \in [Sessions -> Ids \cup {None}]
  /\ mem \in [Sessions -> Journals \cup {None}]
  /\ revoked \in [Sessions -> BOOLEAN] /\ hasty \in BOOLEAN
  /\ table \in {"none", "torn", "exact"} /\ mapped \in BOOLEAN
  /\ fs \in Ids \cup {"none", "torn"}
  /\ tools \subseteq [name : ToolNames, id : Ids, at : ToolStates]
  /\ started \in [Ids -> SUBSET ToolNames]

(* What the journal of a session says at a control state.                  *)
JournalAt(at, j) ==
  /\ at \notin BeforeTable => j.table /\ j.phase # "Prepared"
  /\ at \in BeforeTable \cup BeforeFormat => ~j.fs
  /\ at \in AfterFormat => j.fs

(* What was started under a journal by the time a session is there.        *)
StartedAt(at, j, names) ==
  /\ at \in BeforeTable \cup {"sfdisk"} => names = {}
  /\ "mkfs" \in names => j.fs /\ at # "mkfs"

(* The only tool there can be under the journal of a session is the one it *)
(* waits for.                                                              *)
ToolAt(at, j, id, running) ==
  \A t \in running : t.id = id =>
    at = "await" /\ t.name = (IF j.fs THEN "mkfs" ELSE "sfdisk")

(* A session with a journal: it is durable, what was started under it is   *)
(* what its control state tells, and the journal covers it.                *)
HeldInv(s) ==
  /\ mem[s] \in Journals
  /\ Settled(pin[s], mem[s])
  /\ JournalAt(pc[s], mem[s])
  /\ StartedAt(pc[s], mem[s], started[pin[s]])
  /\ ToolAt(pc[s], mem[s], pin[s], tools)

SessionInv ==
  \A s \in Sessions :
    /\ pc[s] \in Pinned \cup Held => pin[s] \in Ids
    /\ pc[s] \in Held => HeldInv(s)

(* No two sessions hold one journal, although two may pin one consent.     *)
Exclusive ==
  \A s, t \in Sessions :
    pc[s] \in Held /\ pc[t] \in Held /\ pin[s] = pin[t] => s = t

(* A journal has at most one tool, and one that was started under it.      *)
ToolInv ==
  /\ \A t \in tools : t.name \in started[t.id]
  /\ \A t, u \in tools : t.id = u.id => t = u

RuntimeInv ==
  /\ TypeOK
  /\ SessionInv
  /\ Exclusive
  /\ ToolInv
  /\ WriteAhead

(* A consent that left the path while a session had it pinned is not there *)
(* again under the same inode number as long as it is pinned.              *)
RevokedInv ==
  \A s \in Sessions : revoked[s] /\ pin[s] \in Ids => consent # pin[s]

(* It has written a consent and will remove it.                            *)
Active(s) == wrote[s] # None

ActiveAt(at, w) ==
  /\ at \in {"start", "consent"} => w = None
  /\ at \in ControlStates \ {"start", "consent", "closing", "guard"} => w # None

(* What a tool finds on the disk, and what it has left there.              *)
ToolMedium(t) ==
  /\ t.at = "started" =>
       fs = "none" /\ table = (IF t.name = "sfdisk" THEN "none" ELSE "exact")
  /\ t.at = "writing" =>
       IF t.name = "sfdisk" THEN table = "torn" /\ fs = "none"
                            ELSE table = "exact" /\ fs = "torn"
  /\ t.name = "mkfs" /\ fs \in Ids => fs = t.id

(* What a check has seen is still so at the states that rely on it.        *)
SessionMedium(s) ==
  /\ pc[s] \in {"preflight", "journal", "lock", "check", "begin", "sfdisk"} =>
       table = "none" /\ fs = "none"
  /\ pc[s] \in {"recheck", "begin_format", "mkfs"} =>
       table = "exact" /\ fs = "none"
  /\ pc[s] \in {"formatted", "verify", "complete"} /\ fs \in Ids =>
       fs = pin[s]
  /\ pc[s] = "complete" => table = "exact" /\ fs \in Ids

(* As long as no consent was removed too early: one file at the consent    *)
(* path, one invocation under it, and one tool at work on the disk.        *)
QuietInv ==
  /\ \A s \in Sessions : ActiveAt(pc[s], wrote[s])
  /\ \A s, x \in Sessions : Active(s) /\ Active(x) => s = x
  /\ (tools # {} \/ \E s \in Sessions : Active(s)) => consent # None
  /\ \A s \in Sessions : Active(s) =>
       IF pc[s] = "await" THEN \A t \in tools : t.id = pin[s] ELSE tools = {}
  /\ \A t, u \in tools : t = u
  /\ \A t \in tools : ToolMedium(t)
  /\ \A s \in Sessions : SessionMedium(s)
  /\ CompletedIntact

OverwriteInv == ~hasty => QuietInv

(* A journal that allows for the tools started under it.                   *)
Covers(j, names) ==
  names # {} => /\ j.phase # "Prepared" /\ j.table
                /\ "mkfs" \in names => j.fs

SameSession(x) == pc'[x] = pc[x] /\ pin'[x] = pin[x] /\ mem'[x] = mem[x]

(* Nothing was done under a journal, but tools of it may have moved on.    *)
SameRun(id) ==
  /\ Untouched(id)
  /\ started'[id] = started[id]
  /\ \A t \in tools' : t.id = id =>
       \E u \in tools : u.id = id /\ u.name = t.name

(* A session goes on without a tool, a transition or a new journal.        *)
Follows(from, to) ==
  /\ to \in ControlStates
  /\ to \in Pinned \cup Held => from \in Pinned \cup Held
  /\ to \in Held =>
       /\ from \in Held \ {"await"} /\ to \notin {"sfdisk", "mkfs", "await"}
       /\ to \in BeforeTable <=> from \in BeforeTable
       /\ to \in BeforeFormat => from \in BeforeFormat
       /\ to \in AfterFormat => from \in AfterFormat

-----------------------------------------------------------------------------
(* The transitions of the journal (ApplyTransition) lead from a journal    *)
(* that fits the control state before them to one that fits the state      *)
(* after them, and set the flag of a crossing before its tool.             *)
LEMMA TransitionTable ==
  ASSUME NEW at \in DOMAIN Transitions, NEW j \in Journals,
         NEW k, k = ApplyTransition(j, at)
  PROVE  /\ at \in Held \ ({"lock", "check", "sfdisk", "mkfs", "await"})
         /\ k \in Journals
         /\ k.phase # "Prepared"
         /\ k.table = (j.table \/ at = "begin")
         /\ k.fs = (j.fs \/ at = "begin_format")
         /\ Transitions[at].next \in (Held \cup {"closing"})
                                       \ {"lock", "check", "begin", "await"}
         /\ Transitions[at].next \in BeforeFormat =>
              at \in BeforeFormat \cup BeforeTable /\ at # "begin_format"
         /\ Transitions[at].next \in AfterFormat =>
              at = "begin_format" \/ at \in AfterFormat
         /\ Transitions[at].next = "sfdisk" => at = "begin"
         /\ Transitions[at].next = "mkfs" => at = "begin_format"
  <1>1. at \in {"begin", "written", "exact", "begin_format", "formatted",
                "complete", "recover"}
    BY DEF Transitions
  <1>2. /\ k.phase = Transitions[at].phase
        /\ k.table = (j.table \/ at = "begin")
        /\ k.fs = (j.fs \/ at = "begin_format")
    BY DEF ApplyTransition
  <1>3. Transitions[at].phase \in Phases
    BY DEF Phases
  <1>4. k \in Journals
    BY <1>3 DEF Journals, ApplyTransition
  <1>5. /\ Transitions[at].phase # "Prepared"
        /\ Transitions[at].next =
             CASE at = "begin" -> "sfdisk"
               [] at = "written" -> "rediscover"
               [] at = "exact" -> "mapped"
               [] at = "begin_format" -> "mkfs"
               [] at = "formatted" -> "verify"
               [] OTHER -> "closing"
    BY <1>1 DEF Transitions
  <1> QED
    BY <1>1, <1>2, <1>4, <1>5 DEF Held, BeforeTable, BeforeFormat, AfterFormat

(* A journal is created with no flag (NewJournal).                         *)
LEMMA NewJournalType ==
  /\ NewJournal \in Journals
  /\ ~NewJournal.table /\ ~NewJournal.fs
  BY DEF NewJournal, Journals, Phases

(* Whatever a session does, another one that holds a journal of its own    *)
(* still does.                                                             *)
LEMMA HeldFrame ==
  ASSUME NEW x, HeldInv(x), SameSession(x), SameRun(pin[x])
  PROVE  HeldInv(x)'
  <1>1. Settled(pin[x], mem[x])'
    <2>1. Settled(pin[x], mem[x])
      BY DEF HeldInv
    <2> QED
      BY <2>1 DEF Settled, SameSession, SameRun, Untouched
  <1>2. ToolAt(pc[x], mem[x], pin[x], tools')
    BY DEF HeldInv, ToolAt, SameRun
  <1> QED
    BY <1>1, <1>2 DEF HeldInv, SameSession, SameRun

(* What is left to show of a step of one session for the sessions.         *)
LEMMA SessionFrame ==
  ASSUME RuntimeInv, TypeOK', NEW s \in Sessions,
         \A x \in Sessions \ {s} : SameSession(x),
         \A x \in Sessions \ {s} : pc[x] \in Held => SameRun(pin[x]),
         pc'[s] \in Pinned \cup Held => pin'[s] \in Ids,
         pc'[s] \in Held =>
           /\ HeldInv(s)'
           /\ \A x \in Sessions \ {s} : pc[x] \in Held => pin[x] # pin'[s]
  PROVE  SessionInv' /\ Exclusive'
  <1>1. ASSUME NEW x \in Sessions, x # s
        PROVE  /\ pc'[x] \in Pinned \cup Held => pin'[x] \in Ids
               /\ pc'[x] \in Held => HeldInv(x)'
    BY <1>1, HeldFrame DEF RuntimeInv, SessionInv, SameSession
  <1>2. SessionInv'
    BY <1>1 DEF SessionInv
  <1>3. Exclusive'
    BY DEF RuntimeInv, Exclusive, SameSession
  <1> QED
    BY <1>2, <1>3

(* The journal stays ahead of the tools as long as only journals that      *)
(* allow for them are written.                                             *)
LEMMA WriteAheadFrame ==
  ASSUME WriteAhead, started' = started,
         \A id \in Ids :
           \/ Outcomes(id)' \subseteq Outcomes(id)
           \/ started[id] = {}
           \/ \E j \in Journals :
                /\ Covers(j, started[id])
                /\ Outcomes(id)' \subseteq Outcomes(id) \cup {Once(j)}
  PROVE  WriteAhead'
  <1> SUFFICES ASSUME NEW id \in Ids, started[id] # {},
                      NEW outcome, outcome \in Outcomes(id)'
               PROVE  /\ outcome # None /\ outcome.names = 1
                      /\ outcome.record.phase # "Prepared"
                      /\ outcome.record.table
                      /\ "mkfs" \in started[id] => outcome.record.fs
    BY DEF WriteAhead
  <1>1. CASE outcome \in Outcomes(id)
    BY <1>1 DEF WriteAhead
  <1>2. ASSUME NEW j \in Journals, Covers(j, started[id]), outcome = Once(j)
        PROVE  /\ outcome # None /\ outcome.names = 1
               /\ outcome.record.phase # "Prepared"
               /\ outcome.record.table
               /\ "mkfs" \in started[id] => outcome.record.fs
    BY <1>2, OnceIsFile, NoneAssumption DEF Covers, FilesOf
  <1> QED
    BY <1>1, <1>2

-----------------------------------------------------------------------------
(* A session with a transition to make has a pinned consent and a journal  *)
(* under it, and what it is about to write (Transition) is a journal that  *)
(* allows for all that was started.                                        *)
LEMMA AtTransition ==
  ASSUME RuntimeInv, NEW s \in Sessions, pc[s] \in DOMAIN Transitions,
         NEW k, k = ApplyTransition(mem[s], pc[s])
  PROVE  /\ pc[s] \in Held /\ pin[s] \in Ids /\ HeldInv(s)
         /\ k \in Journals
         /\ Covers(k, started[pin[s]])
  <1>1. pc[s] \in Held
    BY DEF Transitions, Held
  <1>2. pin[s] \in Ids /\ HeldInv(s)
    BY <1>1 DEF RuntimeInv, SessionInv
  <1>3. mem[s] \in Journals
    BY <1>2 DEF HeldInv
  <1>4. k \in Journals /\ k.phase # "Prepared"
        /\ k.table = (mem[s].table \/ pc[s] = "begin")
        /\ k.fs = (mem[s].fs \/ pc[s] = "begin_format")
    BY <1>3, TransitionTable
  <1>5. started[pin[s]] # {} => k.table
    BY <1>2, <1>4 DEF HeldInv, JournalAt, StartedAt, BeforeTable
  <1>6. "mkfs" \in started[pin[s]] => k.fs
    BY <1>2, <1>4 DEF HeldInv, StartedAt
  <1> QED
    BY <1>1, <1>2, <1>4, <1>5, <1>6 DEF Covers

(* What a killed session leaves in the store (InFlight) is of its own      *)
(* journal, and touches no record that another session holds.              *)
LEMMA InFlightLemma ==
  ASSUME RuntimeInv, NEW s \in Sessions, InFlight(s)
  PROVE  /\ StoreTyped(Journals)'
         /\ \A id \in Ids :
              \/ Untouched(id)
              \/ /\ id = pin[s]
                 /\ pc[s] \in Held \/ file[id] = None
                 /\ \/ file[id] = None
                    \/ \E j \in Journals :
                         /\ Covers(j, started[id])
                         /\ Outcomes(id)' \subseteq Outcomes(id) \cup {Once(j)}
  <1>0. StoreTyped(Journals)
    BY DEF RuntimeInv, TypeOK
  <1>1. CASE pc[s] = "journal" /\ CreateFails(pin[s], NewJournal)
    <2>1. pin[s] \in Ids
      BY <1>1 DEF RuntimeInv, SessionInv, Pinned
    <2> QED
      BY <1>0, <1>1, <2>1, CreateFailsLemma, NewJournalType
  <1>2. CASE /\ pc[s] \in DOMAIN Transitions
             /\ ReplaceFails(pin[s], ApplyTransition(mem[s], pc[s]))
    <2> DEFINE k == ApplyTransition(mem[s], pc[s])
    <2>1. /\ pc[s] \in Held /\ pin[s] \in Ids
          /\ k \in Journals /\ Covers(k, started[pin[s]])
      BY <1>2, AtTransition
    <2>2. ReplaceFails(pin[s], k)
      BY <1>2
    <2> HIDE DEF k
    <2> QED
      BY <1>0, <2>1, <2>2, ReplaceFailsLemma
  <1>3. CASE UNCHANGED storeVars
    BY <1>0, <1>3, StoreUnchangedLemma
  <1> QED
    BY <1>1, <1>2, <1>3 DEF InFlight

(* The inode of a new consent is none that anybody could still pin.        *)
LEMMA FreeInodesLemma ==
  /\ FreeInodes \subseteq Ids
  /\ \A s \in Sessions : pin[s] \notin FreeInodes
  BY DEF FreeInodes

-----------------------------------------------------------------------------
(* Every operation keeps the types: consent, pins and journals are only    *)
(* copied, created or replaced by a transition.                            *)
LEMMA SessionTypes ==
  ASSUME RuntimeInv, NEW s \in Sessions, Session(s), hasty' = hasty
  PROVE  TypeOK'
  <1> USE DEF TypeOK
  <1>0. TypeOK
    BY DEF RuntimeInv
  <1>a. ControlStates =
          Unpinned \cup Pinned \cup Held \cup {"closing"}
    BY DEF ControlStates
  <1>1. ASSUME UNCHANGED storeVars PROVE StoreTyped(Journals)'
    BY <1>0, <1>1, StoreUnchangedLemma
  <1>2. CASE Activate(s)
    BY <1>0, <1>1, <1>2, <1>a DEF Activate, Goto, Unpinned, mediumVars, toolVars
  <1>3. CASE WriteConsent(s)
    BY <1>0, <1>1, <1>3, <1>a, FreeInodesLemma
       DEF WriteConsent, Goto, Unpinned, mediumVars, toolVars
  <1>4. CASE WriteConsentFails(s)
    BY <1>0, <1>1, <1>4, <1>a, FreeInodesLemma
       DEF WriteConsentFails, Goto, mediumVars, toolVars
  <1>5. CASE Pin(s)
    BY <1>0, <1>1, <1>5, <1>a DEF Pin, Goto, Pinned, mediumVars, toolVars
  <1>6. CASE Permit(s)
    BY <1>0, <1>1, <1>6, <1>a DEF Permit, Goto, Pinned, mediumVars, toolVars
  <1>7. CASE PreflightSnapshot(s)
    BY <1>0, <1>1, <1>7, <1>a
       DEF PreflightSnapshot, Goto, Pinned, mediumVars, toolVars
  <1>8. CASE PreflightConsent(s)
    BY <1>0, <1>1, <1>8, <1>a
       DEF PreflightConsent, Goto, Pinned, mediumVars, toolVars
  <1>9. CASE PersistNew(s)
    <2>1. pin[s] \in Ids
      BY <1>9 DEF PersistNew, Goto, RuntimeInv, SessionInv, Pinned
    <2>2. StoreTyped(Journals)'
      BY <1>0, <1>9, <2>1, CreatedLemma, NewJournalType DEF PersistNew
    <2> QED
      BY <1>0, <1>9, <2>2, <1>a, NewJournalType
         DEF PersistNew, Goto, Held, mediumVars, toolVars
  <1>10. CASE PersistNewFails(s)
    <2>1. pin[s] \in Ids
      BY <1>10 DEF PersistNewFails, Goto, RuntimeInv, SessionInv, Pinned
    <2>2. StoreTyped(Journals)'
      BY <1>0, <1>10, <2>1, CreateFailsLemma, NewJournalType
         DEF PersistNewFails
    <2> QED
      BY <1>0, <1>10, <2>2, <1>a
         DEF PersistNewFails, Goto, mediumVars, toolVars
  <1>11. CASE TakeLock(s)
    BY <1>0, <1>1, <1>11, <1>a DEF TakeLock, Goto, Held, mediumVars, toolVars
  <1>12. CASE CheckPartitionCrossing(s)
    BY <1>0, <1>1, <1>12, <1>a
       DEF CheckPartitionCrossing, Unchanged, Goto, Held, mediumVars, toolVars
  <1>13. CASE Transition(s)
    <2> DEFINE k == ApplyTransition(mem[s], pc[s])
    <2>1. /\ pc[s] \in DOMAIN Transitions /\ Replaced(pin[s], k)
          /\ mem' = [mem EXCEPT ![s] = k]
          /\ pc' = [pc EXCEPT ![s] = Transitions[pc[s]].next]
          /\ UNCHANGED <<consent, lock, wrote, pin, revoked, mediumVars,
                         toolVars>>
      BY <1>13 DEF Transition
    <2>2. k \in Journals /\ pin[s] \in Ids /\ mem[s] \in Journals
      BY <2>1, AtTransition DEF HeldInv
    <2>3. Transitions[pc[s]].next \in Held \cup {"closing"}
      BY <2>1, <2>2, TransitionTable
    <2> HIDE DEF k
    <2>4. StoreTyped(Journals)'
      BY <1>0, <2>1, <2>2, ReplacedLemma
    <2> QED
      BY <1>0, <2>1, <2>2, <2>3, <2>4, <1>a DEF mediumVars, toolVars
  <1>14. CASE TransitionFails(s)
    <2> DEFINE k == ApplyTransition(mem[s], pc[s])
    <2>1. /\ pc[s] \in DOMAIN Transitions /\ ReplaceFails(pin[s], k)
          /\ pc' = [pc EXCEPT ![s] = "closing"]
          /\ UNCHANGED <<consent, lock, wrote, pin, mem, revoked, mediumVars,
                         toolVars>>
      BY <1>14 DEF TransitionFails
    <2>2. k \in Journals /\ pin[s] \in Ids
      BY <2>1, AtTransition
    <2> HIDE DEF k
    <2>4. StoreTyped(Journals)'
      BY <1>0, <2>1, <2>2, ReplaceFailsLemma
    <2> QED
      BY <1>0, <2>1, <2>4, <1>a DEF mediumVars, toolVars
  <1>15. CASE Spawn(s)
    <2>1. pc[s] \in ToolNames /\ pc[s] \in Held
      BY <1>15 DEF Spawn, Stages, ToolNames, Held
    <2>2. pin[s] \in Ids
      BY <2>1 DEF RuntimeInv, SessionInv
    <2>3. Tool(pc[s], pin[s], "started")
            \in [name : ToolNames, id : Ids, at : ToolStates]
      BY <2>1, <2>2 DEF Tool, ToolStates
    <2>4. started' \in [Ids -> SUBSET ToolNames]
      BY <1>0, <1>15, <2>1, <2>2 DEF Spawn
    <2>5. tools' \subseteq [name : ToolNames, id : Ids, at : ToolStates]
      BY <1>0, <1>15, <2>3 DEF Spawn
    <2> QED
      BY <1>0, <1>1, <1>15, <2>4, <2>5, <1>a
         DEF Spawn, Unchanged, Held, mediumVars
  <1>16. CASE Await(s)
    <2>1. PICK t \in tools :
            /\ tools' = tools \ {t}
            /\ \/ pc' = [pc EXCEPT ![s] = Stages[t.name]]
               \/ pc' = [pc EXCEPT ![s] = "recover"]
      BY <1>16 DEF Await
    <2>2. t.name \in ToolNames
      BY <1>0
    <2>3. Stages[t.name] \in Held
      BY <2>2 DEF ToolNames, Stages, Held
    <2>4. pc' \in [Sessions -> ControlStates]
      BY <1>0, <2>1, <2>3, <1>a DEF Held
    <2>5. tools' \subseteq [name : ToolNames, id : Ids, at : ToolStates]
      BY <1>0, <2>1
    <2> QED
      BY <1>0, <1>1, <1>16, <2>4, <2>5 DEF Await, Unchanged, mediumVars
  <1>17. CASE Partx(s)
    BY <1>0, <1>1, <1>17, <1>a DEF Partx, Unchanged, Goto, Held, toolVars
  <1>18. CASE Rediscover(s)
    BY <1>0, <1>1, <1>18, <1>a
       DEF Rediscover, Unchanged, Goto, Held, mediumVars, toolVars
  <1>19. CASE CheckFilesystemCrossing(s)
    BY <1>0, <1>1, <1>19, <1>a
       DEF CheckFilesystemCrossing, Unchanged, Goto, Held, mediumVars, toolVars
  <1>20. CASE RediscoverBeforeFormat(s)
    BY <1>0, <1>1, <1>20, <1>a
       DEF RediscoverBeforeFormat, Unchanged, Goto, Held, mediumVars, toolVars
  <1>21. CASE RecheckConsent(s)
    BY <1>0, <1>1, <1>21, <1>a
       DEF RecheckConsent, Unchanged, Goto, Held, mediumVars, toolVars
  <1>22. CASE VerifyFilesystem(s)
    BY <1>0, <1>1, <1>22, <1>a
       DEF VerifyFilesystem, Unchanged, Goto, Held, mediumVars, toolVars
  <1>23. CASE Fails(s)
    BY <1>0, <1>1, <1>23, <1>a
       DEF Fails, Unchanged, Goto, Held, mediumVars, toolVars
  <1>24. CASE DropLock(s)
    BY <1>0, <1>1, <1>24, <1>a
       DEF DropLock, Released, Goto, Unpinned, mediumVars, toolVars
  <1>25. CASE DropGuard(s)
    <2>1. /\ pc' \in [Sessions -> ControlStates]
          /\ wrote' \in [Sessions -> Ids \cup {None}]
          /\ UNCHANGED <<storeVars, lock, pin, mem, mediumVars, toolVars>>
      BY <1>0, <1>25, <1>a DEF DropGuard, Goto, Unpinned
    <2>2. /\ consent' \in Ids \cup {None, "torn"}
          /\ revoked' \in [Sessions -> BOOLEAN]
      <3>1. CASE wrote[s] # None /\ consent = wrote[s]
        BY <1>0, <1>25, <3>1 DEF DropGuard, NoteRemoval
      <3>2. CASE ~(wrote[s] # None /\ consent = wrote[s])
        BY <1>0, <1>25, <3>2 DEF DropGuard
      <3> QED
        BY <3>1, <3>2
    <2> QED
      BY <1>0, <1>1, <2>1, <2>2 DEF mediumVars, toolVars
  <1>26. CASE Kill(s)
    <2>1. StoreTyped(Journals)'
      BY <1>26, InFlightLemma DEF Kill
    <2> QED
      BY <1>0, <1>26, <2>1, <1>a
         DEF Kill, Released, Unpinned, mediumVars
  <1> QED
    BY <1>2, <1>3, <1>4, <1>5, <1>6, <1>7, <1>8, <1>9, <1>10, <1>11, <1>12,
       <1>13, <1>14, <1>15, <1>16, <1>17, <1>18, <1>19, <1>20, <1>21, <1>22,
       <1>23, <1>24, <1>25, <1>26 DEF Session

(* So does the world around: the tools, the kernel, a crash of the host    *)
(* and the operator.                                                       *)
LEMMA WorldTypes ==
  ASSUME RuntimeInv,
         \/ \E t \in tools : ToolWrites(t) \/ ToolSucceeds(t) \/ ToolFails(t)
         \/ KernelMaps \/ HostCrash \/ OperatorRemovesConsent,
         hasty' \in BOOLEAN
  PROVE  TypeOK'
  <1> USE DEF TypeOK
  <1>0. TypeOK
    BY DEF RuntimeInv
  <1>1. ASSUME UNCHANGED storeVars PROVE StoreTyped(Journals)'
    BY <1>0, <1>1, StoreUnchangedLemma
  <1>2. ASSUME NEW t \in tools, NEW status \in ToolStates
        PROVE  /\ [t EXCEPT !.at = status]
                    \in [name : ToolNames, id : Ids, at : ToolStates]
               /\ Ended(t, status)
                    \subseteq [name : ToolNames, id : Ids, at : ToolStates]
    <2>1. t \in [name : ToolNames, id : Ids, at : ToolStates]
      BY <1>0
    <2>2. [t EXCEPT !.at = status]
            \in [name : ToolNames, id : Ids, at : ToolStates]
      BY <1>2, <2>1
    <2> QED
      BY <1>0, <2>2 DEF Ended
  <1>3. ASSUME NEW t \in tools, ToolWrites(t) PROVE TypeOK'
    <2>1. tools' \subseteq [name : ToolNames, id : Ids, at : ToolStates]
      BY <1>0, <1>2, <1>3 DEF ToolWrites, ToolStates
    <2> QED
      BY <1>0, <1>1, <1>3, <2>1 DEF ToolWrites, procVars
  <1>4. ASSUME NEW t \in tools, ToolSucceeds(t) PROVE TypeOK'
    <2>1. tools' \subseteq [name : ToolNames, id : Ids, at : ToolStates]
      BY <1>2, <1>4 DEF ToolSucceeds, ToolStates
    <2>2. t.id \in Ids
      BY <1>0
    <2> QED
      BY <1>0, <1>1, <1>4, <2>1, <2>2 DEF ToolSucceeds, procVars
  <1>5. ASSUME NEW t \in tools, ToolFails(t) PROVE TypeOK'
    <2>1. tools' \subseteq [name : ToolNames, id : Ids, at : ToolStates]
      BY <1>2, <1>5 DEF ToolFails, ToolStates
    <2> QED
      BY <1>0, <1>1, <1>5, <2>1 DEF ToolFails, procVars, mediumVars
  <1>6. CASE KernelMaps
    BY <1>0, <1>1, <1>6 DEF KernelMaps, procVars, toolVars
  <1>7. CASE HostCrash
    <2>1. StoreTyped(Journals)'
      BY <1>0, <1>7, StoreCrashLemma DEF HostCrash
    <2> QED
      BY <1>0, <1>7, <2>1 DEF HostCrash, ControlStates, Unpinned
  <1>8. CASE OperatorRemovesConsent
    BY <1>0, <1>1, <1>8
       DEF OperatorRemovesConsent, NoteRemoval, mediumVars, toolVars
  <1> QED
    BY <1>3, <1>4, <1>5, <1>6, <1>7, <1>8

-----------------------------------------------------------------------------
(* A step that only moves a session, by itself or into the end of an       *)
(* invocation.                                                             *)
LEMMA MoveLemma ==
  ASSUME RuntimeInv, TypeOK', NEW s \in Sessions, NEW to,
         pc' = [pc EXCEPT ![s] = to], Follows(pc[s], to),
         UNCHANGED <<storeVars, pin, mem, tools, started>>
  PROVE  RuntimeInv'
  <1>1. \A id \in Ids : Untouched(id) /\ SameRun(id)
    BY StoreUnchangedLemma DEF RuntimeInv, TypeOK, SameRun
  <1>2. \A x \in Sessions \ {s} : SameSession(x)
    BY DEF SameSession, RuntimeInv, TypeOK
  <1>3. \A x \in Sessions : pc[x] \in Held => pin[x] \in Ids
    BY DEF RuntimeInv, SessionInv
  <1>4. pc'[s] = to
    BY DEF RuntimeInv, TypeOK
  <1>5. to \in Pinned \cup Held => pin'[s] \in Ids
    BY DEF Follows, RuntimeInv, SessionInv
  <1>6. ASSUME to \in Held
        PROVE  /\ HeldInv(s)'
               /\ \A x \in Sessions \ {s} : pc[x] \in Held => pin[x] # pin'[s]
    <2>1. pc[s] \in Held \ {"await"} /\ HeldInv(s)
      BY <1>6 DEF Follows, RuntimeInv, SessionInv
    <2>2. Settled(pin[s], mem[s])'
      BY <2>1 DEF HeldInv, Settled, storeVars
    <2>3. JournalAt(to, mem[s])
      BY <1>6, <2>1 DEF HeldInv, JournalAt, Follows
    <2>4. StartedAt(to, mem[s], started[pin[s]])
      BY <1>6, <2>1 DEF HeldInv, StartedAt, Follows
    <2>5. ToolAt(to, mem[s], pin[s], tools)
      BY <2>1 DEF HeldInv, ToolAt
    <2>6. HeldInv(s)'
      BY <1>4, <2>1, <2>2, <2>3, <2>4, <2>5 DEF HeldInv
    <2> QED
      BY <2>1, <2>6 DEF RuntimeInv, Exclusive
  <1>7. SessionInv' /\ Exclusive'
    BY <1>1, <1>2, <1>3, <1>4, <1>5, <1>6, SessionFrame
  <1>8. ToolInv'
    BY DEF RuntimeInv, ToolInv
  <1>9. WriteAhead'
    BY <1>1, UntouchedOutcomes, WriteAheadFrame DEF RuntimeInv
  <1> QED
    BY <1>7, <1>8, <1>9 DEF RuntimeInv

(* A session that holds no journal after its step, whatever it did to its  *)
(* own until then.                                                         *)
LEMMA ParkLemma ==
  ASSUME RuntimeInv, TypeOK', NEW s \in Sessions,
         \A x \in Sessions \ {s} : SameSession(x),
         pc'[s] \notin Held, pc'[s] \in Pinned => pin'[s] \in Ids,
         tools' \subseteq tools, started' = started,
         \A id \in Ids :
           \/ Untouched(id)
           \/ /\ id = pin[s]
              /\ pc[s] \in Held \/ file[id] = None
              /\ \/ file[id] = None
                 \/ \E j \in Journals :
                      /\ Covers(j, started[id])
                      /\ Outcomes(id)' \subseteq Outcomes(id) \cup {Once(j)}
  PROVE  RuntimeInv'
  <1>1. ASSUME NEW x \in Sessions \ {s}, pc[x] \in Held
        PROVE  SameRun(pin[x])
    <2>1. pin[x] \in Ids /\ Settled(pin[x], mem[x]) /\ mem[x] \in Journals
      BY <1>1 DEF RuntimeInv, SessionInv, HeldInv
    <2>2. file[pin[x]] # None
      BY <2>1, OnceIsFile, NoneAssumption DEF Settled, FilesOf
    <2>3. pc[s] \in Held => pin[s] # pin[x]
      BY <1>1 DEF RuntimeInv, Exclusive
    <2>4. Untouched(pin[x])
      BY <2>1, <2>2, <2>3
    <2> QED
      BY <2>4 DEF SameRun
  <1>2. SessionInv' /\ Exclusive'
    BY <1>1, SessionFrame
  <1>3. ToolInv'
    BY DEF RuntimeInv, ToolInv
  <1>4. ASSUME NEW id \in Ids, file[id] = None PROVE started[id] = {}
    BY <1>4 DEF RuntimeInv, WriteAhead, Outcomes
  <1>5. WriteAhead'
    BY <1>4, UntouchedOutcomes, WriteAheadFrame DEF RuntimeInv
  <1> QED
    BY <1>2, <1>3, <1>5 DEF RuntimeInv

(* A step that leaves the sessions and their journals alone.               *)
LEMMA StillLemma ==
  ASSUME RuntimeInv, TypeOK',
         UNCHANGED <<storeVars, pc, pin, mem, tools, started>>
  PROVE  RuntimeInv'
  <1>1. \A id \in Ids : Untouched(id) /\ SameRun(id)
    BY StoreUnchangedLemma DEF RuntimeInv, TypeOK, SameRun
  <1>2. \A x \in Sessions : pc[x] \in Held => HeldInv(x)'
    BY <1>1, HeldFrame DEF RuntimeInv, SessionInv, SameSession
  <1>3. SessionInv'
    BY <1>2 DEF RuntimeInv, SessionInv
  <1>4. WriteAhead'
    BY <1>1, UntouchedOutcomes, WriteAheadFrame DEF RuntimeInv
  <1> QED
    BY <1>3, <1>4 DEF RuntimeInv, Exclusive, ToolInv

(* A storage tool goes on or ends: the journals of the sessions know its   *)
(* name (ToolWrites, ToolSucceeds, ToolFails).                             *)
LEMMA ToolLemma ==
  ASSUME RuntimeInv, TypeOK', NEW t \in tools,
         UNCHANGED <<storeVars, pc, pin, mem, started>>,
         \E status \in ToolStates :
           tools' \subseteq (tools \ {t}) \cup {[t EXCEPT !.at = status]}
  PROVE  RuntimeInv'
  <1>1. PICK status \in ToolStates :
          tools' \subseteq (tools \ {t}) \cup {[t EXCEPT !.at = status]}
    OBVIOUS
  <1> DEFINE v == [t EXCEPT !.at = status]
  <1>2. v.id = t.id /\ v.name = t.name
    BY DEF RuntimeInv, TypeOK
  <1>3. tools' \subseteq (tools \ {t}) \cup {v}
    BY <1>1
  <1> HIDE DEF v
  <1>4. \A id \in Ids : Untouched(id) /\ SameRun(id)
    BY <1>2, <1>3, StoreUnchangedLemma DEF RuntimeInv, TypeOK, SameRun
  <1>5. \A x \in Sessions : pc[x] \in Held => HeldInv(x)'
    BY <1>4, HeldFrame DEF RuntimeInv, SessionInv, SameSession
  <1>6. SessionInv'
    BY <1>5 DEF RuntimeInv, SessionInv
  <1>7. WriteAhead'
    BY <1>4, UntouchedOutcomes, WriteAheadFrame DEF RuntimeInv
  <1>8. ToolInv'
    BY <1>2, <1>3 DEF RuntimeInv, ToolInv
  <1> QED
    BY <1>6, <1>7, <1>8 DEF RuntimeInv, Exclusive

-----------------------------------------------------------------------------
(* A journal is created where none was: nothing ever ran under its ID, and *)
(* nobody else holds it (persist_new).                                     *)
LEMMA PersistNewStep ==
  ASSUME RuntimeInv, TypeOK', NEW s \in Sessions, PersistNew(s)
  PROVE  RuntimeInv'
  <1>1. pin[s] \in Ids
    BY DEF PersistNew, Goto, RuntimeInv, SessionInv, Pinned
  <1>2. /\ file[pin[s]] = None
        /\ Settled(pin[s], NewJournal)'
        /\ \A x \in Ids \ {pin[s]} : Untouched(x)
    BY <1>1, CreatedLemma, NewJournalType
       DEF PersistNew, RuntimeInv, TypeOK
  <1>3. started[pin[s]] = {}
    BY <1>1, <1>2 DEF RuntimeInv, WriteAhead, Outcomes
  <1>4. \A t \in tools : t.id # pin[s]
    BY <1>3 DEF RuntimeInv, ToolInv
  <1>5. /\ pc'[s] = "lock" /\ mem'[s] = NewJournal /\ pin' = pin
        /\ tools' = tools /\ started' = started
        /\ \A x \in Sessions \ {s} : SameSession(x)
    BY DEF PersistNew, Goto, RuntimeInv, TypeOK, SameSession, toolVars
  <1>6. ASSUME NEW x \in Sessions \ {s}, pc[x] \in Held
        PROVE  pin[x] # pin[s] /\ SameRun(pin[x])
    <2>1. pin[x] \in Ids /\ Settled(pin[x], mem[x]) /\ mem[x] \in Journals
      BY <1>6 DEF RuntimeInv, SessionInv, HeldInv
    <2>2. file[pin[x]] # None
      BY <2>1, OnceIsFile, NoneAssumption DEF Settled, FilesOf
    <2> QED
      BY <1>2, <1>5, <2>1, <2>2 DEF SameRun
  <1>7. HeldInv(s)'
    <2>1. Settled(pin[s], mem[s])'
      BY <1>2, <1>5 DEF Settled
    <2> QED
      BY <1>3, <1>4, <1>5, <2>1, NewJournalType
         DEF HeldInv, JournalAt, StartedAt, ToolAt, BeforeTable, AfterFormat
  <1>8. SessionInv' /\ Exclusive'
    BY <1>1, <1>5, <1>6, <1>7, SessionFrame
  <1>9. ToolInv'
    BY <1>5 DEF RuntimeInv, ToolInv
  <1>10. WriteAhead'
    BY <1>2, <1>3, <1>5, UntouchedOutcomes, WriteAheadFrame DEF RuntimeInv
  <1> QED
    BY <1>8, <1>9, <1>10 DEF RuntimeInv

(* A transition is recorded: the journal allows for what was started       *)
(* before, and for the tool that comes next.                               *)
LEMMA TransitionStep ==
  ASSUME RuntimeInv, TypeOK', NEW s \in Sessions, Transition(s)
  PROVE  RuntimeInv'
  <1> DEFINE to == Transitions[pc[s]].next
  <1>0. PICK k : k = ApplyTransition(mem[s], pc[s])
    OBVIOUS
  <1>1. /\ pc[s] \in DOMAIN Transitions /\ Replaced(pin[s], k)
        /\ mem' = [mem EXCEPT ![s] = k]
        /\ pc' = [pc EXCEPT ![s] = to]
        /\ pin' = pin /\ tools' = tools /\ started' = started
    BY <1>0 DEF Transition, toolVars
  <1>2. /\ pc[s] \in Held /\ pin[s] \in Ids /\ HeldInv(s)
        /\ k \in Journals /\ Covers(k, started[pin[s]])
    BY <1>0, <1>1, AtTransition
  <1>3. mem[s] \in Journals
    BY <1>2 DEF HeldInv
  <1>4. /\ pc[s] \in Held \ ({"lock", "check", "sfdisk", "mkfs", "await"})
        /\ k.phase # "Prepared"
        /\ k.table = (mem[s].table \/ pc[s] = "begin")
        /\ k.fs = (mem[s].fs \/ pc[s] = "begin_format")
        /\ to \in (Held \cup {"closing"}) \ {"lock", "check", "begin", "await"}
        /\ to \in BeforeFormat =>
             pc[s] \in BeforeFormat \cup BeforeTable /\ pc[s] # "begin_format"
        /\ to \in AfterFormat =>
             pc[s] = "begin_format" \/ pc[s] \in AfterFormat
        /\ to = "sfdisk" => pc[s] = "begin"
        /\ to = "mkfs" => pc[s] = "begin_format"
    BY <1>0, <1>1, <1>3, TransitionTable
  <1> HIDE DEF to
  <1>5. /\ Settled(pin[s], k)'
        /\ \A x \in Ids \ {pin[s]} : Untouched(x)
    BY <1>1, <1>2, ReplacedLemma DEF RuntimeInv, TypeOK
  <1>6. /\ pc'[s] = to /\ mem'[s] = k
        /\ \A x \in Sessions \ {s} : SameSession(x)
    BY <1>1 DEF RuntimeInv, TypeOK, SameSession
  <1>7. ASSUME NEW x \in Sessions \ {s}, pc[x] \in Held
        PROVE  pin[x] # pin[s] /\ SameRun(pin[x])
    <2>1. pin[x] \in Ids /\ pin[x] # pin[s]
      BY <1>2, <1>7 DEF RuntimeInv, SessionInv, Exclusive
    <2> QED
      BY <1>1, <1>5, <2>1 DEF SameRun
  <1>8. ASSUME to \in Held PROVE HeldInv(s)'
    <2>1. Settled(pin[s], mem[s])'
      BY <1>1, <1>5, <1>6 DEF Settled
    <2>2. JournalAt(pc[s], mem[s]) /\ StartedAt(pc[s], mem[s], started[pin[s]])
      BY <1>2 DEF HeldInv
    <2>3. JournalAt(to, k)
      <3>1. to \notin BeforeTable /\ k.table
        BY <1>4, <2>2 DEF JournalAt, BeforeTable
      <3>2. to \in BeforeFormat => ~k.fs
        BY <1>4, <2>2 DEF JournalAt
      <3>3. to \in AfterFormat => k.fs
        BY <1>4, <2>2 DEF JournalAt
      <3> QED
        BY <1>4, <3>1, <3>2, <3>3 DEF JournalAt
    <2>4. StartedAt(to, k, started[pin[s]])
      <3>1. to \in BeforeTable \cup {"sfdisk"} => started[pin[s]] = {}
        BY <1>4, <2>2 DEF StartedAt, BeforeTable
      <3>2. "mkfs" \in started[pin[s]] => k.fs /\ to # "mkfs"
        BY <1>4, <2>2 DEF StartedAt, JournalAt, BeforeFormat
      <3> QED
        BY <3>1, <3>2 DEF StartedAt
    <2>5. ToolAt(to, k, pin[s], tools)
      BY <1>2, <1>4 DEF HeldInv, ToolAt
    <2> QED
      BY <1>1, <1>2, <1>6, <2>1, <2>3, <2>4, <2>5 DEF HeldInv
  <1>9. SessionInv' /\ Exclusive'
    BY <1>1, <1>2, <1>6, <1>7, <1>8, SessionFrame
  <1>10. ToolInv'
    BY <1>1 DEF RuntimeInv, ToolInv
  <1>11. WriteAhead'
    <2>1. \A id \in Ids \ {pin[s]} : Outcomes(id)' \subseteq Outcomes(id)
      BY <1>5, UntouchedOutcomes
    <2>2. Outcomes(pin[s])' \subseteq Outcomes(pin[s]) \cup {Once(k)}
      BY <1>1, <1>5 DEF Settled, Outcomes
    <2> QED
      BY <1>1, <1>2, <2>1, <2>2, WriteAheadFrame DEF RuntimeInv
  <1> QED
    BY <1>9, <1>10, <1>11 DEF RuntimeInv

(* A tool is started (Spawn): the first one under its journal that is not  *)
(* known to have ended, and the journal allows for it.                     *)
LEMMA SpawnStep ==
  ASSUME RuntimeInv, TypeOK', NEW s \in Sessions, Spawn(s)
  PROVE  /\ RuntimeInv'
         /\ pc[s] \notin started[pin[s]]
  <1>1. PICK id : id = pin[s]
    OBVIOUS
  <1>2. PICK new : new = Tool(pc[s], id, "started")
    OBVIOUS
  <1>3. /\ pc[s] \in {"sfdisk", "mkfs"}
        /\ tools' = tools \cup {new}
        /\ started' = [started EXCEPT ![id] = @ \cup {pc[s]}]
        /\ pc' = [pc EXCEPT ![s] = "await"]
        /\ UNCHANGED <<storeVars, pin, mem>>
    BY <1>1, <1>2 DEF Spawn, Stages, Unchanged
  <1>4. new.name = pc[s] /\ new.id = id
    BY <1>2 DEF Tool
  <1>5. id \in Ids /\ HeldInv(s) /\ pc[s] \in Held
    BY <1>1, <1>3 DEF RuntimeInv, SessionInv, Held
  <1>6. PICK j \in Journals : j = mem[s]
    BY <1>5 DEF HeldInv
  <1>7. /\ Settled(id, j) /\ JournalAt(pc[s], j)
        /\ StartedAt(pc[s], j, started[id]) /\ ToolAt(pc[s], j, id, tools)
    BY <1>1, <1>5, <1>6 DEF HeldInv
  <1>8. /\ j.table /\ j.phase # "Prepared"
        /\ pc[s] = "sfdisk" => ~j.fs /\ started[id] = {}
        /\ pc[s] = "mkfs" => j.fs /\ "mkfs" \notin started[id]
    BY <1>3, <1>7
       DEF JournalAt, StartedAt, BeforeTable, BeforeFormat, AfterFormat
  <1>9. \A t \in tools : t.id # id
    BY <1>3, <1>7 DEF ToolAt
  <1>10. /\ started'[id] = started[id] \cup {pc[s]}
         /\ \A x \in Ids \ {id} : started'[x] = started[x]
    BY <1>3, <1>5 DEF RuntimeInv, TypeOK
  <1>11. \A x \in Ids : Untouched(x)
    BY <1>3, StoreUnchangedLemma DEF RuntimeInv, TypeOK
  <1>12. /\ pc'[s] = "await" /\ pin'[s] = id /\ mem'[s] = j
         /\ \A x \in Sessions \ {s} : SameSession(x)
    BY <1>1, <1>3, <1>6 DEF RuntimeInv, TypeOK, SameSession
  <1>13. ASSUME NEW x \in Sessions \ {s}, pc[x] \in Held
         PROVE  pin[x] # id /\ SameRun(pin[x])
    <2>1. pin[x] \in Ids /\ pin[x] # id
      BY <1>1, <1>5, <1>13 DEF RuntimeInv, SessionInv, Exclusive
    <2> QED
      BY <1>3, <1>4, <1>10, <1>11, <2>1 DEF SameRun
  <1>14. HeldInv(s)'
    <2>1. Settled(pin[s], mem[s])'
      BY <1>1, <1>3, <1>6, <1>7 DEF Settled, storeVars
    <2>2. JournalAt("await", j)
      BY <1>8 DEF JournalAt, BeforeTable, BeforeFormat, AfterFormat
    <2>3. StartedAt("await", j, started'[id])
      BY <1>3, <1>8, <1>10 DEF StartedAt, BeforeTable
    <2>4. ToolAt("await", j, id, tools')
      BY <1>3, <1>4, <1>8, <1>9 DEF ToolAt
    <2> QED
      BY <1>12, <2>1, <2>2, <2>3, <2>4 DEF HeldInv
  <1>15. SessionInv' /\ Exclusive'
    BY <1>5, <1>12, <1>13, <1>14, SessionFrame
  <1>16. ToolInv'
    <2>1. \A t \in tools : t.id \in Ids
      BY DEF RuntimeInv, TypeOK
    <2>2. \A t \in tools' : t.name \in started'[t.id]
      BY <1>3, <1>4, <1>9, <1>10, <2>1 DEF RuntimeInv, ToolInv
    <2>3. \A t, u \in tools' : t.id = u.id => t = u
      BY <1>3, <1>4, <1>9 DEF RuntimeInv, ToolInv
    <2> QED
      BY <2>2, <2>3 DEF ToolInv
  <1>17. WriteAhead'
    <2>1. \A x \in Ids : Outcomes(x)' \subseteq Outcomes(x)
      BY <1>11, UntouchedOutcomes
    <2>2. Outcomes(id) = {Once(j)}
      BY <1>7, SettledOutcome
    <2>3. Once(j) # None /\ Once(j).names = 1 /\ Once(j).record = j
      BY OnceIsFile, NoneAssumption DEF FilesOf
    <2>4. "mkfs" \in started'[id] => j.fs
      BY <1>3, <1>8, <1>10
    <2>5. ASSUME NEW outcome, outcome \in Outcomes(id)'
          PROVE  /\ outcome # None /\ outcome.names = 1
                 /\ outcome.record.phase # "Prepared"
                 /\ outcome.record.table
                 /\ "mkfs" \in started'[id] => outcome.record.fs
      <3>1. outcome = Once(j)
        BY <1>5, <2>1, <2>2, <2>5
      <3> QED
        BY <1>8, <2>3, <2>4, <3>1
    <2>6. ASSUME NEW x \in Ids \ {id}, started'[x] # {},
                 NEW outcome, outcome \in Outcomes(x)'
          PROVE  /\ outcome # None /\ outcome.names = 1
                 /\ outcome.record.phase # "Prepared"
                 /\ outcome.record.table
                 /\ "mkfs" \in started'[x] => outcome.record.fs
      BY <1>10, <2>1, <2>6 DEF RuntimeInv, WriteAhead
    <2> QED
      BY <2>5, <2>6 DEF WriteAhead
  <1> QED
    BY <1>1, <1>3, <1>8, <1>15, <1>16, <1>17 DEF RuntimeInv

(* The exit of a tool is waited for (Await): it is the tool of this        *)
(* journal, and after it none is left.                                     *)
LEMMA AwaitStep ==
  ASSUME RuntimeInv, TypeOK', NEW s \in Sessions, Await(s)
  PROVE  RuntimeInv'
  <1>1. PICK t \in tools :
          /\ t.id = pin[s]
          /\ tools' = tools \ {t}
          /\ \/ pc' = [pc EXCEPT ![s] = Stages[t.name]]
             \/ pc' = [pc EXCEPT ![s] = "recover"]
    BY DEF Await
  <1>2. /\ pc[s] = "await"
        /\ UNCHANGED <<storeVars, pin, mem, started>>
    BY DEF Await, Unchanged
  <1>3. PICK id \in Ids : id = pin[s]
    BY <1>2 DEF RuntimeInv, SessionInv, Held
  <1>4. HeldInv(s)
    BY <1>2 DEF RuntimeInv, SessionInv, Held
  <1>5. PICK j \in Journals : j = mem[s]
    BY <1>4 DEF HeldInv
  <1>6. /\ Settled(id, j) /\ JournalAt("await", j)
        /\ StartedAt("await", j, started[id]) /\ ToolAt("await", j, id, tools)
    BY <1>2, <1>3, <1>4, <1>5 DEF HeldInv
  <1>7. PICK to : to = pc'[s]
    OBVIOUS
  <1>8. \/ to = "partx" /\ ~j.fs
        \/ to = "formatted" /\ j.fs
        \/ to = "recover"
    <2>1. t.name = (IF j.fs THEN "mkfs" ELSE "sfdisk")
      BY <1>1, <1>3, <1>6 DEF ToolAt
    <2>2. Stages[t.name] = (IF j.fs THEN "formatted" ELSE "partx")
      BY <2>1 DEF Stages
    <2> QED
      BY <1>1, <1>7, <2>2 DEF RuntimeInv, TypeOK
  <1>9. \A u \in tools' : u.id # id
    BY <1>1, <1>3 DEF RuntimeInv, ToolInv
  <1>10. \A x \in Ids : Untouched(x) /\ SameRun(x)
    BY <1>1, <1>2, StoreUnchangedLemma DEF RuntimeInv, TypeOK, SameRun
  <1>11. \A x \in Sessions \ {s} : SameSession(x)
    BY <1>1, <1>2 DEF SameSession, RuntimeInv, TypeOK
  <1>12. HeldInv(s)'
    <2>1. Settled(pin[s], mem[s])'
      BY <1>2, <1>3, <1>5, <1>6 DEF Settled, storeVars
    <2>2. JournalAt(to, j)
      BY <1>6, <1>8
         DEF JournalAt, BeforeTable, BeforeFormat, AfterFormat
    <2>3. StartedAt(to, j, started[id])
      BY <1>6, <1>8 DEF StartedAt, BeforeTable
    <2>4. ToolAt(to, j, id, tools')
      BY <1>9 DEF ToolAt
    <2> QED
      BY <1>2, <1>3, <1>5, <1>7, <2>1, <2>2, <2>3, <2>4 DEF HeldInv
  <1>13. \A x \in Sessions : pc[x] \in Held => pin[x] \in Ids
    BY DEF RuntimeInv, SessionInv
  <1>14. \A x \in Sessions \ {s} : pc[x] \in Held => pin[x] # pin'[s]
    BY <1>2 DEF RuntimeInv, Exclusive, Held
  <1>15. pin'[s] \in Ids
    BY <1>2, <1>3
  <1>16. SessionInv' /\ Exclusive'
    BY <1>10, <1>11, <1>12, <1>13, <1>14, <1>15, SessionFrame
  <1>17. ToolInv'
    BY <1>1, <1>2 DEF RuntimeInv, ToolInv
  <1>18. WriteAhead'
    BY <1>2, <1>10, UntouchedOutcomes, WriteAheadFrame DEF RuntimeInv
  <1> QED
    BY <1>16, <1>17, <1>18 DEF RuntimeInv

-----------------------------------------------------------------------------
(* Every operation of a session keeps the invariant.                       *)
LEMMA SessionStep ==
  ASSUME RuntimeInv, TypeOK', NEW s \in Sessions, Session(s)
  PROVE  RuntimeInv'
  <1> USE DEF ControlStates, Unpinned, Pinned, Held, BeforeTable,
              BeforeFormat, AfterFormat
  <1>1. ASSUME UNCHANGED storeVars PROVE \A id \in Ids : Untouched(id)
    BY <1>1, StoreUnchangedLemma DEF RuntimeInv, TypeOK
  <1>2. CASE Activate(s)
    <2>1. Follows("start", "consent")
      BY DEF Follows
    <2> QED
      BY <1>2, <2>1, MoveLemma DEF Activate, Goto, toolVars
  <1>3. CASE WriteConsent(s)
    <2>1. Follows("consent", "pin")
      BY DEF Follows
    <2> QED
      BY <1>3, <2>1, MoveLemma DEF WriteConsent, Goto, toolVars
  <1>4. CASE WriteConsentFails(s)
    <2>1. Follows("consent", "closing")
      BY DEF Follows
    <2> QED
      BY <1>4, <2>1, MoveLemma DEF WriteConsentFails, Goto, toolVars
  <1>5. CASE Pin(s)
    <2>1. /\ pc'[s] = "permit" /\ pin'[s] \in Ids
          /\ \A x \in Sessions \ {s} : SameSession(x)
          /\ UNCHANGED <<storeVars, tools, started>>
      BY <1>5 DEF Pin, Goto, toolVars, SameSession, RuntimeInv, TypeOK
    <2> QED
      BY <1>1, <2>1, ParkLemma
  <1>6. CASE Permit(s)
    <2>1. Follows("permit", "snapshot")
      BY DEF Follows
    <2> QED
      BY <1>6, <2>1, MoveLemma DEF Permit, Goto, toolVars
  <1>7. CASE PreflightSnapshot(s)
    <2>1. Follows("snapshot", "preflight")
      BY DEF Follows
    <2> QED
      BY <1>7, <2>1, MoveLemma DEF PreflightSnapshot, Goto, toolVars
  <1>8. CASE PreflightConsent(s)
    <2>1. Follows("preflight", "journal")
      BY DEF Follows
    <2> QED
      BY <1>8, <2>1, MoveLemma DEF PreflightConsent, Goto, toolVars
  <1>9. CASE PersistNew(s)
    BY <1>9, PersistNewStep
  <1>10. CASE PersistNewFails(s)
    <2>1. /\ pc[s] = "journal" /\ pc'[s] = "closing"
          /\ \A x \in Sessions \ {s} : SameSession(x)
          /\ UNCHANGED <<tools, started>>
          /\ CreateFails(pin[s], NewJournal)
      BY <1>10
         DEF PersistNewFails, Goto, toolVars, SameSession, RuntimeInv, TypeOK
    <2>2. pin[s] \in Ids
      BY <2>1 DEF RuntimeInv, SessionInv
    <2>3. \A id \in Ids : Untouched(id) \/ (id = pin[s] /\ file[id] = None)
      BY <2>1, <2>2, CreateFailsLemma, NewJournalType DEF RuntimeInv, TypeOK
    <2> QED
      BY <2>1, <2>3, ParkLemma
  <1>11. CASE TakeLock(s)
    <2>1. Follows("lock", "check")
      BY DEF Follows
    <2> QED
      BY <1>11, <2>1, MoveLemma DEF TakeLock, Goto, toolVars
  <1>12. CASE CheckPartitionCrossing(s)
    <2>1. Follows("check", "begin")
      BY DEF Follows
    <2> QED
      BY <1>12, <2>1, MoveLemma
         DEF CheckPartitionCrossing, Goto, Unchanged, toolVars
  <1>13. CASE Transition(s)
    BY <1>13, TransitionStep
  <1>14. CASE TransitionFails(s)
    <2>1. PICK k : k = ApplyTransition(mem[s], pc[s])
      OBVIOUS
    <2>2. /\ pc[s] \in DOMAIN Transitions /\ pc'[s] = "closing"
          /\ \A x \in Sessions \ {s} : SameSession(x)
          /\ UNCHANGED <<tools, started>>
          /\ ReplaceFails(pin[s], k)
      BY <1>14, <2>1
         DEF TransitionFails, toolVars, SameSession, RuntimeInv, TypeOK
    <2>3. /\ pc[s] \in Held /\ pin[s] \in Ids /\ k \in Journals
          /\ Covers(k, started[pin[s]])
      BY <2>1, <2>2, AtTransition
    <2>4. ASSUME NEW id \in Ids
          PROVE  \/ Untouched(id)
                 \/ /\ id = pin[s]
                    /\ Outcomes(id)' \subseteq Outcomes(id) \cup {Once(k)}
      BY <2>2, <2>3, ReplaceFailsLemma DEF RuntimeInv, TypeOK
    <2> QED
      BY <2>2, <2>3, <2>4, ParkLemma
  <1>15. CASE Spawn(s)
    BY <1>15, SpawnStep
  <1>16. CASE Await(s)
    BY <1>16, AwaitStep
  <1>17. CASE Partx(s)
    <2>1. Follows("partx", "written")
      BY DEF Follows
    <2> QED
      BY <1>17, <2>1, MoveLemma DEF Partx, Goto, Unchanged, toolVars
  <1>18. CASE Rediscover(s)
    <2>1. Follows("rediscover", "exact")
      BY DEF Follows
    <2> QED
      BY <1>18, <2>1, MoveLemma DEF Rediscover, Goto, Unchanged, toolVars
  <1>19. CASE CheckFilesystemCrossing(s)
    <2>1. Follows("mapped", "preformat")
      BY DEF Follows
    <2> QED
      BY <1>19, <2>1, MoveLemma
         DEF CheckFilesystemCrossing, Goto, Unchanged, toolVars
  <1>20. CASE RediscoverBeforeFormat(s)
    <2>1. Follows("preformat", "recheck")
      BY DEF Follows
    <2> QED
      BY <1>20, <2>1, MoveLemma
         DEF RediscoverBeforeFormat, Goto, Unchanged, toolVars
  <1>21. CASE RecheckConsent(s)
    <2>1. Follows("recheck", "begin_format")
      BY DEF Follows
    <2> QED
      BY <1>21, <2>1, MoveLemma DEF RecheckConsent, Goto, Unchanged, toolVars
  <1>22. CASE VerifyFilesystem(s)
    <2>1. Follows("verify", "complete")
      BY DEF Follows
    <2> QED
      BY <1>22, <2>1, MoveLemma DEF VerifyFilesystem, Goto, Unchanged, toolVars
  <1>23. CASE Fails(s)
    <2>1. PICK to \in {"closing", "recover"} :
            pc' = [pc EXCEPT ![s] = to] /\ Follows(pc[s], to)
      <3>1. \A from : Follows(from, "closing")
        BY DEF Follows
      <3>2. \A from \in {"sfdisk", "partx", "rediscover", "preformat",
                         "recheck", "mkfs", "verify"} :
              Follows(from, "recover")
        BY DEF Follows
      <3> QED
        BY <1>23, <3>1, <3>2 DEF Fails
    <2> QED
      BY <1>23, <2>1, MoveLemma DEF Fails, Unchanged, toolVars
  <1>24. CASE DropLock(s)
    <2>1. /\ pc'[s] = "guard"
          /\ \A x \in Sessions \ {s} : SameSession(x)
          /\ UNCHANGED <<storeVars, tools, started>>
      BY <1>24 DEF DropLock, Goto, toolVars, SameSession, RuntimeInv, TypeOK
    <2> QED
      BY <1>1, <2>1, ParkLemma
  <1>25. CASE DropGuard(s)
    <2>1. Follows("guard", "start")
      BY DEF Follows
    <2> QED
      BY <1>25, <2>1, MoveLemma DEF DropGuard, Goto, toolVars
  <1>26. CASE Kill(s)
    <2>1. /\ pc'[s] = "start"
          /\ \A x \in Sessions \ {s} : SameSession(x)
          /\ tools' \subseteq tools /\ started' = started
          /\ InFlight(s)
      BY <1>26 DEF Kill, SameSession, RuntimeInv, TypeOK
    <2> QED
      BY <2>1, InFlightLemma, ParkLemma
  <1> QED
    BY <1>2, <1>3, <1>4, <1>5, <1>6, <1>7, <1>8, <1>9, <1>10, <1>11, <1>12,
       <1>13, <1>14, <1>15, <1>16, <1>17, <1>18, <1>19, <1>20, <1>21, <1>22,
       <1>23, <1>24, <1>25, <1>26 DEF Session

(* A crash of the host ends every session and every tool.                  *)
LEMMA HostCrashStep ==
  ASSUME RuntimeInv, TypeOK', HostCrash
  PROVE  RuntimeInv'
  <1>1. \A id \in Ids : Outcomes(id)' \subseteq Outcomes(id)
    BY StoreCrashLemma DEF HostCrash, RuntimeInv, TypeOK
  <1>2. WriteAhead'
    BY <1>1, WriteAheadFrame DEF RuntimeInv, HostCrash
  <1>3. \A s \in Sessions : pc'[s] = "start"
    BY DEF HostCrash
  <1> QED
    BY <1>2, <1>3
       DEF HostCrash, RuntimeInv, SessionInv, Exclusive, ToolInv, Pinned, Held

(* What Ended leaves of a tool.                                            *)
LEMMA EndedLemma ==
  ASSUME NEW t, NEW status
  PROVE  Ended(t, status) \subseteq (tools \ {t}) \cup {[t EXCEPT !.at = status]}
  BY DEF Ended

(* RuntimeInv holds at the start and every step of the runtime keeps it.   *)
LEMMA RuntimeInit ==
  ASSUME Init
  PROVE  RuntimeInv
  <1>1. StoreTyped(Journals)
    BY StoreInitLemma DEF Init
  <1>2. TypeOK
    BY <1>1 DEF Init, TypeOK, ControlStates, Unpinned
  <1> QED
    BY <1>2
       DEF Init, RuntimeInv, SessionInv, Exclusive, ToolInv, WriteAhead,
           Pinned, Held

(* Every action of the invocation, the tool, the host and the operator     *)
(* keeps RuntimeInv (Next).                                                *)
LEMMA RuntimeStep ==
  ASSUME RuntimeInv, [Next]_vars
  PROVE  RuntimeInv'
  <1>1. CASE UNCHANGED vars
    <2>1. StoreTyped(Journals)'
      BY <1>1, StoreUnchangedLemma DEF vars, RuntimeInv, TypeOK
    <2>2. TypeOK'
      BY <1>1, <2>1
         DEF vars, procVars, mediumVars, toolVars, RuntimeInv, TypeOK
    <2> QED
      BY <1>1, <2>2, StillLemma DEF vars, procVars, toolVars
  <1>2. ASSUME NEW s \in Sessions, Session(s), hasty' = hasty
        PROVE  RuntimeInv'
    BY <1>2, SessionTypes, SessionStep
  <1>3. ASSUME NEW t \in tools, ToolWrites(t) \/ ToolSucceeds(t) \/ ToolFails(t),
               hasty' = hasty
        PROVE  RuntimeInv'
    <2>1. TypeOK'
      BY <1>3, WorldTypes DEF RuntimeInv, TypeOK
    <2>2. /\ UNCHANGED <<storeVars, pc, pin, mem, started>>
          /\ \E status \in ToolStates :
               tools' \subseteq (tools \ {t}) \cup {[t EXCEPT !.at = status]}
      <3>1. CASE ToolWrites(t)
        BY <3>1 DEF ToolWrites, procVars, ToolStates
      <3>2. CASE ToolSucceeds(t)
        BY <3>2, EndedLemma DEF ToolSucceeds, procVars, ToolStates
      <3>3. CASE ToolFails(t)
        BY <3>3, EndedLemma DEF ToolFails, procVars, ToolStates
      <3> QED
        BY <1>3, <3>1, <3>2, <3>3
    <2> QED
      BY <2>1, <2>2, ToolLemma
  <1>4. CASE KernelMaps /\ hasty' = hasty
    <2>1. TypeOK'
      BY <1>4, WorldTypes DEF RuntimeInv, TypeOK
    <2> QED
      BY <1>4, <2>1, StillLemma DEF KernelMaps, procVars, toolVars
  <1>5. CASE HostCrash /\ hasty' = hasty
    <2>1. TypeOK'
      BY <1>5, WorldTypes DEF RuntimeInv, TypeOK
    <2> QED
      BY <1>5, <2>1, HostCrashStep
  <1>6. CASE OperatorRemovesConsent
    <2>1. hasty' \in BOOLEAN
      BY <1>6 DEF OperatorRemovesConsent, RuntimeInv, TypeOK
    <2>2. TypeOK'
      BY <1>6, <2>1, WorldTypes
    <2> QED
      BY <1>6, <2>2, StillLemma DEF OperatorRemovesConsent, toolVars
  <1> QED
    BY <1>1, <1>2, <1>3, <1>4, <1>5, <1>6 DEF Next

-----------------------------------------------------------------------------
(* The session that holds a journal and its control state, the store and   *)
(* the tools agree at every moment of every behaviour.                     *)
THEOREM RuntimeInductive == Spec => []RuntimeInv
  BY RuntimeInit, RuntimeStep, PTL DEF Spec

(* "Crashes after the first mutation boundary therefore leave a durable    *)
(* phase" (production_create_journal.rs): for any number of sessions.      *)
THEOREM WriteAheadHolds == Spec => []WriteAhead
  <1>1. RuntimeInv => WriteAhead
    BY DEF RuntimeInv
  <1> QED
    BY <1>1, RuntimeInductive, PTL

(* "instead of blind replay": Spawn is not reached again under a journal   *)
(* whose tool was started, by the same session or by a later one.          *)
THEOREM NoBlindReplayHolds == Spec => NoBlindReplay
  <1>1. ASSUME RuntimeInv, [Next]_vars
        PROVE  [\A s \in Sessions, id \in Ids, name \in DOMAIN Stages :
                  (Spawn(s) /\ pin[s] = id /\ pc[s] = name)
                    => name \notin started[id]]_vars
    <2>1. ASSUME NEW s \in Sessions, Spawn(s)
          PROVE  pc[s] \notin started[pin[s]]
      <3>1. /\ pc[s] \in DOMAIN Stages
            /\ pc[s] \in {"sfdisk", "mkfs"} /\ pc[s] \in Held
        BY <2>1 DEF Spawn, Stages, Held
      <3>2. HeldInv(s)
        BY <1>1, <3>1 DEF RuntimeInv, SessionInv
      <3> QED
        BY <3>1, <3>2 DEF HeldInv, StartedAt
    <2> QED
      BY <2>1
  <1> QED
    BY <1>1, RuntimeInductive, PTL DEF Spec, NoBlindReplay

-----------------------------------------------------------------------------
(* RevokedInv is kept: a removal of the consent is noted for everybody who *)
(* pinned it (NoteRemoval), and a new consent gets an inode that nobody    *)
(* has open (FreeInodes).                                                  *)
LEMMA RevokedStep ==
  ASSUME RuntimeInv, RuntimeInv', RevokedInv, [Next]_vars
  PROVE  RevokedInv'
  <1> USE DEF RevokedInv
  <1>0. /\ pin \in [Sessions -> Ids \cup {None}]
        /\ revoked \in [Sessions -> BOOLEAN]
        /\ pin' \in [Sessions -> Ids \cup {None}]
        /\ None \notin Ids
    BY CreateAssumption DEF RuntimeInv, TypeOK
  <1>1. ASSUME UNCHANGED <<consent, pin, revoked>> PROVE RevokedInv'
    BY <1>1
  <1>2. ASSUME NoteRemoval, consent' = None, pin' = pin PROVE RevokedInv'
    BY <1>0, <1>2
  <1>3. ASSUME NEW s \in Sessions, pin' = [pin EXCEPT ![s] = None],
               UNCHANGED <<consent, revoked>>
        PROVE  RevokedInv'
    BY <1>0, <1>3
  <1>4. ASSUME NEW s \in Sessions, Session(s)
        PROVE  RevokedInv'
    <2>1. CASE WriteConsent(s)
      BY <1>0, <2>1, FreeInodesLemma DEF WriteConsent
    <2>2. CASE WriteConsentFails(s)
      BY <1>0, <2>2, FreeInodesLemma, CreateAssumption DEF WriteConsentFails
    <2>3. CASE Pin(s)
      BY <1>0, <2>3 DEF Pin
    <2>4. CASE DropLock(s)
      BY <1>3, <2>4 DEF DropLock
    <2>5. CASE DropGuard(s)
      BY <1>1, <1>2, <2>5 DEF DropGuard
    <2>6. CASE Kill(s)
      BY <1>3, <2>6 DEF Kill
    <2>7. CASE \/ Activate(s) \/ Permit(s) \/ PreflightSnapshot(s)
               \/ PreflightConsent(s) \/ PersistNew(s) \/ PersistNewFails(s)
               \/ TakeLock(s) \/ Transition(s) \/ TransitionFails(s)
      BY <1>1, <2>7
         DEF Activate, Permit, PreflightSnapshot, PreflightConsent,
             PersistNew, PersistNewFails, TakeLock, Transition,
             TransitionFails
    <2>8. CASE \/ CheckPartitionCrossing(s) \/ Spawn(s) \/ Await(s)
               \/ Partx(s) \/ Rediscover(s) \/ CheckFilesystemCrossing(s)
               \/ RediscoverBeforeFormat(s) \/ RecheckConsent(s)
               \/ VerifyFilesystem(s) \/ Fails(s)
      BY <1>1, <2>8
         DEF CheckPartitionCrossing, Spawn, Await, Partx, Rediscover,
             CheckFilesystemCrossing, RediscoverBeforeFormat, RecheckConsent,
             VerifyFilesystem, Fails, Unchanged
    <2> QED
      BY <1>4, <2>1, <2>2, <2>3, <2>4, <2>5, <2>6, <2>7, <2>8 DEF Session
  <1>5. ASSUME NEW t \in tools, ToolWrites(t) \/ ToolSucceeds(t) \/ ToolFails(t)
        PROVE  RevokedInv'
    BY <1>1, <1>5 DEF ToolWrites, ToolSucceeds, ToolFails, procVars
  <1>6. CASE KernelMaps
    BY <1>1, <1>6 DEF KernelMaps, procVars
  <1>7. CASE HostCrash
    BY <1>0, <1>7 DEF HostCrash
  <1>8. CASE OperatorRemovesConsent
    BY <1>2, <1>8 DEF OperatorRemovesConsent
  <1>9. CASE UNCHANGED vars
    BY <1>1, <1>9 DEF vars, procVars
  <1> QED
    BY <1>4, <1>5, <1>6, <1>7, <1>8, <1>9 DEF Next

(* The checks before the two crossings (CheckPartitionCrossing and         *)
(* RecheckConsent) pass under no consent that was withdrawn meanwhile,     *)
(* whatever file is at its path now.                                       *)
THEOREM ConsentInForceHolds == Spec => ConsentInForce
  <1>1. Init => RevokedInv
    BY CreateAssumption DEF Init, RevokedInv
  <1>2. ASSUME RuntimeInv, RevokedInv, [Next]_vars
        PROVE  [\A s \in Sessions :
                  (CheckPartitionCrossing(s) \/ RecheckConsent(s))
                    => ~revoked[s]]_vars
    <2>1. ASSUME NEW s \in Sessions,
                 CheckPartitionCrossing(s) \/ RecheckConsent(s)
          PROVE  ~revoked[s]
      <3>1. pc[s] \in Held /\ consent = pin[s]
        BY <2>1
           DEF CheckPartitionCrossing, RecheckConsent, ConsentHolds, Goto,
               Held
      <3>2. pin[s] \in Ids
        BY <1>2, <3>1 DEF RuntimeInv, SessionInv
      <3> QED
        BY <1>2, <3>1, <3>2 DEF RevokedInv
    <2> QED
      BY <2>1
  <1> QED
    BY <1>1, <1>2, RuntimeInductive, RevokedStep, PTL
       DEF Spec, ConsentInForce

-----------------------------------------------------------------------------
(* The calls to the store that a session makes, at the states it makes     *)
(* them in.                                                                *)
StoreCall(s) ==
  \/ UNCHANGED storeVars
  \/ /\ pc[s] = "journal"
     /\ Created(pin[s], NewJournal) \/ CreateFails(pin[s], NewJournal)
  \/ /\ pc[s] \in DOMAIN Transitions
     /\ \/ Replaced(pin[s], ApplyTransition(mem[s], pc[s]))
        \/ ReplaceFails(pin[s], ApplyTransition(mem[s], pc[s]))

(* Completed gets into the store by the transition to it, and by no other  *)
(* way (ApplyTransition).                                                  *)
LEMMA CompletedBy ==
  ASSUME RuntimeInv, NEW s \in Sessions, StoreCall(s),
         NEW id \in Ids, NEW o, o \in Outcomes(id)',
         o # None, o.record.phase = "Completed"
  PROVE  o \in Outcomes(id) \/ (pc[s] = "complete" /\ id = pin[s])
  <1>0. StoreTyped(Journals)
    BY DEF RuntimeInv, TypeOK
  <1>1. CASE UNCHANGED storeVars
    BY <1>1, <1>0, StoreUnchangedLemma, UntouchedOutcomes
  <1>2. CASE /\ pc[s] = "journal"
             /\ Created(pin[s], NewJournal) \/ CreateFails(pin[s], NewJournal)
    <2>1. pin[s] \in Ids
      BY <1>2 DEF RuntimeInv, SessionInv, Pinned
    <2>2. CASE id # pin[s]
      BY <1>0, <1>2, <2>1, <2>2, CreatedLemma, CreateFailsLemma,
         NewJournalType, UntouchedOutcomes
    <2>3. CASE id = pin[s]
      <3>1. Outcomes(id)' \subseteq
              Outcomes(id) \cup {None, Once(NewJournal), Twice(NewJournal)}
        <4>1. CASE Created(pin[s], NewJournal)
          BY <1>0, <2>3, <4>1, CreatedLemma, NewJournalType
             DEF Settled, Outcomes
        <4>2. CASE CreateFails(pin[s], NewJournal)
          BY <1>0, <2>3, <4>2, CreateFailsLemma, NewJournalType
        <4> QED
          BY <1>2, <4>1, <4>2
      <3>2. /\ Once(NewJournal).record = NewJournal
            /\ Twice(NewJournal).record = NewJournal
        BY NewJournalType, OnceIsFile
      <3>3. NewJournal.phase # "Completed"
        BY DEF NewJournal
      <3> QED
        BY <3>1, <3>2, <3>3
    <2> QED
      BY <2>2, <2>3
  <1>3. CASE /\ pc[s] \in DOMAIN Transitions
             /\ \/ Replaced(pin[s], ApplyTransition(mem[s], pc[s]))
                \/ ReplaceFails(pin[s], ApplyTransition(mem[s], pc[s]))
    <2>1. PICK k : k = ApplyTransition(mem[s], pc[s])
      OBVIOUS
    <2>2. k \in Journals /\ pin[s] \in Ids
      BY <1>3, <2>1, AtTransition
    <2>3. CASE id # pin[s]
      BY <1>0, <1>3, <2>1, <2>2, <2>3, ReplacedLemma, ReplaceFailsLemma,
         UntouchedOutcomes
    <2>4. CASE id = pin[s]
      <3>1. Outcomes(id)' \subseteq Outcomes(id) \cup {Once(k)}
        <4>1. CASE Replaced(id, k)
          BY <1>0, <2>2, <2>4, <4>1, ReplacedLemma DEF Settled, Outcomes
        <4>2. CASE ReplaceFails(id, k)
          BY <1>0, <2>2, <2>4, <4>2, ReplaceFailsLemma
        <4> QED
          BY <1>3, <2>1, <2>4, <4>1, <4>2
      <3>2. Once(k).record = k
        BY <2>2, OnceIsFile
      <3>3. k.phase = "Completed" => pc[s] = "complete"
        BY <1>3, <2>1 DEF ApplyTransition, Transitions
      <3> QED
        BY <2>4, <3>1, <3>2, <3>3
    <2> QED
      BY <2>3, <2>4
  <1> QED
    BY <1>1, <1>2, <1>3 DEF StoreCall

(* A step of a session that leaves the disk and the consent as they are    *)
(* and starts no tool.                                                     *)
LEMMA QuietFrame ==
  ASSUME RuntimeInv, QuietInv, NEW s \in Sessions, StoreCall(s),
         pc[s] = "await" => UNCHANGED storeVars,
         UNCHANGED <<consent, table, fs>>,
         \A x \in Sessions \ {s} :
           pc'[x] = pc[x] /\ pin'[x] = pin[x] /\ wrote'[x] = wrote[x],
         wrote'[s] \in {wrote[s], None},
         ActiveAt(pc'[s], wrote'[s]), pc'[s] # "await",
         tools' \subseteq tools, wrote'[s] # None => tools' = {},
         SessionMedium(s)'
  PROVE  QuietInv'
  <1> USE DEF Active
  <1>1. \A x \in Sessions : Active(x)' => Active(x)
    OBVIOUS
  <1>2. /\ \A x \in Sessions : ActiveAt(pc[x], wrote[x])'
        /\ \A x, y \in Sessions : Active(x)' /\ Active(y)' => x = y
        /\ (tools' # {} \/ \E x \in Sessions : Active(x)') => consent' # None
    BY <1>1 DEF QuietInv
  <1>3. \A x \in Sessions : Active(x)' =>
          IF pc'[x] = "await" THEN \A t \in tools' : t.id = pin'[x]
                              ELSE tools' = {}
    BY <1>1 DEF QuietInv
  <1>4. /\ \A t, u \in tools' : t = u
        /\ \A t \in tools' : ToolMedium(t)'
    BY DEF QuietInv, ToolMedium
  <1>5. \A x \in Sessions : SessionMedium(x)'
    BY DEF QuietInv, SessionMedium
  <1>6. CompletedIntact'
    <2> SUFFICES ASSUME NEW id \in Ids, NEW o, o \in Outcomes(id)',
                        o # None, o.record.phase = "Completed"
                 PROVE  /\ table' = "exact" /\ fs' = id
                        /\ \A t \in tools' : t.at \in {"ok", "failed"}
      BY DEF CompletedIntact
    <2>1. CASE o \in Outcomes(id)
      BY <2>1 DEF QuietInv, CompletedIntact
    <2>2. CASE pc[s] = "complete" /\ id = pin[s]
      <3>1. table = "exact" /\ fs = id
        BY <2>2 DEF QuietInv, SessionMedium
      <3>2. Active(s)
        BY <2>2 DEF QuietInv, ActiveAt, ControlStates, Held
      <3>3. tools = {}
        BY <2>2, <3>2 DEF QuietInv
      <3> QED
        BY <3>1, <3>3
    <2> QED
      BY <2>1, <2>2, CompletedBy
  <1> QED
    BY <1>2, <1>3, <1>4, <1>5, <1>6 DEF QuietInv

(* The simple steps among those: one control state to another.             *)
LEMMA QuietMove ==
  ASSUME RuntimeInv, QuietInv, NEW s \in Sessions, StoreCall(s), NEW to,
         UNCHANGED <<consent, wrote, pin, tools, table, fs>>,
         pc' = [pc EXCEPT ![s] = to], pc[s] # "await", to # "await",
         ActiveAt(to, wrote[s]), SessionMedium(s)'
  PROVE  QuietInv'
  <1>1. /\ pc'[s] = to
        /\ \A x \in Sessions \ {s} :
             pc'[x] = pc[x] /\ pin'[x] = pin[x] /\ wrote'[x] = wrote[x]
    BY DEF RuntimeInv, TypeOK
  <1>2. wrote'[s] # None => tools' = {}
    BY DEF QuietInv, Active
  <1> QED
    BY <1>1, <1>2, QuietFrame

(* Every operation of a session keeps QuietInv: what it relies on was seen *)
(* with its consent in place, and nobody else may touch the disk then.     *)
LEMMA QuietSession ==
  ASSUME RuntimeInv, RuntimeInv', QuietInv, NEW s \in Sessions, Session(s)
  PROVE  QuietInv'
  <1> USE DEF ActiveAt
  <1>0. /\ pc \in [Sessions -> ControlStates]
        /\ wrote \in [Sessions -> Ids \cup {None}]
        /\ pin \in [Sessions -> Ids \cup {None}]
        /\ ActiveAt(pc[s], wrote[s]) /\ SessionMedium(s)
        /\ None \notin Ids
    BY CreateAssumption DEF RuntimeInv, TypeOK, QuietInv
  <1>a. \A at \in Pinned \cup Held \cup {"pin"} :
          at \in ControlStates \ {"start", "consent", "closing", "guard"}
    BY DEF ControlStates, Unpinned, Pinned, Held
  <1>b. "closing" \in ControlStates /\ "guard" \in ControlStates
    BY DEF ControlStates, Unpinned
  <1>c. StoreCall(s) \/ ~UNCHANGED storeVars
    BY DEF StoreCall
  <1>2. CASE Activate(s)
    BY <1>0, <1>2, <1>c, QuietMove
       DEF Activate, Goto, toolVars, mediumVars, SessionMedium
  <1>3. CASE WriteConsent(s)
    <2>1. /\ consent = None /\ consent' \in Ids /\ consent' # None
          /\ pc[s] = "consent" /\ pc'[s] = "pin" /\ wrote'[s] # None
          /\ \A x \in Sessions \ {s} : pc'[x] = pc[x] /\ wrote'[x] = wrote[x]
          /\ pin' = pin
          /\ UNCHANGED <<storeVars, tools, table, fs>>
      BY <1>0, <1>3, FreeInodesLemma
         DEF WriteConsent, Goto, toolVars, mediumVars
    <2>2. tools = {} /\ \A x \in Sessions : wrote[x] = None
      BY <2>1 DEF QuietInv, Active
    <2>3. /\ \A x \in Sessions : ActiveAt(pc[x], wrote[x])'
          /\ \A x, y \in Sessions : Active(x)' /\ Active(y)' => x = y
      BY <1>a, <2>1, <2>2 DEF QuietInv, Active
    <2>4. \A x \in Sessions : SessionMedium(x)'
      BY <2>1 DEF QuietInv, SessionMedium
    <2>5. CompletedIntact'
      BY <2>1 DEF QuietInv, CompletedIntact, Outcomes, storeVars
    <2> QED
      BY <2>1, <2>2, <2>3, <2>4, <2>5 DEF QuietInv, Active
  <1>4. CASE WriteConsentFails(s)
    <2>1. /\ consent = None /\ consent' # None
          /\ pc[s] = "consent" /\ pc'[s] = "closing" /\ wrote[s] = None
          /\ \A x \in Sessions \ {s} : pc'[x] = pc[x]
          /\ UNCHANGED <<storeVars, wrote, pin, tools, table, fs>>
      BY <1>0, <1>4, FreeInodesLemma, CreateAssumption
         DEF WriteConsentFails, Goto, toolVars, mediumVars
    <2>2. tools = {} /\ \A x \in Sessions : wrote[x] = None
      BY <2>1 DEF QuietInv, Active
    <2>3. /\ \A x \in Sessions : ActiveAt(pc[x], wrote[x])'
          /\ \A x, y \in Sessions : Active(x)' /\ Active(y)' => x = y
      BY <1>a, <2>1, <2>2 DEF QuietInv, Active
    <2>4. \A x \in Sessions : SessionMedium(x)'
      BY <2>1 DEF QuietInv, SessionMedium
    <2>5. CompletedIntact'
      BY <2>1 DEF QuietInv, CompletedIntact, Outcomes, storeVars
    <2> QED
      BY <2>1, <2>2, <2>3, <2>4, <2>5 DEF QuietInv, Active
  <1>5. CASE Pin(s)
    <2>1. /\ pc[s] = "pin" /\ pc'[s] = "permit"
          /\ \A x \in Sessions \ {s} : pc'[x] = pc[x] /\ pin'[x] = pin[x]
          /\ UNCHANGED <<storeVars, consent, wrote, tools, table, fs>>
      BY <1>0, <1>5 DEF Pin, Goto, toolVars, mediumVars
    <2>2. wrote[s] # None
      BY <1>0, <1>a, <2>1
    <2>3. tools = {}
      BY <2>1, <2>2 DEF QuietInv, Active
    <2>4. SessionMedium(s)'
      BY <2>1 DEF SessionMedium
    <2> QED
      BY <1>c, <2>1, <2>2, <2>3, <2>4, QuietFrame
  <1>6. CASE Permit(s)
    BY <1>0, <1>6, <1>a, <1>c, QuietMove
       DEF Permit, Goto, toolVars, mediumVars, SessionMedium, Pinned
  <1>7. CASE PreflightSnapshot(s)
    BY <1>0, <1>7, <1>a, <1>c, QuietMove
       DEF PreflightSnapshot, BlankDisk, Goto, toolVars, mediumVars,
           SessionMedium, Pinned
  <1>8. CASE PreflightConsent(s)
    BY <1>0, <1>8, <1>a, <1>c, QuietMove
       DEF PreflightConsent, Goto, toolVars, mediumVars, SessionMedium, Pinned
  <1>9. CASE PersistNew(s)
    BY <1>0, <1>9, <1>a, QuietMove
       DEF PersistNew, StoreCall, Goto, toolVars, mediumVars, SessionMedium,
           Pinned
  <1>10. CASE PersistNewFails(s)
    BY <1>0, <1>10, <1>b, QuietMove
       DEF PersistNewFails, StoreCall, Goto, toolVars, mediumVars,
           SessionMedium
  <1>11. CASE TakeLock(s)
    BY <1>0, <1>11, <1>a, <1>c, QuietMove
       DEF TakeLock, Goto, toolVars, mediumVars, SessionMedium, Held
  <1>12. CASE CheckPartitionCrossing(s)
    BY <1>0, <1>12, <1>a, <1>c, QuietMove
       DEF CheckPartitionCrossing, Unchanged, Goto, toolVars, mediumVars,
           SessionMedium, Held
  <1>13. CASE Transition(s)
    <2>1. PICK to : to = Transitions[pc[s]].next
      OBVIOUS
    <2>2. /\ pc[s] \in DOMAIN Transitions
          /\ Replaced(pin[s], ApplyTransition(mem[s], pc[s]))
          /\ pc' = [pc EXCEPT ![s] = to]
          /\ UNCHANGED <<consent, wrote, pin, tools, table, fs>>
      BY <1>13, <2>1 DEF Transition, toolVars, mediumVars
    <2>3. \/ pc[s] = "begin" /\ to = "sfdisk"
          \/ pc[s] = "begin_format" /\ to = "mkfs"
          \/ pc[s] = "formatted" /\ to = "verify"
          \/ /\ pc[s] \in {"written", "exact", "complete", "recover"}
             /\ to \in {"rediscover", "mapped", "closing"}
      BY <2>1, <2>2 DEF Transitions
    <2>4. pc[s] # "await" /\ to # "await" /\ pc'[s] = to
      BY <1>0, <2>2, <2>3
    <2>5. SessionMedium(s)'
      BY <1>0, <2>2, <2>3, <2>4 DEF SessionMedium
    <2>6. ActiveAt(to, wrote[s])
      BY <1>0, <1>a, <2>3 DEF Held
    <2>7. StoreCall(s)
      BY <2>2 DEF StoreCall
    <2> QED
      BY <2>2, <2>4, <2>5, <2>6, <2>7, QuietMove
  <1>14. CASE TransitionFails(s)
    <2>1. /\ pc[s] \in DOMAIN Transitions /\ pc[s] # "await"
          /\ StoreCall(s)
          /\ pc' = [pc EXCEPT ![s] = "closing"]
          /\ UNCHANGED <<consent, wrote, pin, tools, table, fs>>
      BY <1>14 DEF TransitionFails, Transitions, StoreCall, toolVars, mediumVars
    <2>2. SessionMedium(s)'
      BY <1>0, <2>1 DEF SessionMedium
    <2> QED
      BY <2>1, <2>2, QuietMove
  <1>15. CASE Spawn(s)
    <2>1. PICK new : new = Tool(pc[s], pin[s], "started")
      OBVIOUS
    <2>2. /\ pc[s] \in {"sfdisk", "mkfs"} /\ pc'[s] = "await"
          /\ tools' = tools \cup {new}
          /\ \A x \in Sessions \ {s} : pc'[x] = pc[x]
          /\ UNCHANGED <<storeVars, consent, wrote, pin, table, fs>>
      BY <1>0, <1>15, <2>1 DEF Spawn, Stages, Unchanged, mediumVars
    <2>3. new.name = pc[s] /\ new.id = pin[s] /\ new.at = "started"
      BY <2>1 DEF Tool
    <2>4. Active(s) /\ wrote[s] # None
      BY <1>0, <1>a, <2>2 DEF Active, Held
    <2>5. tools = {} /\ consent # None
      BY <2>2, <2>4 DEF QuietInv
    <2>6. /\ \A x \in Sessions : ActiveAt(pc[x], wrote[x])'
          /\ \A x, y \in Sessions : Active(x)' /\ Active(y)' => x = y
      BY <1>a, <2>2, <2>4 DEF QuietInv, Active, Held
    <2>7. \A x \in Sessions : Active(x)' =>
            IF pc'[x] = "await" THEN \A t \in tools' : t.id = pin'[x]
                                ELSE tools' = {}
      BY <2>2, <2>3, <2>4, <2>5 DEF QuietInv, Active
    <2>8. /\ \A t, u \in tools' : t = u
          /\ \A t \in tools' : ToolMedium(t)'
      <3>1. fs = "none" /\ table = (IF pc[s] = "sfdisk" THEN "none" ELSE "exact")
        BY <1>0, <2>2 DEF SessionMedium
      <3>2. fs \notin Ids
        BY <3>1, CreateAssumption
      <3>3. \A t \in tools' : t = new
        BY <2>2, <2>5
      <3> QED
        BY <2>2, <2>3, <3>1, <3>2, <3>3 DEF ToolMedium
    <2>9. \A x \in Sessions : SessionMedium(x)'
      BY <2>2 DEF QuietInv, SessionMedium
    <2>10. CompletedIntact'
      <3>1. fs = "none"
        BY <1>0, <2>2 DEF SessionMedium
      <3>2. fs \notin Ids
        BY <3>1, CreateAssumption
      <3>3. \A id \in Ids : \A o \in Outcomes(id) :
              ~(o # None /\ o.record.phase = "Completed")
        BY <3>2 DEF QuietInv, CompletedIntact
      <3> QED
        BY <2>2, <3>3 DEF CompletedIntact, Outcomes, storeVars
    <2> QED
      BY <2>2, <2>5, <2>6, <2>7, <2>8, <2>9, <2>10 DEF QuietInv
  <1>16. CASE Await(s)
    <2>1. PICK t \in tools :
            /\ t.id = pin[s]
            /\ tools' = tools \ {t}
            /\ \/ pc' = [pc EXCEPT ![s] = Stages[t.name]]
               \/ pc' = [pc EXCEPT ![s] = "recover"]
      BY <1>16 DEF Await
    <2>2. /\ pc[s] = "await"
          /\ UNCHANGED <<storeVars, consent, wrote, pin, table, fs>>
      BY <1>16 DEF Await, Unchanged, mediumVars
    <2>3. tools' = {} /\ ToolMedium(t)
      BY <2>1 DEF QuietInv
    <2>4. /\ pc'[s] \in {"partx", "formatted", "recover"}
          /\ pc'[s] = "formatted" => t.name = "mkfs"
          /\ \A x \in Sessions \ {s} : pc'[x] = pc[x]
      <3>1. t.name \in ToolNames
        BY DEF RuntimeInv, TypeOK
      <3>2. /\ Stages[t.name] \in {"partx", "formatted"}
            /\ Stages[t.name] = "formatted" => t.name = "mkfs"
        BY <3>1 DEF Stages, ToolNames
      <3> QED
        BY <1>0, <2>1, <3>2
    <2>5. SessionMedium(s)'
      BY <2>1, <2>2, <2>3, <2>4 DEF SessionMedium, ToolMedium
    <2>6. ActiveAt(pc'[s], wrote'[s])
      BY <1>0, <1>a, <2>2, <2>4 DEF Held
    <2> QED
      BY <1>c, <2>2, <2>3, <2>4, <2>5, <2>6, QuietFrame
  <1>17. CASE Partx(s)
    BY <1>0, <1>17, <1>a, <1>c, QuietMove
       DEF Partx, Unchanged, Goto, toolVars, SessionMedium, Held
  <1>18. CASE Rediscover(s)
    BY <1>0, <1>18, <1>a, <1>c, QuietMove
       DEF Rediscover, Unchanged, Goto, toolVars, mediumVars, SessionMedium,
           Held
  <1>19. CASE CheckFilesystemCrossing(s)
    BY <1>0, <1>19, <1>a, <1>c, QuietMove
       DEF CheckFilesystemCrossing, Unchanged, Goto, toolVars, mediumVars,
           SessionMedium, Held
  <1>20. CASE RediscoverBeforeFormat(s)
    BY <1>0, <1>20, <1>a, <1>c, QuietMove
       DEF RediscoverBeforeFormat, ExactPartition, Unchanged, Goto, toolVars,
           mediumVars, SessionMedium, Held
  <1>21. CASE RecheckConsent(s)
    BY <1>0, <1>21, <1>a, <1>c, QuietMove
       DEF RecheckConsent, Unchanged, Goto, toolVars, mediumVars,
           SessionMedium, Held
  <1>22. CASE VerifyFilesystem(s)
    BY <1>0, <1>22, <1>a, <1>c, QuietMove
       DEF VerifyFilesystem, ExactFilesystem, Unchanged, Goto, toolVars,
           mediumVars, SessionMedium, Held
  <1>23. CASE Fails(s)
    <2>1. /\ pc[s] # "await"
          /\ UNCHANGED <<storeVars, consent, wrote, pin, tools, table, fs>>
      BY <1>23 DEF Fails, Unchanged, toolVars, mediumVars
    <2>2. PICK to \in {"closing", "recover"} :
            /\ pc' = [pc EXCEPT ![s] = to]
            /\ to = "recover" => pc[s] \in Held
      BY <1>23 DEF Fails, Held
    <2>3. ActiveAt(to, wrote[s]) /\ to # "await"
      BY <1>0, <1>a, <2>2 DEF Held
    <2>4. SessionMedium(s)'
      BY <1>0, <2>1, <2>2 DEF SessionMedium
    <2> QED
      BY <1>c, <2>1, <2>2, <2>3, <2>4, QuietMove
  <1>24. CASE DropLock(s)
    <2>1. /\ pc[s] = "closing" /\ pc'[s] = "guard"
          /\ \A x \in Sessions \ {s} : pc'[x] = pc[x] /\ pin'[x] = pin[x]
          /\ UNCHANGED <<storeVars, consent, wrote, tools, table, fs>>
      BY <1>0, <1>24 DEF DropLock, Goto, toolVars, mediumVars
    <2>2. wrote[s] # None => tools = {}
      BY <2>1 DEF QuietInv, Active
    <2>3. SessionMedium(s)'
      BY <2>1 DEF SessionMedium
    <2> QED
      BY <1>c, <2>1, <2>2, <2>3, QuietFrame
  <1>25. CASE DropGuard(s)
    <2>1. /\ pc[s] = "guard" /\ pc'[s] = "start" /\ wrote'[s] = None
          /\ \A x \in Sessions \ {s} : pc'[x] = pc[x] /\ wrote'[x] = wrote[x]
          /\ UNCHANGED <<storeVars, pin, tools, table, fs>>
          /\ \/ UNCHANGED consent
             \/ wrote[s] # None
      BY <1>0, <1>25 DEF DropGuard, Goto, toolVars, mediumVars
    <2>2. SessionMedium(s)'
      BY <2>1 DEF SessionMedium
    <2>3. CASE UNCHANGED consent
      BY <1>c, <2>1, <2>2, <2>3, QuietFrame
    <2>4. CASE wrote[s] # None
      <3>1. tools = {} /\ \A x \in Sessions \ {s} : wrote[x] = None
        BY <2>1, <2>4 DEF QuietInv, Active
      <3>2. \A x \in Sessions : ActiveAt(pc[x], wrote[x])'
        BY <2>1 DEF QuietInv
      <3>3. \A x \in Sessions : ~Active(x)'
        BY <2>1, <3>1 DEF Active
      <3>4. \A x \in Sessions : SessionMedium(x)'
        BY <2>1 DEF QuietInv, SessionMedium
      <3>5. CompletedIntact'
        BY <2>1 DEF QuietInv, CompletedIntact, Outcomes, storeVars
      <3> QED
        BY <2>1, <3>1, <3>2, <3>3, <3>4, <3>5 DEF QuietInv
    <2> QED
      BY <2>1, <2>3, <2>4
  <1>26. CASE Kill(s)
    <2>1. /\ pc'[s] = "start" /\ wrote'[s] = None /\ tools' \subseteq tools
          /\ \A x \in Sessions \ {s} :
               pc'[x] = pc[x] /\ pin'[x] = pin[x] /\ wrote'[x] = wrote[x]
          /\ UNCHANGED <<consent, table, fs>>
      BY <1>0, <1>26 DEF Kill, mediumVars
    <2>2. StoreCall(s) /\ (pc[s] = "await" => UNCHANGED storeVars)
      <3>1. InFlight(s)
        BY <1>26 DEF Kill
      <3>2. "await" \notin DOMAIN Transitions
        BY DEF Transitions
      <3> QED
        BY <3>1, <3>2 DEF InFlight, StoreCall
    <2>3. SessionMedium(s)'
      BY <2>1 DEF SessionMedium
    <2> QED
      BY <2>1, <2>2, <2>3, QuietFrame
  <1> QED
    BY <1>2, <1>3, <1>4, <1>5, <1>6, <1>7, <1>8, <1>9, <1>10, <1>11, <1>12,
       <1>13, <1>14, <1>15, <1>16, <1>17, <1>18, <1>19, <1>20, <1>21, <1>22,
       <1>23, <1>24, <1>25, <1>26 DEF Session

(* So do the tools, the kernel and a crash, and the operator as long as he *)
(* removes a consent only when nothing runs under it.                      *)
LEMMA QuietWorld ==
  ASSUME RuntimeInv, RuntimeInv', QuietInv,
         \/ \E t \in tools : ToolWrites(t) \/ ToolSucceeds(t) \/ ToolFails(t)
         \/ KernelMaps \/ HostCrash
         \/ OperatorRemovesConsent /\ ~hasty'
         \/ UNCHANGED vars
  PROVE  QuietInv'
  <1> USE DEF Active
  <1>1. ASSUME NEW t \in tools, ToolWrites(t) \/ ToolSucceeds(t) \/ ToolFails(t)
        PROVE  QuietInv'
    <2>1. /\ UNCHANGED <<storeVars, consent, pc, wrote, pin>>
          /\ t.at \in {"started", "writing"}
      BY <1>1 DEF ToolWrites, ToolSucceeds, ToolFails, procVars
    <2>2. /\ tools = {t} /\ ToolMedium(t)
          /\ t.id \in Ids /\ t.name \in ToolNames
      BY DEF QuietInv, RuntimeInv, TypeOK
    <2>3. fs \notin Ids
      BY <2>1, <2>2, CreateAssumption DEF ToolMedium
    <2>4. PICK status \in ToolStates :
            /\ tools' \subseteq {[t EXCEPT !.at = status]}
            /\ ToolWrites(t) => status = "writing"
            /\ ~ToolWrites(t) => status \in {"ok", "failed"}
      <3>1. CASE ToolWrites(t)
        BY <2>2, <3>1 DEF ToolWrites, ToolStates
      <3>2. CASE ~ToolWrites(t) /\ ToolSucceeds(t)
        BY <2>2, <3>2, EndedLemma DEF ToolSucceeds, ToolStates
      <3>3. CASE ~ToolWrites(t) /\ ToolFails(t)
        BY <2>2, <3>3, EndedLemma DEF ToolFails, ToolStates
      <3> QED
        BY <1>1, <3>1, <3>2, <3>3
    <2>5. PICK u : u = [t EXCEPT !.at = status]
      OBVIOUS
    <2>6. u.id = t.id /\ u.name = t.name /\ u.at = status
      BY <2>5 DEF RuntimeInv, TypeOK
    <2>7. tools' \subseteq {u}
      BY <2>4, <2>5
    <2>8. ToolMedium(u)'
      <3>1. CASE ToolWrites(t)
        BY <2>2, <2>4, <2>6, <3>1, CreateAssumption
           DEF ToolWrites, ToolMedium, ToolNames
      <3>2. CASE ~ToolWrites(t) /\ ToolSucceeds(t)
        BY <2>3, <2>4, <2>6, <3>2 DEF ToolSucceeds, ToolMedium
      <3>3. CASE ~ToolWrites(t) /\ ToolFails(t)
        BY <2>3, <2>4, <2>6, <3>3 DEF ToolFails, ToolMedium, mediumVars
      <3> QED
        BY <1>1, <3>1, <3>2, <3>3
    <2>9. \A x \in Sessions : SessionMedium(x)'
      <3>1. \A x \in Sessions :
              Active(x) => pc[x] = "await"
        BY <2>2 DEF QuietInv
      <3>2. \A x \in Sessions :
              pc[x] \in {"start", "consent", "closing", "guard", "await"}
        BY <3>1 DEF QuietInv, ActiveAt, RuntimeInv, TypeOK
      <3> QED
        BY <2>1, <3>2 DEF SessionMedium
    <2>10. CompletedIntact'
      <3>1. \A id \in Ids : \A o \in Outcomes(id) :
              ~(o # None /\ o.record.phase = "Completed")
        BY <2>3 DEF QuietInv, CompletedIntact
      <3> QED
        BY <2>1, <3>1 DEF CompletedIntact, Outcomes, storeVars
    <2>11. /\ \A x \in Sessions : ActiveAt(pc[x], wrote[x])'
           /\ \A x, y \in Sessions : Active(x)' /\ Active(y)' => x = y
           /\ consent' # None
      BY <2>1, <2>2 DEF QuietInv
    <2>12. \A x \in Sessions : Active(x)' =>
             IF pc'[x] = "await" THEN \A w \in tools' : w.id = pin'[x]
                                 ELSE tools' = {}
      BY <2>1, <2>2, <2>6, <2>7 DEF QuietInv
    <2>13. /\ \A v, w \in tools' : v = w
           /\ \A w \in tools' : ToolMedium(w)'
      BY <2>7, <2>8
    <2> QED
      BY <2>9, <2>10, <2>11, <2>12, <2>13 DEF QuietInv
  <1>2. CASE KernelMaps \/ UNCHANGED vars
    <2>1. UNCHANGED <<storeVars, consent, pc, wrote, pin, tools, table, fs>>
      BY <1>2 DEF KernelMaps, vars, procVars, toolVars, mediumVars
    <2>2. CompletedIntact'
      BY <2>1 DEF QuietInv, CompletedIntact, Outcomes, storeVars
    <2>3. /\ \A t \in tools' : ToolMedium(t)'
          /\ \A x \in Sessions : SessionMedium(x)'
      BY <2>1 DEF QuietInv, ToolMedium, SessionMedium
    <2> QED
      BY <2>1, <2>2, <2>3 DEF QuietInv
  <1>3. CASE HostCrash
    <2>1. /\ \A x \in Sessions : pc'[x] = "start" /\ wrote'[x] = None
          /\ tools' = {} /\ UNCHANGED <<table, fs>>
      BY <1>3 DEF HostCrash
    <2>2. CompletedIntact'
      <3>1. \A id \in Ids : Outcomes(id)' \subseteq Outcomes(id)
        BY <1>3, StoreCrashLemma DEF HostCrash, RuntimeInv, TypeOK
      <3> QED
        BY <2>1, <3>1 DEF QuietInv, CompletedIntact
    <2> QED
      BY <2>1, <2>2 DEF QuietInv, ActiveAt, SessionMedium
  <1>4. CASE OperatorRemovesConsent /\ ~hasty'
    <2>1. /\ tools = {} /\ \A x \in Sessions : pc[x] = "start"
          /\ UNCHANGED <<storeVars, pc, wrote, pin, tools, table, fs>>
      BY <1>4 DEF OperatorRemovesConsent, toolVars, mediumVars
    <2>2. CompletedIntact'
      BY <2>1 DEF QuietInv, CompletedIntact, Outcomes, storeVars
    <2> QED
      BY <2>1, <2>2 DEF QuietInv, ActiveAt, SessionMedium
  <1> QED
    BY <1>1, <1>2, <1>3, <1>4

(* Every action keeps OverwriteInv, as long as no consent was removed      *)
(* hastily (Next).                                                         *)
LEMMA OverwriteStep ==
  ASSUME RuntimeInv, RuntimeInv', OverwriteInv, [Next]_vars
  PROVE  OverwriteInv'
  <1> SUFFICES ASSUME ~hasty' PROVE QuietInv'
    BY DEF OverwriteInv
  <1>1. ~hasty
    BY DEF Next, vars, OperatorRemovesConsent
  <1>2. QuietInv
    BY <1>1 DEF OverwriteInv
  <1>3. ASSUME NEW s \in Sessions, Session(s) PROVE QuietInv'
    BY <1>2, <1>3, QuietSession
  <1> QED
    BY <1>2, <1>3, QuietWorld DEF Next

(* A disk goes from blank to formatted once (ToolWrites, ToolSucceeds): no *)
(* tool writes over what another one has written, and what a journal that  *)
(* says Completed says stays true, whoever dies on the way.                *)
THEOREM NothingOverwrittenHolds == Spec => NothingOverwritten
  <1>1. ASSUME Init PROVE OverwriteInv
    <2>1. /\ tools = {} /\ \A s \in Sessions : pc[s] = "start" /\ wrote[s] = None
          /\ \A id \in Ids : Outcomes(id) = {None}
      BY <1>1, StoreInitLemma DEF Init, Outcomes
    <2> QED
      BY <2>1
         DEF OverwriteInv, QuietInv, Active, ActiveAt, SessionMedium,
             CompletedIntact
  <1>2. ASSUME RuntimeInv, OverwriteInv, OverwriteInv', [Next]_vars
        PROVE  [~hasty =>
                  /\ table # table' => <<table, table'>> \in
                       {<<"none", "torn">>, <<"torn", "exact">>}
                  /\ fs # fs' => /\ table = "exact" /\ fs \in {"none", "torn"}
                                 /\ fs' # "none"
                  /\ \A t, u \in tools :
                       {t.at, u.at} \subseteq {"started", "writing"} => t = u
                  /\ ~hasty' => CompletedIntact']_vars
    <2> SUFFICES ASSUME ~hasty
                 PROVE  /\ table # table' => <<table, table'>> \in
                             {<<"none", "torn">>, <<"torn", "exact">>}
                        /\ fs # fs' =>
                             /\ table = "exact" /\ fs \in {"none", "torn"}
                             /\ fs' # "none"
                        /\ \A t, u \in tools : t = u
                        /\ ~hasty' => CompletedIntact'
      OBVIOUS
    <2>1. QuietInv /\ (~hasty' => CompletedIntact')
      BY <1>2 DEF OverwriteInv, QuietInv
    <2>2. \A t, u \in tools : t = u
      BY <2>1 DEF QuietInv
    <2>3. ASSUME NEW t \in tools, ToolWrites(t) \/ ToolSucceeds(t)
          PROVE  /\ table # table' => <<table, table'>> \in
                      {<<"none", "torn">>, <<"torn", "exact">>}
                 /\ fs # fs' => /\ table = "exact" /\ fs \in {"none", "torn"}
                                /\ fs' # "none"
      <3>1. ToolMedium(t) /\ t.id \in Ids /\ t.name \in ToolNames
        BY <1>2, <2>1 DEF QuietInv, RuntimeInv, TypeOK
      <3>2. CASE ToolWrites(t)
        BY <3>1, <3>2 DEF ToolWrites, ToolMedium, ToolNames
      <3>3. CASE ToolSucceeds(t)
        BY <3>1, <3>3, CreateAssumption DEF ToolSucceeds, ToolMedium
      <3> QED
        BY <2>3, <3>2, <3>3
    <2>4. CASE ~\E t \in tools : ToolWrites(t) \/ ToolSucceeds(t)
      <3>1. ASSUME NEW s \in Sessions, Session(s)
            PROVE  UNCHANGED <<table, fs>>
        BY <3>1
           DEF Session, Activate, WriteConsent, WriteConsentFails, Pin, Permit,
               PreflightSnapshot, PreflightConsent, PersistNew,
               PersistNewFails, TakeLock, CheckPartitionCrossing, Transition,
               TransitionFails, Spawn, Await, Partx, Rediscover,
               CheckFilesystemCrossing, RediscoverBeforeFormat,
               RecheckConsent, VerifyFilesystem, Fails, DropLock, DropGuard,
               Kill, mediumVars
      <3>2. ASSUME NEW t \in tools, ToolFails(t) PROVE UNCHANGED <<table, fs>>
        BY <3>2 DEF ToolFails, mediumVars
      <3>3. ASSUME \/ KernelMaps \/ HostCrash \/ OperatorRemovesConsent
                   \/ UNCHANGED vars
            PROVE  UNCHANGED <<table, fs>>
        BY <3>3
           DEF KernelMaps, HostCrash, OperatorRemovesConsent, vars, mediumVars
      <3> QED
        BY <1>2, <2>1, <2>2, <2>4, <3>1, <3>2, <3>3 DEF Next
    <2> QED
      BY <2>1, <2>2, <2>3, <2>4
  <1> QED
    BY <1>1, <1>2, RuntimeInductive, OverwriteStep, PTL
       DEF Spec, NothingOverwritten
=============================================================================
