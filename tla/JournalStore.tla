---------------------------- MODULE JournalStore ----------------------------
(***************************************************************************)
(* DurableJournalStore (journal_store.rs) on its directory: persist_new    *)
(* and persist_if_matches as the sequence of creations, renames and fsyncs *)
(* they are, each of which may fail or be the last one before the process  *)
(* or the host goes down, and all() as the sequence of readings it is,     *)
(* beside them.                                                            *)
(*                                                                         *)
(* A journal is known by its ID and its number of events: the store        *)
(* compares journals and asks that one extends the other, nothing else.    *)
(* Callers write one at a time (the host storage lock) and only after an   *)
(* all() without staging files (begin_with_lock,                           *)
(* require_current_durable_journal, reconcile_prewrite_at).                *)
(***************************************************************************)
EXTENDS Option, Naturals, Sequences, FiniteSets

CONSTANTS
  Ids,        \* journal IDs
  MaxEvents   \* bound on the number of events of a journal

ASSUME StoreAssumption == MaxEvents \in Nat \ {0}

VARIABLES
  log,     \* directory states since the last fsync, the current one last
  call,    \* the persist call in progress, or None
  reader,  \* an all() in progress, or its result
  acked,   \* ID -> last state a persist call returned Ok for (history)
  prev     \* ID -> the state the last exchange displaced (history)

vars == <<log, call, reader, acked, prev>>

Journals == [id : Ids, events : 1..MaxEvents]

(* What is known of each ID at the granularity of calls, and a call.       *)
Registers == UNION {[S -> Journals] : S \in SUBSET Ids}

Views == [record : Registers, previous : Registers, staged : SUBSET Ids,
          displaced : SUBSET Ids, created : SUBSET Ids,
          unsynced : SUBSET Ids]

Calls == [new : Journals, expected : Journals \cup {None}, base : Views,
          step : {"create", "write", "staged", "publish", "exchange",
                  "sync_exchange", "archive", "sync_last"}]

ASSUME NoneAssumption == None \notin Journals \cup Calls

(* <id>.json, .<id>.tmp-<pid>-<sequence>, .<id>.history-<events>-<digest>  *)
Final(id)         == [kind |-> "final", id |-> id, events |-> 0]
Temp(id)          == [kind |-> "temp", id |-> id, events |-> 0]
HistoryName(j)    == [kind |-> "history", id |-> j.id, events |-> j.events]

(* The contents of a directory: name -> journal, None while it is written. *)
dir == log[Len(log)]

With(d, name, content) ==
  [x \in DOMAIN d \cup {name} |-> IF x = name THEN content ELSE d[x]]

(* renameat2 with RENAME_NOREPLACE, and with RENAME_EXCHANGE.              *)
Renamed(d, from, to) ==
  [x \in (DOMAIN d \ {from}) \cup {to} |-> IF x = to THEN d[from] ELSE d[x]]

Exchanged(d, a, b) == [d EXCEPT ![a] = d[b], ![b] = d[a]]

Recorded(d)  == {id \in Ids : Final(id) \in DOMAIN d}
HasTemp(d)   == {id \in Ids : Temp(id) \in DOMAIN d}
Records(d)   == [id \in Recorded(d) |-> d[Final(id)]]
Readable     == HasTemp(dir) = {}

-----------------------------------------------------------------------------
(* The abstract state, DurableStore: during a call, the one it began in.   *)

HoldsDisplaced(d, id) ==
  /\ id \in HasTemp(d) \cap Recorded(d)
  /\ d[Temp(id)] # None
  /\ d[Temp(id)].events < d[Final(id)].events

TempIsDurable(id) == \A i \in DOMAIN log : id \in HasTemp(log[i])

Named(d, id) == {<<n, d[n]>> : n \in {m \in DOMAIN d : m.id = id
                                                       /\ m.kind # "temp"}}

View ==
  LET displaced == {id \in Ids : HoldsDisplaced(dir, id)}
      staged    == HasTemp(dir) \ displaced
  IN  [record    |-> Records(dir),
       previous  |-> prev,
       staged    |-> staged,
       displaced |-> displaced,
       created   |-> {id \in staged : ~TempIsDurable(id)},
       unsynced  |-> {id \in Ids : Named(log[1], id) # Named(dir, id)}]

Seen == IF call = None THEN View ELSE call.base

-----------------------------------------------------------------------------
Init ==
  /\ log = << <<>> >>
  /\ call = None
  /\ reader = [pc |-> "idle"]
  /\ acked = <<>>
  /\ prev = <<>>

(* Faulty form: a reader without a watch.                                  *)
NotNotified == reader

(* inotify reports every change of the directory to a reader's watch.      *)
Notified ==
  IF reader.pc \in {"names", "load", "restat"}
  THEN [reader EXCEPT !.dirty = TRUE] ELSE reader

ChangeDir(d) ==
  /\ log' = Append(log, d)
  /\ reader' = Notified

At(step)   == call # None /\ call.step = step
Goto(step) == call' = [call EXCEPT !.step = step]

Return ==
  call' = None

(* expected = None for persist_new, which next_attempt_id calls for an ID  *)
(* that has no record.                                                     *)
PersistNew(k) ==
  /\ call = None /\ Readable
  /\ k.id \notin Recorded(dir)
  /\ k.events = 1
  /\ call' = [new |-> k, expected |-> None, step |-> "create", base |-> View]
  /\ UNCHANGED <<log, reader, acked, prev>>

PersistIfMatches(expected, k) ==
  /\ call = None /\ Readable
  /\ k.id = expected.id /\ k.events = expected.events + 1
  /\ k.id \in Recorded(dir) /\ dir[Final(k.id)] = expected
  /\ call' = [new |-> k, expected |-> expected, step |-> "create",
              base |-> View]
  /\ UNCHANGED <<log, reader, acked, prev>>

(* write_staged_file: created exclusively, written and synced by the       *)
(* isolated writer.                                                        *)
CreateStaging ==
  /\ At("create")
  /\ ChangeDir(With(dir, Temp(call.new.id), None))
  /\ Goto("write")
  /\ UNCHANGED <<acked, prev>>

WriteStaging ==
  /\ At("write")
  /\ ChangeDir(With(dir, Temp(call.new.id), call.new))
  /\ Goto("staged")
  /\ UNCHANGED <<acked, prev>>

(* Faulty form: the directory is not synced after the staging file.        *)
SyncStagingSkipped ==
  /\ At("staged")
  /\ Goto(IF call.expected = None THEN "publish" ELSE "exchange")
  /\ UNCHANGED <<log, reader, acked, prev>>

SyncStaging ==
  /\ At("staged")
  /\ log' = <<dir>>
  /\ Goto(IF call.expected = None THEN "publish" ELSE "exchange")
  /\ UNCHANGED <<reader, acked, prev>>

(* AlreadyExists otherwise.                                                *)
Publish ==
  /\ At("publish")
  /\ call.new.id \notin Recorded(dir)
  /\ ChangeDir(Renamed(dir, Temp(call.new.id), Final(call.new.id)))
  /\ Goto("sync_last")
  /\ UNCHANGED <<acked, prev>>

(* Faulty form: a rename that replaces the record.                         *)
ExchangeReplacing ==
  /\ At("exchange")
  /\ ChangeDir(Renamed(dir, Temp(call.new.id), Final(call.new.id)))
  /\ prev' = With(prev, call.new.id, call.expected)
  /\ Goto("sync_exchange")
  /\ UNCHANGED acked

Exchange ==
  /\ At("exchange")
  /\ ChangeDir(Exchanged(dir, Temp(call.new.id), Final(call.new.id)))
  /\ prev' = With(prev, call.new.id, call.expected)
  /\ Goto("sync_exchange")
  /\ UNCHANGED acked

SyncExchange ==
  /\ At("sync_exchange")
  /\ log' = <<dir>>
  /\ Goto("archive")
  /\ UNCHANGED <<reader, acked, prev>>

Archive ==
  /\ At("archive")
  /\ HistoryName(call.expected) \notin DOMAIN dir
  /\ ChangeDir(Renamed(dir, Temp(call.new.id), HistoryName(call.expected)))
  /\ Goto("sync_last")
  /\ UNCHANGED <<acked, prev>>

SyncLast ==
  /\ At("sync_last")
  /\ log' = <<dir>>
  /\ acked' = With(acked, call.new.id, call.new)
  /\ Return
  /\ UNCHANGED <<reader, prev>>

(* Any step fails, a check after it fails, or the process dies: nothing    *)
(* is cleaned up.                                                          *)
PersistFails ==
  /\ call # None
  /\ Return
  /\ UNCHANGED <<log, reader, acked, prev>>

(* The host goes down when no call is in progress (a call it interrupts    *)
(* has failed): the disk keeps the directory as it was after some change   *)
(* since the last fsync.                                                   *)
HostCrash ==
  /\ call = None
  /\ \E i \in DOMAIN log :
       LET d == log[i]
       IN  /\ log' = <<d>>
           /\ prev' = [id \in {x \in DOMAIN prev : d[Final(x)] # prev[x]} |->
                         prev[id]]
  /\ reader' = [pc |-> "idle"]
  /\ UNCHANGED <<call, acked>>

-----------------------------------------------------------------------------
(* all(): the watch is set before the names are read; every file is loaded *)
(* and kept open; the names are read again, every file is compared with    *)
(* the one under its name, and the watch must have seen nothing.           *)

StartAll ==
  /\ reader.pc = "idle"
  /\ reader' = [pc |-> "names", names |-> {}, pinned |-> <<>>,
                left |-> {}, dirty |-> FALSE]
  /\ UNCHANGED <<log, call, acked, prev>>

ReadNames ==
  /\ reader.pc = "names"
  /\ reader' = [reader EXCEPT !.pc = "load", !.names = DOMAIN dir,
                              !.left = DOMAIN dir]
  /\ UNCHANGED <<log, call, acked, prev>>

(* A staging file, or a name that is gone, is an error.                    *)
LoadOne(n) ==
  /\ reader.pc = "load" /\ n \in reader.left
  /\ reader' = IF n.kind = "temp" \/ n \notin DOMAIN dir
               THEN [pc |-> "idle"]
               ELSE [reader EXCEPT !.left = @ \ {n},
                                   !.pinned = With(@, n, dir[n])]
  /\ UNCHANGED <<log, call, acked, prev>>

ReadNamesAgain ==
  /\ reader.pc = "load" /\ reader.left = {}
  /\ reader' = IF DOMAIN dir # reader.names
               THEN [pc |-> "idle"]
               ELSE [reader EXCEPT !.pc = "restat", !.left = reader.names]
  /\ UNCHANGED <<log, call, acked, prev>>

RestatOne(n) ==
  /\ reader.pc = "restat" /\ n \in reader.left
  /\ reader' = IF n \notin DOMAIN dir \/ dir[n] # reader.pinned[n]
               THEN [pc |-> "idle"]
               ELSE [reader EXCEPT !.left = @ \ {n}]
  /\ UNCHANGED <<log, call, acked, prev>>

(* history_matches_final for every archived state.                         *)
HistoryMatches(d) ==
  \A n \in DOMAIN d : n.kind = "history" =>
    /\ Final(n.id) \in DOMAIN d
    /\ d[n].events = n.events
    /\ d[n].events < d[Final(n.id)].events

(* require_unchanged and the history check end the call.                   *)
FinishAll ==
  /\ reader.pc = "restat" /\ reader.left = {}
  /\ reader' = IF reader.dirty \/ ~HistoryMatches(reader.pinned)
               THEN [pc |-> "idle"]
               ELSE [pc |-> "ok", result |-> Records(reader.pinned)]
  /\ UNCHANGED <<log, call, acked, prev>>

(* The caller takes the result; an I/O error ends all() at any step.       *)
EndAll ==
  /\ reader.pc # "idle"
  /\ reader' = [pc |-> "idle"]
  /\ UNCHANGED <<log, call, acked, prev>>

-----------------------------------------------------------------------------
Writer ==
  \/ \E k \in Journals : PersistNew(k)
  \/ \E e, k \in Journals : PersistIfMatches(e, k)
  \/ CreateStaging \/ WriteStaging \/ SyncStaging
  \/ Publish \/ Exchange \/ SyncExchange \/ Archive \/ SyncLast
  \/ PersistFails

Reader ==
  \/ StartAll \/ ReadNames \/ ReadNamesAgain \/ FinishAll \/ EndAll
  \/ \E n \in DOMAIN dir \cup (IF reader.pc \in {"load", "restat"}
                               THEN reader.names ELSE {}) :
       LoadOne(n) \/ RestatOne(n)

Next == Writer \/ Reader \/ HostCrash

Spec == Init /\ [][Next]_vars

-----------------------------------------------------------------------------
(* Whatever the disk keeps of the changes since the last fsync, no state a *)
(* persist call returned Ok for is lost: the record is it or a later one,  *)
(* and every state before it is still under some name ("Exchange retains   *)
(* the displaced inode on any uncertain outcome").                         *)
AcknowledgedSurvives ==
  \A i \in DOMAIN log, id \in DOMAIN acked :
    /\ id \in Recorded(log[i])
    /\ log[i][Final(id)].events >= acked[id].events
    /\ \A n \in 1..acked[id].events :
         \E name \in DOMAIN log[i] : log[i][name] = [id |-> id, events |-> n]

(* A directory without staging files, live or after any crash, is one that *)
(* all() accepts: an update never archives what all() then refuses, which  *)
(* would block every later operation on the host.                          *)
ReadableAfterCrash ==
  \A i \in DOMAIN log : HasTemp(log[i]) = {} => HistoryMatches(log[i])

(* The host may go down between any two file-system operations: nothing    *)
(* acknowledged is lost, and what is left can be read.                     *)
CrashConsistent == AcknowledgedSurvives /\ ReadableAfterCrash

(* all() beside a writer: when it succeeds, it returns what the directory  *)
(* holds at the moment it succeeds, with no staging file there, although   *)
(* it read one file after the other.                                       *)
ReadIsCurrent ==
  [][(FinishAll /\ reader'.pc = "ok") =>
       HasTemp(dir) = {} /\ reader'.result = Records(dir)]_vars

(* At the granularity of calls the directory behaves as DurableStore says  *)
(* it does; what each failed call and each crash may leave is in there.    *)
NoDigest(value) == value

Abs == INSTANCE DurableStore
         WITH Fingerprint <- NoDigest,
              record <- Seen.record, previous <- Seen.previous,
              staged <- Seen.staged, displaced <- Seen.displaced,
              created <- Seen.created, unsynced <- Seen.unsynced

AbsNext ==
  \/ \E k \in Journals : Abs!NewStored(k) \/ Abs!NewFails(k)
  \/ \E e, k \in Journals : Abs!UpdateStored(e, k) \/ Abs!UpdateFails(e, k)
  \/ Abs!StoreCrash

ImplementsDurableStore == Abs!StoreInit /\ [][AbsNext]_(Abs!storeVars)
=============================================================================
