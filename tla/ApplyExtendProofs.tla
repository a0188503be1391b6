-------------------------- MODULE ApplyExtendProofs --------------------------
(***************************************************************************)
(* Proofs about ApplyExtend, for every number of invocations, operators,   *)
(* targets and attempts, every growth and drift, and every Fingerprint:    *)
(* what the code's control guarantees needs no property of SHA-256.        *)
(***************************************************************************)
EXTENDS ApplyExtend, TLAPS

(* j has the fields of a journal.                                          *)
IsJournal(j) ==
  j = [id |-> j.id, plan |-> j.plan, baseline |-> j.baseline,
       phase |-> j.phase, mutated |-> j.mutated, approval |-> j.approval,
       execution |-> j.execution, boundary |-> j.boundary,
       events |-> j.events]

(* The flag says what the phase says.                                      *)
GoodJournal(j) ==
  /\ IsJournal(j)
  /\ j.mutated \in BOOLEAN
  /\ j.mutated <=> j.phase \in MutationPhases

(* A storage tool may have been started, for a known manifest.             *)
Started(j) == j.mutated /\ j.phase \in MutationPhases /\ j.execution # None

(* Past the mutation boundary and not completed.                           *)
Unfinished(j) == j.mutated /\ j.phase # "Completed"

-----------------------------------------------------------------------------
(* The inductive invariant, in parts.                                      *)

ControlStates == {"idle", "planned", "begin", "publish", "held",
                  "revalidated", "verified", "approved", "checked", "ready",
                  "waiting", "rediscover", "proved", "closing", "recovering",
                  "failing", "release"}

(* Whoever is past the lock holds it; whoever is past begin has a journal. *)
ControlInv ==
  /\ pc \in [Procs -> ControlStates]
  /\ mem = [p \in Procs |-> mem[p]]
  /\ shown = [o \in Operators |-> shown[o]]
  /\ \A p \in Procs :
       /\ pc[p] \notin {"idle", "planned"} => lock = p
       /\ pc[p] \notin {"idle", "planned", "begin", "release"} =>
            GoodJournal(mem[p])
       /\ pc[p] = "publish" => ~mem[p].mutated
       /\ pc[p] \in {"publish", "held"} => AllReadable
  /\ \A o \in Operators : shown[o] # None => GoodJournal(shown[o])

(* What is on disk are journals, under their own names.                    *)
StoreInv ==
  /\ \A id \in DOMAIN record : GoodJournal(record[id]) /\ record[id].id = id
  /\ \A id \in DOMAIN previous :
       GoodJournal(previous[id]) /\ previous[id].id = id
  /\ displaced \subseteq DOMAIN previous

(* Nothing a host crash can undo would hide a tool that was started.       *)
WriteAheadInv ==
  /\ WriteAhead
  /\ \A id \in DOMAIN ran \cap unsynced \cap displaced :
       Started(previous[id])
  /\ \A id \in unsynced \ (displaced \cup DOMAIN previous) :
       Exists(id) => ~record[id].mutated

(* Nothing a host crash can undo would make a second journal unfinished,   *)
(* and a step that is being verified has no tool running.                  *)
OneMutatorInv ==
  /\ OneMutator
  /\ \A id \in unsynced \cap displaced :
       Unfinished(previous[id]) => Mutators \subseteq {id}
  /\ \A a, b \in unsynced \cap displaced : a = b
  /\ \A p \in Procs :
       pc[p] \in {"ready", "rediscover", "proved", "closing"} =>
         mem[p].id \notin DOMAIN child

IInv == ControlInv /\ StoreInv /\ WriteAheadInv /\ OneMutatorInv

-----------------------------------------------------------------------------
(* What the transitions of the journal do, whatever they are given.        *)

(* k is a later state of j under the same name.                            *)
Advances(j, k) ==
  /\ GoodJournal(k)
  /\ k.id = j.id
  /\ k.plan = j.plan
  /\ j.mutated => k.mutated /\ k.execution = j.execution

(* A new journal under the host lock has not started anything.             *)
LEMMA NewJournalGood ==
  ASSUME NEW id, NEW pl, NEW b,
         NEW k \in HostLockAcquired(NewJournal(id, pl, b))
  PROVE  GoodJournal(k) /\ ~k.mutated /\ k.id = id /\ k.plan = pl
  BY DEF HostLockAcquired, NewJournal, Ok, Advance, GoodJournal, IsJournal,
         MutationPhases

(* The transitions up to the approval stay before the mutation boundary.   *)
LEMMA EarlyTransitions ==
  ASSUME NEW j, GoodJournal(j), NEW fresh, NEW pl, NEW a, NEW k,
         \/ k \in IdentityRevalidated(j, fresh)
         \/ k \in PreconditionsVerified(j)
         \/ k \in ExactPlanApproved(j, pl, a)
  PROVE  Advances(j, k) /\ ~j.mutated /\ ~k.mutated
  BY DEF IdentityRevalidated, PreconditionsVerified, ExactPlanApproved, Ok,
         Advance, GoodJournal, IsJournal, Advances, MutationPhases

(* Only a journal that has not crossed the mutation boundary starts.       *)
LEMMA StartTransition ==
  ASSUME NEW j, GoodJournal(j), NEW b, NEW k \in ExecutionStarted(j, b)
  PROVE  Advances(j, k) /\ ~j.mutated
  BY DEF ExecutionStarted, Ok, Advance, GoodJournal, IsJournal, Advances,
         MutationPhases

(* Verification neither unfinishes nor finishes a step before its end.     *)
LEMMA VerificationTransitions ==
  ASSUME NEW j, GoodJournal(j), NEW c, NEW n, NEW fresh, NEW k,
         \/ k \in VerificationStarted(j)
         \/ k \in VerificationPassedContinue(j, c, n, fresh)
  PROVE  Advances(j, k) /\ Unfinished(k)
  BY DEF VerificationStarted, VerificationPassedContinue, Ok, Advance,
         GoodJournal, IsJournal, Advances, MutationPhases, Unfinished

(* VerificationPassedComplete keeps the name, the plan and the manifest.    *)
LEMMA CompleteTransition ==
  ASSUME NEW j, GoodJournal(j), NEW c, NEW fresh,
         NEW k \in VerificationPassedComplete(j, c, fresh)
  PROVE  Advances(j, k)
  BY DEF VerificationPassedComplete, Ok, Advance, GoodJournal, IsJournal,
         Advances, MutationPhases

(* Stopping never hides that a mutation may have started.                  *)
LEMMA StopTransitions ==
  ASSUME NEW j, GoodJournal(j), NEW k,
         k \in Interrupted(j) \/ k \in Abort(j)
  PROVE  /\ Advances(j, k)
         /\ k.mutated = j.mutated
         /\ Unfinished(j) => Unfinished(k)
  BY DEF Interrupted, Abort, Ok, Advance, IsTerminal, TerminalPhases,
         GoodJournal, IsJournal, Advances, MutationPhases, Unfinished

-----------------------------------------------------------------------------
(* What the store's writes do to the parts of the invariant about disk.    *)

(* Every write starts from a directory without staging files.              *)
LEMMA WriteKeepsDisk ==
  ASSUME StoreInv, WriteAheadInv, AllReadable,
         NEW j, NEW k, GoodJournal(j), Advances(j, k),
         UpdateStored(j, k) \/ UpdateFails(j, k),
         ran' = ran
  PROVE  StoreInv' /\ WriteAheadInv'
<1>1. CASE UNCHANGED storeVars
  BY <1>1 DEF storeVars, StoreInv, WriteAheadInv, WriteAhead, Exists
<1>2. CASE Matches(j, k) /\ StagingLeft(k)
  BY <1>2 DEF StagingLeft, StoreInv, WriteAheadInv, WriteAhead, Exists,
              AllReadable
<1>3. CASE UpdateStored(j, k) \/ UpdateDisplaced(j, k) \/ UpdateArchived(j, k)
  <2>1. /\ k.id \in DOMAIN record /\ record[k.id] = j
        /\ DOMAIN record' = DOMAIN record \cup {k.id}
        /\ \A id \in DOMAIN record' :
             record'[id] = IF id = k.id THEN k ELSE record[id]
        /\ DOMAIN previous' = DOMAIN previous \cup {k.id}
        /\ \A id \in DOMAIN previous' :
             previous'[id] = IF id = k.id THEN j ELSE previous[id]
        /\ unsynced' \subseteq {k.id}
        /\ displaced' \subseteq {k.id}
    BY <1>3 DEF UpdateStored, UpdateDisplaced, UpdateArchived, Matches,
                Exists, Exchange, With, AllReadable
  <2>2. StoreInv'
    BY <2>1 DEF StoreInv, Advances
  <2>3. WriteAhead'
    BY <2>1 DEF WriteAheadInv, WriteAhead, Exists, Advances, GoodJournal
  <2>4. \A id \in (DOMAIN ran \cap unsynced \cap displaced)' :
          Started(previous[id])'
    BY <2>1 DEF WriteAheadInv, WriteAhead, Started
  <2>5. QED
    BY <2>1, <2>2, <2>3, <2>4 DEF WriteAheadInv
<1>4. QED
  BY <1>1, <1>2, <1>3 DEF UpdateFails

(* A durable update by the only unfinished journal, or by one that does    *)
(* not become unfinished, keeps a single mutator.                          *)
LEMMA WriteKeepsOneMutator ==
  ASSUME StoreInv, OneMutatorInv, AllReadable,
         NEW j, NEW k, GoodJournal(j), Advances(j, k),
         UpdateStored(j, k) \/ UpdateFails(j, k),
         Unfinished(j) \/ Unfinished(k) =>
           \A id \in DOMAIN record \ {k.id} : ~Unfinished(record[id]),
         Unfinished(j) /\ ~Unfinished(k) => k.id \notin DOMAIN child,
         child' = child
  PROVE  /\ OneMutator'
         /\ \A id \in (unsynced \cap displaced)' :
              Unfinished(previous[id])' => Mutators' \subseteq {id}
         /\ \A a, b \in (unsynced \cap displaced)' : a = b
<1> USE DEF OneMutatorInv, OneMutator, Mutators, Unfinished
<1>1. CASE UNCHANGED storeVars
  BY <1>1 DEF storeVars
<1>2. CASE Matches(j, k) /\ StagingLeft(k)
  BY <1>2 DEF StagingLeft, AllReadable
<1>3. CASE UpdateStored(j, k) \/ UpdateDisplaced(j, k) \/ UpdateArchived(j, k)
  <2>1. /\ k.id \in DOMAIN record /\ record[k.id] = j
        /\ DOMAIN record' = DOMAIN record \cup {k.id}
        /\ \A id \in DOMAIN record' :
             record'[id] = IF id = k.id THEN k ELSE record[id]
        /\ previous'[k.id] = j
        /\ displaced' \subseteq {k.id}
    BY <1>3 DEF UpdateStored, UpdateDisplaced, UpdateArchived, Matches,
                Exists, Exchange, With, AllReadable
  <2>2. Mutators' \subseteq Mutators \cup {k.id}
    BY <2>1
  <2>3. Unfinished(j) \/ Unfinished(k) => Mutators' \subseteq {k.id}
    BY <2>1
  <2>4. OneMutator'
    <3>1. \A a, b \in Mutators' : a = b
      BY <2>1, <2>3
    <3>2. DOMAIN child \subseteq Mutators'
      BY <2>1
    <3>3. QED
      BY <3>1, <3>2
  <2>5. QED
    BY <2>1, <2>3, <2>4
<1>4. QED
  BY <1>1, <1>2, <1>3 DEF UpdateFails

(* persist_new writes a journal that has not started anything.             *)
LEMMA PublishKeepsDisk ==
  ASSUME StoreInv, WriteAheadInv, OneMutatorInv, AllReadable,
         NEW k, GoodJournal(k), ~k.mutated,
         NewStored(k) \/ NewFails(k),
         ran' = ran, child' = child
  PROVE  /\ StoreInv' /\ WriteAheadInv'
         /\ OneMutator'
         /\ \A id \in (unsynced \cap displaced)' :
              Unfinished(previous[id])' => Mutators' \subseteq {id}
         /\ \A a, b \in (unsynced \cap displaced)' : a = b
<1>1. CASE UNCHANGED storeVars
  BY <1>1 DEF storeVars, StoreInv, WriteAheadInv, WriteAhead, Exists,
              OneMutatorInv, OneMutator, Mutators
<1>2. CASE StagingLeft(k)
  BY <1>2 DEF StagingLeft, StoreInv, WriteAheadInv, WriteAhead, Exists,
              OneMutatorInv, OneMutator, Mutators, AllReadable
<1>3. CASE NewStored(k) \/ NewUnsynced(k)
  <2>1. /\ k.id \notin DOMAIN record
        /\ DOMAIN record' = DOMAIN record \cup {k.id}
        /\ \A id \in DOMAIN record' :
             record'[id] = IF id = k.id THEN k ELSE record[id]
        /\ previous' = previous /\ staged' = staged
        /\ displaced = {} /\ displaced' = {}
        /\ unsynced' \subseteq {k.id}
    BY <1>3 DEF NewStored, NewUnsynced, Exists, With, AllReadable
  <2>2. StoreInv'
    BY <2>1 DEF StoreInv
  <2>3. WriteAheadInv'
    BY <2>1 DEF WriteAheadInv, WriteAhead, Exists
  <2>4. Mutators' = Mutators
    BY <2>1 DEF Mutators
  <2>5. OneMutator'
    BY <2>1, <2>4 DEF OneMutatorInv, OneMutator
  <2>6. QED
    BY <2>1, <2>2, <2>3, <2>5
<1>4. QED
  BY <1>1, <1>2, <1>3 DEF NewFails

(* A host crash undoes at most the last change of the directory.           *)
LEMMA CrashKeepsDisk ==
  ASSUME StoreInv, WriteAheadInv, OneMutatorInv, StoreCrash,
         ran' = ran, child' = <<>>
  PROVE  /\ StoreInv' /\ WriteAheadInv'
         /\ OneMutator'
         /\ unsynced' = {}
         /\ DOMAIN child' = {}
<1>1. PICK gone \in SUBSET created, lost \in SUBSET unsynced :
              LoseUnsynced(gone, lost)
  BY DEF StoreCrash
<1> DEFINE exchanged == lost \cap displaced
           published == (lost \ displaced) \ DOMAIN previous
           archived  == (lost \ displaced) \cap DOMAIN previous
<1>2. /\ DOMAIN record' = DOMAIN record \ published
      /\ \A id \in DOMAIN record' :
           record'[id] = IF id \in exchanged THEN previous[id] ELSE record[id]
      /\ DOMAIN previous' = DOMAIN previous \ exchanged
      /\ \A id \in DOMAIN previous' : previous'[id] = previous[id]
      /\ displaced' = (displaced \ exchanged) \cup archived
      /\ unsynced' = {}
  BY <1>1 DEF LoseUnsynced, Without
<1>3. StoreInv'
  BY <1>2 DEF StoreInv
<1>4. WriteAhead'
  <2>1. SUFFICES ASSUME NEW id \in DOMAIN ran
                 PROVE  Exists(id)' /\ Started(record[id])'
    BY DEF WriteAhead, Started
  <2>2. Exists(id) /\ Started(record[id])
    BY DEF WriteAheadInv, WriteAhead, Started
  <2>3. id \notin published
    BY <2>2 DEF WriteAheadInv, Exists, Started
  <2>4. id \in exchanged => Started(previous[id])
    BY DEF WriteAheadInv
  <2>5. QED
    BY <1>2, <2>2, <2>3, <2>4 DEF Exists, Started
<1>5. WriteAheadInv'
  BY <1>2, <1>4 DEF WriteAheadInv
<1>6. DOMAIN child' = {}
  OBVIOUS
<1>7. \A a, b \in Mutators' : a = b
  <2>1. CASE exchanged = {}
    BY <1>2, <2>1 DEF OneMutatorInv, OneMutator, Mutators
  <2>2. ASSUME NEW x \in exchanged
        PROVE  Mutators' \subseteq Mutators \cup {x}
    BY <1>2, <2>2 DEF OneMutatorInv, Mutators
  <2>3. ASSUME NEW x \in exchanged, Unfinished(previous[x])
        PROVE  Mutators \subseteq {x}
    BY <2>3 DEF OneMutatorInv
  <2>4. ASSUME NEW x \in exchanged, ~Unfinished(previous[x])
        PROVE  Mutators' \subseteq Mutators
    BY <1>2, <2>4 DEF OneMutatorInv, Mutators, Unfinished
  <2>5. \A a, b \in Mutators : a = b
    BY DEF OneMutatorInv, OneMutator
  <2>6. QED
    BY <2>1, <2>2, <2>3, <2>4, <2>5
<1>8. QED
  BY <1>2, <1>3, <1>5, <1>6, <1>7 DEF OneMutator

-----------------------------------------------------------------------------
(* Sessions.                                                               *)

(* The holder of the lock is alone past it.                                *)
LEMMA Alone ==
  ASSUME ControlInv, NEW p \in Procs, NEW q \in Procs, q # p, lock = p
  PROVE  pc[q] \in {"idle", "planned"}
  BY DEF ControlInv

(* Mutators are where no tool may be and where no tool is.                 *)
LEMMA UnmutatedHasNoChild ==
  ASSUME OneMutatorInv, NEW p \in Procs, RequireCurrent(p), ~mem[p].mutated
  PROVE  mem[p].id \notin DOMAIN child
  BY DEF OneMutatorInv, OneMutator, Mutators, RequireCurrent, Matches

(* After require_current_durable_journal no other journal is unfinished.   *)
LEMMA CurrentIsAlone ==
  ASSUME NEW p \in Procs, RequireCurrent(p)
  PROVE  \A id \in DOMAIN record \ {mem[p].id} : ~Unfinished(record[id])
  BY DEF RequireCurrent, BlocksPlan, Unfinished

Quiet == {"ready", "rediscover", "proved", "closing"}
Guarded == ControlStates \ {"idle", "planned", "begin", "publish", "held"}
InSessionStates == ControlStates \ {"idle", "planned", "begin", "release"}

(* A step of an invocation under the lock that writes nothing.             *)
LEMMA QuietStep ==
  ASSUME IInv, NEW p \in Procs, NEW to \in Guarded,
         pc[p] \in InSessionStates,
         pc' = [pc EXCEPT ![p] = to],
         UNCHANGED <<storeVars, lock, mem, ran, shown>>,
         DOMAIN child' \subseteq DOMAIN child,
         to \in Quiet => mem[p].id \notin DOMAIN child'
  PROVE  IInv'
<1>1. ControlInv'
  BY DEF IInv, ControlInv, storeVars, Guarded, InSessionStates, ControlStates,
         AllReadable
<1>2. StoreInv' /\ WriteAheadInv'
  BY DEF IInv, storeVars, StoreInv, WriteAheadInv, WriteAhead, Exists, Started
<1>3. OneMutatorInv'
  <2>1. \A q \in Procs :
          pc'[q] \in Quiet => mem'[q].id \notin DOMAIN child'
    BY DEF IInv, OneMutatorInv, Quiet, ControlInv
  <2>2. QED
    BY <2>1 DEF IInv, OneMutatorInv, OneMutator, Mutators, storeVars, Quiet
<1>4. QED
  BY <1>1, <1>2, <1>3 DEF IInv

(* A step of an invocation under the lock that persists a transition.  A   *)
(* transition that finishes a mutation, or after which a tool may be       *)
(* started, is made while none runs.                                       *)
LEMMA PersistStep ==
  ASSUME IInv, NEW p \in Procs, NEW next, NEW to \in Guarded,
         NEW failed \in Guarded \ Quiet,
         pc[p] \in InSessionStates, AllReadable,
         \/ \E k \in next : /\ UpdateStored(mem[p], k)
                             /\ mem' = [mem EXCEPT ![p] = k]
                             /\ pc' = [pc EXCEPT ![p] = to]
         \/ \E k \in next : /\ UpdateFails(mem[p], k)
                             /\ mem' = mem
                             /\ pc' = [pc EXCEPT ![p] = failed],
         UNCHANGED <<lock, child, ran, shown>>,
         \A k \in next :
           /\ Advances(mem[p], k)
           /\ to \in Quiet => mem[p].id \notin DOMAIN child
           /\ Unfinished(mem[p]) /\ ~Unfinished(k) =>
                mem[p].id \notin DOMAIN child
           /\ Unfinished(mem[p]) \/ Unfinished(k) =>
                \A id \in DOMAIN record \ {mem[p].id} :
                  ~Unfinished(record[id])
  PROVE  IInv'
<1>1. PICK k \in next :
        /\ UpdateStored(mem[p], k) \/ UpdateFails(mem[p], k)
        /\ \/ mem' = [mem EXCEPT ![p] = k] /\ pc' = [pc EXCEPT ![p] = to]
           \/ mem' = mem /\ pc' = [pc EXCEPT ![p] = failed]
  OBVIOUS
<1>2. GoodJournal(mem[p]) /\ lock = p
  BY DEF IInv, ControlInv, InSessionStates
<1>3. Advances(mem[p], k)
  OBVIOUS
<1>4. StoreInv' /\ WriteAheadInv'
  BY <1>1, <1>2, <1>3, WriteKeepsDisk DEF IInv
<1>5. /\ OneMutator'
      /\ \A id \in (unsynced \cap displaced)' :
           Unfinished(previous[id])' => Mutators' \subseteq {id}
      /\ \A a, b \in (unsynced \cap displaced)' : a = b
  <2>1. k.id = mem[p].id
    BY <1>3 DEF Advances
  <2>2. QED
    BY <1>1, <1>2, <1>3, <2>1, WriteKeepsOneMutator DEF IInv
<1>6. mem'[p].id = mem[p].id /\ GoodJournal(mem'[p])
  BY <1>1, <1>2, <1>3 DEF Advances, IInv, ControlInv
<1>7. \A q \in Procs \ {p} : /\ pc'[q] = pc[q] /\ mem'[q] = mem[q]
                             /\ pc[q] \in {"idle", "planned"}
  BY <1>1, <1>2, Alone DEF IInv, ControlInv
<1>8. pc' \in [Procs -> ControlStates] /\ pc'[p] \in {to, failed}
  BY <1>1 DEF IInv, ControlInv, Guarded
<1>9. ControlInv'
  <2>1. mem' = [q \in Procs |-> mem'[q]]
    BY <1>1 DEF IInv, ControlInv
  <2>2. pc'[p] \in Guarded
    BY <1>8
  <2>3. QED
    BY <1>2, <1>6, <1>7, <1>8, <2>1, <2>2 DEF IInv, ControlInv, Guarded
<1>10. \A q \in Procs : pc'[q] \in Quiet => mem'[q].id \notin DOMAIN child'
  BY <1>1, <1>6, <1>7, <1>8 DEF Quiet
<1>11. QED
  BY <1>4, <1>5, <1>9, <1>10 DEF IInv, OneMutatorInv, Quiet

(* The persist_* methods but revalidate reread the inventory first.        *)
LEMMA GuardedPersistStep ==
  ASSUME IInv, NEW p \in Procs, NEW next, NEW to \in Guarded,
         NEW failed \in Guarded \ Quiet,
         pc[p] \in InSessionStates,
         Persist(p, next, to, failed),
         UNCHANGED <<lock, child, ran, shown>>,
         \A k \in next :
           /\ Advances(mem[p], k)
           /\ RequireCurrent(p) /\ to \in Quiet =>
                mem[p].id \notin DOMAIN child
           /\ Unfinished(mem[p]) /\ ~Unfinished(k) =>
                mem[p].id \notin DOMAIN child
  PROVE  IInv'
<1>1. CASE UNCHANGED storeVars /\ mem' = mem /\ pc' = [pc EXCEPT ![p] = failed]
  BY <1>1, QuietStep
<1>2. CASE RequireCurrent(p) /\ PersistOk(p, next, to)
  BY <1>2, CurrentIsAlone, PersistStep DEF PersistOk, RequireCurrent
<1>3. CASE RequireCurrent(p) /\ PersistFails(p, next, failed)
           /\ ~ UNCHANGED storeVars
  BY <1>3, CurrentIsAlone, PersistStep DEF PersistFails, RequireCurrent
<1>4. QED
  BY <1>1, <1>2, <1>3 DEF Persist, PersistFails

(* Any other step that does not touch the disk and starts no tool.         *)
LEMMA NoWriteStep ==
  ASSUME IInv, ControlInv',
         UNCHANGED <<storeVars, ran>>,
         DOMAIN child' \subseteq DOMAIN child,
         \A q \in Procs : pc'[q] \in Quiet =>
                          pc[q] \in Quiet /\ mem'[q] = mem[q]
  PROVE  IInv'
<1>1. StoreInv' /\ WriteAheadInv'
  BY DEF IInv, storeVars, StoreInv, WriteAheadInv, WriteAhead, Exists, Started
<1>2. OneMutatorInv'
  <2>1. \A q \in Procs :
          pc'[q] \in Quiet => mem'[q].id \notin DOMAIN child'
    BY DEF IInv, OneMutatorInv, Quiet
  <2>2. QED
    BY <2>1 DEF IInv, OneMutatorInv, OneMutator, Mutators, storeVars, Quiet
<1>3. QED
  BY <1>1, <1>2 DEF IInv

-----------------------------------------------------------------------------
(* A host on which the program never ran.                                  *)
LEMMA InitIInv == Init => IInv
<1> SUFFICES ASSUME Init PROVE IInv
  OBVIOUS
<1>1. /\ DOMAIN record = {} /\ DOMAIN previous = {} /\ DOMAIN ran = {}
      /\ DOMAIN child = {} /\ staged = {} /\ displaced = {} /\ unsynced = {}
  BY DEF Init, StoreInit
<1>2. ControlInv
  BY DEF Init, ControlInv, ControlStates
<1>3. StoreInv /\ WriteAheadInv /\ OneMutatorInv
  BY <1>1 DEF Init, StoreInv, WriteAheadInv, WriteAhead, OneMutatorInv,
              OneMutator, Mutators
<1>4. QED
  BY <1>2, <1>3 DEF IInv

(* Before and after a session.                                             *)
LEMMA OutsideSteps ==
  ASSUME IInv, NEW p \in Procs,
         \/ \E t \in Targets : Plan(p, t)
         \/ TakeLock(p) \/ LockBusy(p) \/ Begin(p) \/ BeginRefused(p)
         \/ Release(p) \/ Crash(p)
  PROVE  IInv'
<1> USE DEF Goto
<1>1. CASE \E t \in Targets : Plan(p, t)
  <2>1. ControlInv'
    BY <1>1 DEF Plan, IInv, ControlInv, ControlStates, storeVars, AllReadable
  <2>2. QED
    BY <1>1, <2>1, NoWriteStep DEF Plan, Quiet, IInv, ControlInv
<1>2. CASE TakeLock(p)
  <2>1. \A q \in Procs : pc[q] \in {"idle", "planned"}
    BY <1>2, ApplyAssumption DEF TakeLock, IInv, ControlInv, ControlStates
  <2>2. ControlInv'
    BY <1>2, <2>1 DEF TakeLock, IInv, ControlInv, ControlStates
  <2>3. QED
    BY <1>2, <2>2, NoWriteStep DEF TakeLock, Quiet, IInv, ControlInv
<1>3. CASE LockBusy(p)
  <2>1. ControlInv'
    BY <1>3 DEF LockBusy, IInv, ControlInv, ControlStates, storeVars,
                AllReadable
  <2>2. QED
    BY <1>3, <2>1, NoWriteStep DEF LockBusy, Quiet, IInv, ControlInv
<1>4. CASE Begin(p)
  <2>1. PICK n \in 0..(MaxAttempts - 1) :
          \E j \in HostLockAcquired(NewJournal(JournalId(plan[p], n), plan[p],
                                                plan[p].baseline)) :
            mem' = [mem EXCEPT ![p] = j]
    BY <1>4 DEF Begin
  <2>2. PICK j \in HostLockAcquired(NewJournal(JournalId(plan[p], n), plan[p],
                                               plan[p].baseline)) :
          mem' = [mem EXCEPT ![p] = j]
    BY <2>1
  <2>3. AllReadable' /\ GoodJournal(j) /\ ~j.mutated
    BY <1>4, NewJournalGood DEF Begin, InventoryClear, AllReadable, storeVars
  <2>4. ControlInv'
    BY <1>4, <2>2, <2>3 DEF Begin, IInv, ControlInv, ControlStates
  <2>5. QED
    BY <1>4, <2>2, <2>4, NoWriteStep DEF Begin, Quiet, IInv, ControlInv
<1>5. CASE BeginRefused(p)
  <2>1. ControlInv'
    BY <1>5 DEF BeginRefused, IInv, ControlInv, ControlStates, storeVars,
                AllReadable
  <2>2. QED
    BY <1>5, <2>1, NoWriteStep DEF BeginRefused, Quiet, IInv, ControlInv
<1>6. CASE Release(p) \/ Crash(p)
  <2>1. Forget(p) /\ UNCHANGED <<storeVars, child, ran, shown>>
    BY <1>6 DEF Release, Crash
  <2>2. ControlInv'
    <3>1. \A q \in Procs \ {p} : pc[q] \notin {"idle", "planned"} => lock' = q
      BY <2>1 DEF Forget, IInv, ControlInv
    <3>2. QED
      BY <2>1, <3>1 DEF Forget, IInv, ControlInv, ControlStates, storeVars,
                        AllReadable
  <2>3. QED
    BY <2>1, <2>2, NoWriteStep DEF Forget, Quiet, IInv, ControlInv
<1>7. QED
  BY <1>1, <1>2, <1>3, <1>4, <1>5, <1>6

(* persist_new of a journal that has not crossed the mutation boundary.    *)
LEMMA PublishStep ==
  ASSUME IInv, NEW p \in Procs, Publish(p)
  PROVE  IInv'
<1>1. /\ lock = p /\ GoodJournal(mem[p]) /\ ~mem[p].mutated /\ AllReadable
      /\ NewStored(mem[p]) \/ NewFails(mem[p])
  BY DEF Publish, IInv, ControlInv
<1>2. /\ StoreInv' /\ WriteAheadInv'
      /\ OneMutator'
      /\ \A id \in (unsynced \cap displaced)' :
           Unfinished(previous[id])' => Mutators' \subseteq {id}
      /\ \A a, b \in (unsynced \cap displaced)' : a = b
  BY <1>1, PublishKeepsDisk DEF Publish, IInv
<1>3. pc' = [pc EXCEPT ![p] = "held"] => AllReadable'
  <2>1. pc' = [pc EXCEPT ![p] = "held"] => pc'[p] = "held"
    BY DEF IInv, ControlInv
  <2>2. pc' = [pc EXCEPT ![p] = "release"] => pc'[p] = "release"
    BY DEF IInv, ControlInv
  <2>3. QED
    BY <1>1, <2>1, <2>2 DEF Publish, NewStored, AllReadable
<1>4. \A q \in Procs \ {p} : pc[q] \in {"idle", "planned"}
  BY <1>1, Alone DEF IInv
<1>5. ControlInv'
  BY <1>1, <1>3, <1>4 DEF Publish, IInv, ControlInv, ControlStates
<1>6. QED
  BY <1>2, <1>4, <1>5 DEF Publish, IInv, OneMutatorInv, Quiet, ControlInv

(* LockedExecutionSession::revalidate, the update without a fresh          *)
(* inventory.                                                              *)
LEMMA RevalidateStep ==
  ASSUME IInv, NEW p \in Procs, Revalidate(p)
  PROVE  IInv'
<1> DEFINE next == IdentityRevalidated(mem[p], dev[plan[p].target])
<1>1. GoodJournal(mem[p]) /\ AllReadable
  BY DEF Revalidate, IInv, ControlInv
<1>2. \A k \in next : Advances(mem[p], k) /\ ~mem[p].mutated /\ ~k.mutated
  BY <1>1, EarlyTransitions
<1>3. /\ pc[p] \in InSessionStates
      /\ "revalidated" \in Guarded \ Quiet /\ "failing" \in Guarded \ Quiet
  BY DEF Revalidate, InSessionStates, Guarded, ControlStates, Quiet
<1>4. PersistOk(p, next, "revalidated") \/ PersistFails(p, next, "failing")
  BY DEF Revalidate
<1> HIDE DEF next
<1>5. CASE PersistOk(p, next, "revalidated")
  BY <1>1, <1>2, <1>3, <1>5, PersistStep DEF Revalidate, PersistOk, Unfinished
<1>6. CASE PersistFails(p, next, "failing")
  <2>1. mem' = mem /\ pc' = [pc EXCEPT ![p] = "failing"]
    BY <1>6 DEF PersistFails
  <2>2. CASE UNCHANGED storeVars
    BY <1>3, <2>1, <2>2, QuietStep DEF Revalidate
  <2>3. CASE \E k \in next : UpdateFails(mem[p], k)
    BY <1>1, <1>2, <1>3, <2>1, <2>3, PersistStep DEF Revalidate, Unfinished
  <2>4. QED
    BY <1>6, <2>2, <2>3 DEF PersistFails
<1>7. QED
  BY <1>4, <1>5, <1>6

(* Up to the mutation boundary, and across it.                             *)
LEMMA ApprovalSteps ==
  ASSUME IInv, NEW p \in Procs,
         Precondition(p) \/ Approve(p) \/ Recheck(p) \/ Start(p)
  PROVE  IInv'
<1> USE DEF InSessionStates, Guarded, ControlStates, Quiet
<1>1. CASE Precondition(p)
  <2>1. GoodJournal(mem[p])
    BY <1>1 DEF Precondition, IInv, ControlInv
  <2>2. \A k \in PreconditionsVerified(mem[p]) :
          Advances(mem[p], k) /\ ~mem[p].mutated
    BY <2>1, EarlyTransitions
  <2>3. QED
    BY <1>1, <2>2, GuardedPersistStep DEF Precondition, Unfinished
<1>2. CASE Approve(p)
  <2>1. GoodJournal(mem[p])
    BY <1>2 DEF Approve, IInv, ControlInv
  <2>2. \A k \in ExactPlanApproved(mem[p], plan[p], SessionApproval(p)) :
          Advances(mem[p], k) /\ ~mem[p].mutated
    BY <2>1, EarlyTransitions
  <2>3. QED
    BY <1>2, <2>2, GuardedPersistStep DEF Approve, Unfinished
<1>3. CASE Recheck(p)
  BY <1>3, QuietStep DEF Recheck
<1>4. CASE Start(p)
  <2> DEFINE next == UNION {ExecutionStarted(mem[p], b) :
                              b \in BuildExecutionStart(mem[p], "manifest",
                                                        seen[p], Steps)}
  <2>1. GoodJournal(mem[p])
    BY <1>4 DEF Start, IInv, ControlInv
  <2>2. \A k \in next : Advances(mem[p], k) /\ ~mem[p].mutated
    BY <2>1, StartTransition
  <2>3. \A k \in next : RequireCurrent(p) => mem[p].id \notin DOMAIN child
    BY <2>2, UnmutatedHasNoChild DEF IInv
  <2>4. Persist(p, next, "ready", "failing")
    BY <1>4 DEF Start
  <2> HIDE DEF next
  <2>5. QED
    BY <1>4, <2>2, <2>3, <2>4, GuardedPersistStep DEF Start, Unfinished
<1>5. QED
  BY <1>1, <1>2, <1>3, <1>4

(* A tool is started only for a journal that is executing on disk, while   *)
(* no tool runs: it is the unfinished one, and known to be.                *)
LEMMA SpawnStep ==
  ASSUME IInv, NEW p \in Procs, Spawn(p)
  PROVE  IInv'
<1> DEFINE id == mem[p].id
<1>1. /\ lock = p /\ GoodJournal(mem[p])
      /\ AllReadable
      /\ id \in DOMAIN record /\ record[id] = mem[p]
      /\ mem[p].phase = "Executing" /\ mem[p].mutated
      /\ mem[p].execution # None
  BY DEF Spawn, IInv, ControlInv, RequireCurrent, Matches, Exists,
         StepAuthorized
<1>2. /\ DOMAIN ran' = DOMAIN ran \cup {id}
      /\ DOMAIN child' = DOMAIN child \cup {id}
      /\ pc' = [pc EXCEPT ![p] = "waiting"] /\ mem' = mem
      /\ UNCHANGED <<record, previous, staged, displaced, unsynced, lock,
                     shown>>
  BY DEF Spawn, With, storeVars
<1>3. \A q \in Procs \ {p} : pc[q] \in {"idle", "planned"}
  BY <1>1, Alone DEF IInv
<1> HIDE DEF id
<1>4. ControlInv'
  BY <1>1, <1>2 DEF IInv, ControlInv, ControlStates, AllReadable
<1>5. StoreInv'
  BY <1>2 DEF IInv, StoreInv
<1>6. WriteAheadInv'
  <2>1. WriteAhead'
    BY <1>1, <1>2 DEF IInv, WriteAheadInv, WriteAhead, Exists, MutationPhases
  <2>2. QED
    BY <1>1, <1>2, <2>1 DEF IInv, WriteAheadInv, Exists, Started, AllReadable
<1>7. OneMutatorInv'
  <2>1. id \in Mutators /\ Mutators' = Mutators
    BY <1>1, <1>2 DEF Mutators
  <2>2. OneMutator'
    BY <1>2, <2>1 DEF IInv, OneMutatorInv, OneMutator
  <2>3. \A q \in Procs : pc'[q] \notin Quiet
    BY <1>2, <1>3 DEF IInv, ControlInv, Quiet
  <2>4. QED
    BY <1>2, <2>1, <2>2, <2>3 DEF IInv, OneMutatorInv, Quiet, Unfinished
<1>8. QED
  BY <1>4, <1>5, <1>6, <1>7 DEF IInv

(* From the mutation boundary to the end of the session.                   *)
LEMMA MutationSessionSteps ==
  ASSUME IInv, NEW p \in Procs,
         \/ SpawnRefused(p) \/ Rediscover(p) \/ BeginVerification(p)
         \/ ContinueToNextStep(p) \/ Complete(p) \/ Recover(p)
         \/ InterruptOnError(p)
  PROVE  IInv'
<1> USE DEF InSessionStates, Guarded, ControlStates, Quiet
<1>1. pc[p] \in InSessionStates => GoodJournal(mem[p])
  BY DEF IInv, ControlInv
<1>2. pc[p] \in Quiet => mem[p].id \notin DOMAIN child
  BY DEF IInv, OneMutatorInv
<1>3. CASE SpawnRefused(p)
  <2>1. PICK to \in {"recovering", "failing"} : pc' = [pc EXCEPT ![p] = to]
    BY <1>3 DEF SpawnRefused
  <2>2. QED
    BY <1>3, <2>1, QuietStep DEF SpawnRefused
<1>4. CASE Rediscover(p)
  BY <1>2, <1>4, QuietStep DEF Rediscover
<1>5. CASE BeginVerification(p)
  <2>1. \A k \in VerificationStarted(mem[p]) :
          Advances(mem[p], k) /\ Unfinished(k)
    BY <1>1, <1>5, VerificationTransitions DEF BeginVerification
  <2>2. QED
    BY <1>2, <1>5, <2>1, GuardedPersistStep DEF BeginVerification
<1>6. CASE ContinueToNextStep(p)
  <2>1. \A k \in VerificationPassedContinue(mem[p], LvStep, FsStep, seen[p]) :
          Advances(mem[p], k) /\ Unfinished(k)
    BY <1>1, <1>6, VerificationTransitions DEF ContinueToNextStep
  <2>2. QED
    BY <1>2, <1>6, <2>1, GuardedPersistStep DEF ContinueToNextStep
<1>7. CASE Complete(p)
  <2>1. \A k \in VerificationPassedComplete(mem[p], FsStep, seen[p]) :
          Advances(mem[p], k)
    BY <1>1, <1>7, CompleteTransition DEF Complete
  <2>2. QED
    BY <1>2, <1>7, <2>1, GuardedPersistStep DEF Complete
<1>8. \A k \in Interrupted(mem[p]) :
        pc[p] \in InSessionStates =>
          Advances(mem[p], k) /\ (Unfinished(mem[p]) => Unfinished(k))
  BY <1>1, StopTransitions
<1>9. CASE Recover(p)
  BY <1>8, <1>9, GuardedPersistStep DEF Recover
<1>10. CASE InterruptOnError(p)
  <2>1. CASE IsTerminal(mem[p])
    BY <1>10, <2>1, QuietStep DEF InterruptOnError
  <2>2. CASE ~IsTerminal(mem[p])
    BY <1>8, <1>10, <2>2, GuardedPersistStep DEF InterruptOnError
  <2>3. QED
    BY <2>1, <2>2
<1>11. QED
  BY <1>3, <1>4, <1>5, <1>6, <1>7, <1>9, <1>10

(* Storage tools, with or without the invocation that started them.        *)
LEMMA ToolSteps ==
  ASSUME IInv, NEW id \in DOMAIN child,
         ToolWrites(id) \/ OrphanExits(id)
         \/ \E p \in Procs : ToolExits(p, id)
  PROVE  IInv'
<1>1. CASE ToolWrites(id) \/ OrphanExits(id)
  <2>1. /\ UNCHANGED <<storeVars, procVars, ran, shown>>
        /\ DOMAIN child' \subseteq DOMAIN child
    BY <1>1 DEF ToolWrites, OrphanExits, Without
  <2>2. ControlInv'
    BY <2>1 DEF IInv, ControlInv, procVars, storeVars, AllReadable
  <2>3. QED
    BY <2>1, <2>2, NoWriteStep DEF procVars
<1>2. ASSUME NEW p \in Procs, ToolExits(p, id)
      PROVE  IInv'
  <2>1. PICK to \in {"rediscover", "recovering"} :
          pc' = [pc EXCEPT ![p] = to]
    BY <1>2 DEF ToolExits
  <2>2. /\ pc[p] = "waiting" /\ mem[p].id = id
        /\ DOMAIN child' = DOMAIN child \ {id}
    BY <1>2 DEF ToolExits, Waiting, Without
  <2>3. QED
    BY <1>2, <2>1, <2>2, QuietStep
       DEF ToolExits, InSessionStates, Guarded, ControlStates
<1>3. QED
  BY <1>1, <1>2

(* The operator's reconciliation: only a journal before the boundary.      *)
LEMMA OperatorSteps ==
  ASSUME IInv, NEW o \in Operators,
         \/ \E id \in DOMAIN record : Show(o, id)
         \/ OperatorStep(o)
  PROVE  IInv'
<1>1. CASE \E id \in DOMAIN record : Show(o, id)
  <2>1. PICK id \in DOMAIN record : Show(o, id)
    BY <1>1
  <2>2. GoodJournal(record[id])
    BY DEF IInv, StoreInv
  <2>3. ControlInv'
    BY <2>1, <2>2 DEF Show, IInv, ControlInv, procVars, storeVars, AllReadable
  <2>4. QED
    BY <2>1, <2>3, NoWriteStep DEF Show, procVars
<1>2. CASE ReconcileLock(o)
  <2>1. \A q \in Procs : pc[q] \in {"idle", "planned"}
    BY <1>2, ApplyAssumption DEF ReconcileLock, IInv, ControlInv, ControlStates
  <2>2. ControlInv'
    BY <1>2, <2>1 DEF ReconcileLock, IInv, ControlInv
  <2>3. QED
    BY <1>2, <2>2, NoWriteStep DEF ReconcileLock
<1>3. CASE ReconcileRefused(o)
  <2>1. \A q \in Procs : lock = q => lock' = q
    BY <1>3, ApplyAssumption DEF ReconcileRefused
  <2>2. ControlInv'
    BY <1>3, <2>1 DEF ReconcileRefused, IInv, ControlInv, storeVars,
                      AllReadable
  <2>3. QED
    BY <1>3, <2>2, NoWriteStep DEF ReconcileRefused
<1>4. CASE ReconcileAbort(o)
  <2>1. PICK k \in Abort(shown[o]) :
          UpdateStored(shown[o], k) \/ UpdateFails(shown[o], k)
    BY <1>4 DEF ReconcileAbort
  <2>2. /\ lock = o /\ AllReadable /\ ~shown[o].mutated
        /\ UNCHANGED <<pc, mem, child, ran>>
    BY <1>4 DEF ReconcileAbort, Reconcilable
  <2>3. GoodJournal(shown[o])
    <3>1. shown[o] \in {record[id] : id \in DOMAIN record}
      BY <1>4 DEF ReconcileAbort, Matches, Exists
    <3>2. QED
      BY <3>1 DEF IInv, StoreInv
  <2>4. Advances(shown[o], k) /\ ~k.mutated
    BY <2>2, <2>3, StopTransitions
  <2>5. StoreInv' /\ WriteAheadInv'
    BY <2>1, <2>2, <2>3, <2>4, WriteKeepsDisk DEF IInv
  <2>6. /\ OneMutator'
        /\ \A id \in (unsynced \cap displaced)' :
             Unfinished(previous[id])' => Mutators' \subseteq {id}
        /\ \A a, b \in (unsynced \cap displaced)' : a = b
    BY <2>1, <2>2, <2>3, <2>4, WriteKeepsOneMutator DEF IInv, Unfinished
  <2>7. \A q \in Procs : pc[q] \in {"idle", "planned"}
    BY <2>2, ApplyAssumption DEF IInv, ControlInv
  <2>8. ControlInv'
    <3>1. shown' = [q \in Operators |-> shown'[q]]
          /\ \A q \in Operators : shown'[q] # None => GoodJournal(shown'[q])
      BY <1>4 DEF ReconcileAbort, IInv, ControlInv
    <3>2. QED
      BY <2>2, <2>7, <3>1 DEF IInv, ControlInv
  <2>9. QED
    BY <2>2, <2>5, <2>6, <2>7, <2>8 DEF IInv, OneMutatorInv, Quiet
<1>5. QED
  BY <1>1, <1>2, <1>3, <1>4 DEF OperatorStep

(* A host crash, whatever unsynced changes it undoes.                      *)
LEMMA HostCrashStep ==
  ASSUME IInv, HostCrash
  PROVE  IInv'
<1>1. /\ StoreInv' /\ WriteAheadInv' /\ OneMutator'
      /\ unsynced' = {} /\ DOMAIN child' = {}
  BY CrashKeepsDisk DEF HostCrash, IInv
<1>2. ControlInv'
  BY DEF HostCrash, ControlInv, ControlStates
<1>3. QED
  BY <1>1, <1>2 DEF IInv, OneMutatorInv, ControlInv, HostCrash

(* Every step of the program, of its tools and of its environment.         *)
LEMMA NextIInv == IInv /\ [Next]_vars => IInv'
<1> SUFFICES ASSUME IInv, [Next]_vars PROVE IInv'
  OBVIOUS
<1>1. ASSUME NEW p \in Procs, ProcStep(p)
      PROVE  IInv'
  BY <1>1, OutsideSteps, PublishStep, RevalidateStep, ApprovalSteps,
     SpawnStep, MutationSessionSteps DEF ProcStep
<1>2. ASSUME NEW p \in Procs, Crash(p) \/ \E t \in Targets : Plan(p, t)
      PROVE  IInv'
  BY <1>2, OutsideSteps
<1>3. ASSUME NEW o \in Operators,
             OperatorStep(o) \/ \E id \in DOMAIN record : Show(o, id)
      PROVE  IInv'
  BY <1>3, OperatorSteps
<1>4. ASSUME NEW id \in DOMAIN child, ToolWrites(id) \/ ToolStep(id)
      PROVE  IInv'
  BY <1>4, ToolSteps DEF ToolStep
<1>5. ASSUME NEW t \in Targets, Drift(t)
      PROVE  IInv'
  <2>1. ControlInv'
    BY <1>5 DEF Drift, IInv, ControlInv, procVars, storeVars, AllReadable
  <2>2. QED
    BY <1>5, <2>1, NoWriteStep DEF Drift, procVars
<1>6. CASE HostCrash
  BY <1>6, HostCrashStep
<1>7. CASE UNCHANGED vars
  <2>1. ControlInv'
    BY <1>7 DEF vars, IInv, ControlInv, procVars, storeVars, AllReadable
  <2>2. QED
    BY <1>7, <2>1, NoWriteStep DEF vars, procVars
<1>8. QED
  BY <1>1, <1>2, <1>3, <1>4, <1>5, <1>6, <1>7 DEF Next

-----------------------------------------------------------------------------
(* The inductive invariant holds in every behaviour.                       *)
THEOREM Inductive == Spec => []IInv
  BY InitIInv, NextIInv, PTL DEF Spec

(* Whatever fails or crashes, a storage tool that was ever spawned for a   *)
(* journal is known to the journal on disk (persist_execution_started      *)
(* before the spawn, persist_if_matches with its two directory syncs).     *)
THEOREM WriteAheadHolds == Spec => []WriteAhead
<1>1. IInv => WriteAhead
  BY DEF IInv, WriteAheadInv
<1>2. QED
  BY <1>1, Inductive, PTL

(* At most one journal of the host is unfinished past its mutation         *)
(* boundary, and every running storage tool, orphans included, belongs to  *)
(* it (begin_with_lock, require_current_durable_journal).                  *)
THEOREM OneMutatorHolds == Spec => []OneMutator
<1>1. IInv => OneMutator
  BY DEF IInv, OneMutatorInv
<1>2. QED
  BY <1>1, Inductive, PTL

-----------------------------------------------------------------------------
(* Type correctness.  It rests on the inductive invariant: that the        *)
(* journal of a session has the session's plan is known because a          *)
(* transition of a journal keeps its plan, and that a step transforms a    *)
(* journal at all because a session past Begin has one.                    *)

(* Type correctness, in parts: the storage, the disk, the sessions.        *)

DeviceTypes ==
  /\ dev \in [Targets -> Identities]
  /\ \A id \in DOMAIN ran : ran[id] \in [{LvStep, FsStep} -> Nat]

DiskTypes ==
  /\ \A id \in DOMAIN record : id.plan \in Plans
  /\ DOMAIN previous \subseteq DOMAIN record

SessionTypes ==
  /\ lock \in Procs \cup Operators \cup {Nobody}
  /\ plan \in [Procs -> Plans \cup {None}]
  /\ step \in [Procs -> {LvStep, FsStep}]
  /\ \A p \in Procs :
       /\ pc[p] # "idle" => plan[p] \in Plans
       /\ pc[p] \in {"idle", "planned", "begin"} => mem[p] = None
       /\ mem[p] # None \/ pc[p] \in InSessionStates =>
            mem[p].plan = plan[p] /\ mem[p].id.plan = plan[p]

TypeInv == DeviceTypes /\ DiskTypes /\ SessionTypes

(* Counting one more spawn of a step keeps the counters natural numbers.   *)
LEMMA Counted ==
  ASSUME NEW S, NEW f \in [S -> Nat], NEW d
  PROVE  [f EXCEPT ![d] = @ + 1] \in [S -> Nat]
<1>1. CASE d \in S
  <2>1. f[d] + 1 \in Nat
    BY <1>1
  <2>2. QED
    BY <1>1, <2>1
<1>2. CASE d \notin S
  <2>1. [f EXCEPT ![d] = @ + 1] = f
    BY <1>2
  <2>2. QED
    BY <2>1
<1>3. QED
  BY <1>1, <1>2

(* What discovery would find keeps its type in every step.                 *)
LEMMA DeviceTypesStep ==
  ASSUME DeviceTypes, [Next]_vars
  PROVE  DeviceTypes'
<1> USE ApplyAssumption DEF DeviceTypes, Identities
<1>1. CASE UNCHANGED <<dev, ran>>
  BY <1>1
<1>2. ASSUME NEW p \in Procs, Spawn(p)
      PROVE  DeviceTypes'
  <2>1. dev' = dev /\ ran' = With(ran, mem[p].id,
                                 [Ran(mem[p].id) EXCEPT ![step[p]] = @ + 1])
    BY <1>2 DEF Spawn
  <2>2. Ran(mem[p].id) \in [{LvStep, FsStep} -> Nat]
    BY DEF Ran, NoRuns
  <2>3. [Ran(mem[p].id) EXCEPT ![step[p]] = @ + 1] \in
          [{LvStep, FsStep} -> Nat]
    BY <2>2, Counted
  <2>4. QED
    BY <2>1, <2>3 DEF With
<1>3. ASSUME NEW id \in DOMAIN child, ToolWrites(id)
      PROVE  DeviceTypes'
  <2>1. ran' = ran
    BY <1>3 DEF ToolWrites
  <2>2. dev' \in [Targets -> Identities]
    BY <1>3 DEF ToolWrites
  <2>3. QED
    BY <2>1, <2>2
<1>4. ASSUME NEW t \in Targets, Drift(t)
      PROVE  DeviceTypes'
  <2>1. ran' = ran
    BY <1>4 DEF Drift
  <2>2. PICK grown \in {dev[t].lv, dev[t].lv + 1} \cap 0..MaxGrowth :
          dev' = [dev EXCEPT ![t] = [lv |-> grown, fs |-> dev[t].fs,
                                     drift |-> dev[t].drift + 1]]
    BY <1>4 DEF Drift
  <2>3. dev[t] \in Identities
    OBVIOUS
  <2>4. dev[t].fs \in 0..MaxGrowth /\ dev[t].drift + 1 \in 0..MaxDrift
    BY <1>4, <2>3 DEF Drift
  <2>5. [lv |-> grown, fs |-> dev[t].fs, drift |-> dev[t].drift + 1] \in
           Identities
    BY <2>2, <2>4
  <2>6. dev' \in [Targets -> Identities]
    BY <2>2, <2>5
  <2>7. QED
    BY <2>1, <2>6
<1>5. QED
  <2>1. ASSUME NEW p \in Procs, ProcStep(p), ~Spawn(p)
        PROVE  UNCHANGED <<dev, ran>>
    BY <2>1 DEF ProcStep, TakeLock, LockBusy, Begin, BeginRefused, Publish,
       Revalidate, Precondition, Approve, Recheck, Start, SpawnRefused,
       Rediscover, BeginVerification, ContinueToNextStep, Complete, Recover,
       InterruptOnError, Release
  <2>2. ASSUME NEW p \in Procs, Crash(p) \/ \E t \in Targets : Plan(p, t)
        PROVE  UNCHANGED <<dev, ran>>
    BY <2>2 DEF Crash, Plan
  <2>3. ASSUME NEW o \in Operators,
               OperatorStep(o) \/ \E id \in DOMAIN record : Show(o, id)
        PROVE  UNCHANGED <<dev, ran>>
    BY <2>3 DEF OperatorStep, ReconcileLock, ReconcileAbort, ReconcileRefused,
                Show
  <2>4. ASSUME NEW id \in DOMAIN child, ToolStep(id)
        PROVE  UNCHANGED <<dev, ran>>
    BY <2>4 DEF ToolStep, ToolExits, OrphanExits
  <2>5. CASE HostCrash \/ UNCHANGED vars
    BY <1>1, <2>5 DEF HostCrash, vars
  <2>6. QED
    BY <1>1, <1>2, <1>3, <1>4, <2>1, <2>2, <2>3, <2>4, <2>5 DEF Next

(* A write replaces a record that exists.                                  *)
LEMMA WriteKeepsNames ==
  ASSUME DiskTypes, NEW j, NEW k, UpdateStored(j, k) \/ UpdateFails(j, k)
  PROVE  DiskTypes'
  BY DEF DiskTypes, UpdateStored, UpdateFails, UpdateDisplaced, UpdateArchived,
         Matches, StagingLeft, Exists, Exchange, With, storeVars

(* The directory of the store and the spawn counters keep their types.     *)
LEMMA DiskTypesStep ==
  ASSUME DiskTypes, SessionTypes, IInv, [Next]_vars
  PROVE  DiskTypes'
<1>1. CASE UNCHANGED storeVars
  BY <1>1 DEF DiskTypes, storeVars
<1>2. ASSUME NEW p \in Procs, NEW next, NEW to, NEW failed,
             \/ Persist(p, next, to, failed)
             \/ PersistOk(p, next, to) \/ PersistFails(p, next, failed)
      PROVE  DiskTypes'
  BY <1>1, <1>2, WriteKeepsNames DEF Persist, PersistOk, PersistFails
<1>3. ASSUME NEW p \in Procs, Publish(p)
      PROVE  DiskTypes'
  <2>1. mem[p].id.plan \in Plans
    BY <1>3 DEF Publish, SessionTypes, InSessionStates, ControlStates
  <2>2. QED
    BY <1>1, <1>3, <2>1
       DEF Publish, NewStored, NewFails, NewUnsynced, StagingLeft, DiskTypes,
           With
<1>4. ASSUME NEW p \in Procs, ProcStep(p)
      PROVE  DiskTypes'
  <2>1. CASE Revalidate(p) \/ Precondition(p) \/ Approve(p) \/ Start(p)
             \/ BeginVerification(p) \/ ContinueToNextStep(p) \/ Complete(p)
             \/ Recover(p) \/ InterruptOnError(p)
    BY <1>1, <1>2, <2>1
       DEF Revalidate, Precondition, Approve, Start, BeginVerification,
           ContinueToNextStep, Complete, Recover, InterruptOnError
  <2>2. CASE TakeLock(p) \/ LockBusy(p) \/ Begin(p) \/ BeginRefused(p)
             \/ Recheck(p) \/ Spawn(p) \/ SpawnRefused(p) \/ Rediscover(p)
             \/ Release(p)
    BY <1>1, <2>2 DEF TakeLock, LockBusy, Begin, BeginRefused, Recheck, Spawn,
                      SpawnRefused, Rediscover, Release
  <2>3. QED
    BY <1>3, <1>4, <2>1, <2>2 DEF ProcStep
<1>5. ASSUME NEW p \in Procs, Crash(p) \/ \E t \in Targets : Plan(p, t)
      PROVE  DiskTypes'
  BY <1>1, <1>5 DEF Crash, Plan
<1>6. ASSUME NEW o \in Operators,
             OperatorStep(o) \/ \E id \in DOMAIN record : Show(o, id)
      PROVE  DiskTypes'
  BY <1>1, <1>6, WriteKeepsNames
     DEF OperatorStep, ReconcileLock, ReconcileAbort, ReconcileRefused, Show
<1>7. ASSUME NEW id \in DOMAIN child, ToolWrites(id) \/ ToolStep(id)
      PROVE  DiskTypes'
  BY <1>1, <1>7 DEF ToolWrites, ToolStep, ToolExits, OrphanExits
<1>8. ASSUME NEW t \in Targets, Drift(t)
      PROVE  DiskTypes'
  BY <1>1, <1>8 DEF Drift
<1>9. CASE HostCrash
  <2>1. PICK gone \in SUBSET created, lost \in SUBSET unsynced :
               LoseUnsynced(gone, lost)
    BY <1>9 DEF HostCrash, StoreCrash
  <2>2. QED
    BY <2>1 DEF LoseUnsynced, DiskTypes, Without
<1>10. QED
  BY <1>1, <1>4, <1>5, <1>6, <1>7, <1>8, <1>9 DEF Next, vars

(* A persisted journal keeps its plan, whichever state memory is left in.  *)
LEMMA PersistKeepsPlan ==
  ASSUME SessionTypes, IInv, NEW p \in Procs, NEW next,
         NEW to \in Guarded, NEW failed \in Guarded,
         pc[p] \in InSessionStates,
         \/ Persist(p, next, to, failed)
         \/ PersistOk(p, next, to) \/ PersistFails(p, next, failed),
         \A k \in next : Advances(mem[p], k),
         step' \in [Procs -> {LvStep, FsStep}],
         UNCHANGED <<lock, plan>>
  PROVE  SessionTypes'
<1>1. /\ pc' = [pc EXCEPT ![p] = to] \/ pc' = [pc EXCEPT ![p] = failed]
      /\ mem' = mem \/ \E k \in next : mem' = [mem EXCEPT ![p] = k]
  BY DEF Persist, PersistOk, PersistFails
<1>2. \A q \in Procs \ {p} : pc'[q] = pc[q] /\ mem'[q] = mem[q]
  BY <1>1 DEF IInv, ControlInv
<1>3. pc'[p] \in Guarded
  BY <1>1 DEF IInv, ControlInv
<1>4. mem[p].plan = plan[p] /\ mem[p].id.plan = plan[p]
  BY DEF SessionTypes
<1>5. mem'[p].plan = mem[p].plan /\ mem'[p].id = mem[p].id
  BY <1>1 DEF Advances, IInv, ControlInv
<1>6. pc[p] # "idle"
  BY DEF InSessionStates
<1>7. QED
  BY <1>2, <1>3, <1>4, <1>5, <1>6 DEF SessionTypes, Guarded

(* The steps of a session that write its journal keep plan and step typed. *)
LEMMA SessionTypesPersist ==
  ASSUME SessionTypes, IInv, NEW p \in Procs,
         \/ Revalidate(p) \/ Precondition(p) \/ Approve(p) \/ Start(p)
         \/ BeginVerification(p) \/ ContinueToNextStep(p) \/ Complete(p)
         \/ Recover(p)
         \/ InterruptOnError(p) /\ ~IsTerminal(mem[p])
  PROVE  SessionTypes'
<1> USE DEF InSessionStates, Guarded, ControlStates
<1>1. pc[p] \in InSessionStates => GoodJournal(mem[p])
  BY DEF IInv, ControlInv
<1>2. step \in [Procs -> {LvStep, FsStep}]
  BY DEF SessionTypes
<1>3. CASE Revalidate(p)
  <2>1. \A k \in IdentityRevalidated(mem[p], dev[plan[p].target]) :
          Advances(mem[p], k)
    BY <1>1, <1>3, EarlyTransitions DEF Revalidate
  <2>2. QED
    BY <1>2, <1>3, <2>1, PersistKeepsPlan DEF Revalidate
<1>4. CASE Precondition(p)
  <2>1. \A k \in PreconditionsVerified(mem[p]) : Advances(mem[p], k)
    BY <1>1, <1>4, EarlyTransitions DEF Precondition
  <2>2. QED
    BY <1>2, <1>4, <2>1, PersistKeepsPlan DEF Precondition
<1>5. CASE Approve(p)
  <2>1. \A k \in ExactPlanApproved(mem[p], plan[p], SessionApproval(p)) :
          Advances(mem[p], k)
    BY <1>1, <1>5, EarlyTransitions DEF Approve
  <2>2. QED
    BY <1>2, <1>5, <2>1, PersistKeepsPlan DEF Approve
<1>6. CASE Start(p)
  <2> DEFINE next == UNION {ExecutionStarted(mem[p], b) :
                              b \in BuildExecutionStart(mem[p], "manifest",
                                                        seen[p], Steps)}
  <2>1. \A k \in next : Advances(mem[p], k)
    BY <1>1, <1>6, StartTransition DEF Start
  <2>2. Persist(p, next, "ready", "failing")
    BY <1>6 DEF Start
  <2> HIDE DEF next
  <2>3. QED
    BY <1>2, <1>6, <2>1, <2>2, PersistKeepsPlan DEF Start
<1>7. CASE BeginVerification(p)
  <2>1. \A k \in VerificationStarted(mem[p]) : Advances(mem[p], k)
    BY <1>1, <1>7, VerificationTransitions DEF BeginVerification
  <2>2. QED
    BY <1>2, <1>7, <2>1, PersistKeepsPlan DEF BeginVerification
<1>8. CASE ContinueToNextStep(p)
  <2>1. \A k \in VerificationPassedContinue(mem[p], LvStep, FsStep, seen[p]) :
          Advances(mem[p], k)
    BY <1>1, <1>8, VerificationTransitions DEF ContinueToNextStep
  <2>2. step' \in [Procs -> {LvStep, FsStep}]
    BY <1>2, <1>8 DEF ContinueToNextStep
  <2>3. QED
    BY <1>8, <2>1, <2>2, PersistKeepsPlan DEF ContinueToNextStep
<1>9. CASE Complete(p)
  <2>1. \A k \in VerificationPassedComplete(mem[p], FsStep, seen[p]) :
          Advances(mem[p], k)
    BY <1>1, <1>9, CompleteTransition DEF Complete
  <2>2. QED
    BY <1>2, <1>9, <2>1, PersistKeepsPlan DEF Complete
<1>10. CASE \/ Recover(p)
            \/ InterruptOnError(p) /\ ~IsTerminal(mem[p])
  <2>1. \A k \in Interrupted(mem[p]) : Advances(mem[p], k)
    BY <1>1, <1>10, StopTransitions DEF Recover, InterruptOnError
  <2>2. QED
    BY <1>2, <1>10, <2>1, PersistKeepsPlan DEF Recover, InterruptOnError
<1>11. QED
  BY <1>3, <1>4, <1>5, <1>6, <1>7, <1>8, <1>9, <1>10

(* The steps before and after a session: planning, lock, begin, release.   *)
LEMMA SessionTypesOutside ==
  ASSUME SessionTypes, DeviceTypes, IInv, NEW p \in Procs,
         \/ \E t \in Targets : Plan(p, t)
         \/ TakeLock(p) \/ LockBusy(p) \/ Begin(p) \/ BeginRefused(p)
         \/ Publish(p) \/ Release(p) \/ Crash(p)
  PROVE  SessionTypes'
<1> USE DEF Goto, SessionTypes, InSessionStates, ControlStates
<1>1. pc \in [Procs -> ControlStates] /\ mem = [q \in Procs |-> mem[q]]
  BY DEF IInv, ControlInv
<1>2. ASSUME NEW t \in Targets, Plan(p, t)
      PROVE  SessionTypes'
  <2>1. [target |-> t, baseline |-> dev[t]] \in Plans
    BY DEF Plans, DeviceTypes
  <2>2. QED
    BY <1>1, <1>2, <2>1 DEF Plan
<1>3. CASE TakeLock(p)
  BY <1>1, <1>3 DEF TakeLock
<1>4. CASE LockBusy(p)
  BY <1>1, <1>4 DEF LockBusy
<1>5. CASE Begin(p)
  <2>1. PICK n \in 0..(MaxAttempts - 1) :
          \E j \in HostLockAcquired(NewJournal(JournalId(plan[p], n), plan[p],
                                                plan[p].baseline)) :
            mem' = [mem EXCEPT ![p] = j]
    BY <1>5 DEF Begin
  <2>2. PICK j \in HostLockAcquired(NewJournal(JournalId(plan[p], n), plan[p],
                                               plan[p].baseline)) :
          mem' = [mem EXCEPT ![p] = j]
    BY <2>1
  <2>3. j.plan = plan[p] /\ j.id.plan = plan[p]
    <3>1. j.plan = plan[p] /\ j.id = JournalId(plan[p], n)
      BY NewJournalGood
    <3>2. QED
      BY <3>1 DEF JournalId
  <2>4. QED
    BY <1>1, <1>5, <2>2, <2>3 DEF Begin
<1>6. CASE BeginRefused(p)
  BY <1>1, <1>6 DEF BeginRefused
<1>7. CASE Publish(p)
  BY <1>1, <1>7 DEF Publish
<1>8. CASE Release(p) \/ Crash(p)
  BY <1>1, <1>8 DEF Release, Crash, Forget
<1>9. QED
  BY <1>2, <1>3, <1>4, <1>5, <1>6, <1>7, <1>8

(* Steps that only move the control of a session.                          *)
LEMMA SessionTypesMove ==
  ASSUME SessionTypes, IInv, NEW p \in Procs, NEW to \in Guarded,
         pc[p] \in InSessionStates,
         pc' = [pc EXCEPT ![p] = to],
         UNCHANGED <<lock, plan, mem, step>>
  PROVE  SessionTypes'
  BY DEF SessionTypes, InSessionStates, Guarded, ControlStates, IInv,
         ControlInv

(* The sessions keep their types in every step of the system.              *)
LEMMA SessionTypesStep ==
  ASSUME SessionTypes, DeviceTypes, IInv, [Next]_vars
  PROVE  SessionTypes'
<1>1. CASE UNCHANGED <<lock, plan, step, pc, mem>>
  BY <1>1 DEF SessionTypes
<1>2. ASSUME NEW p \in Procs, ProcStep(p)
      PROVE  SessionTypes'
  <2>1. CASE \/ Recheck(p) \/ Spawn(p) \/ SpawnRefused(p) \/ Rediscover(p)
             \/ InterruptOnError(p) /\ IsTerminal(mem[p])
    <3>1. /\ pc[p] \in InSessionStates
          /\ UNCHANGED <<lock, plan, mem, step>>
      BY <2>1 DEF Recheck, Spawn, SpawnRefused, Rediscover, InterruptOnError,
                     InSessionStates, ControlStates
    <3>2. \E to \in Guarded : pc' = [pc EXCEPT ![p] = to]
      BY <2>1 DEF Recheck, Spawn, SpawnRefused, Rediscover, InterruptOnError,
                     Guarded, ControlStates
    <3>3. QED
      BY <3>1, <3>2, SessionTypesMove
  <2>2. CASE \/ Revalidate(p) \/ Precondition(p) \/ Approve(p) \/ Start(p)
             \/ BeginVerification(p) \/ ContinueToNextStep(p) \/ Complete(p)
             \/ Recover(p)
             \/ InterruptOnError(p) /\ ~IsTerminal(mem[p])
    BY <2>2, SessionTypesPersist
  <2>3. CASE TakeLock(p) \/ LockBusy(p) \/ Begin(p) \/ BeginRefused(p)
             \/ Publish(p) \/ Release(p)
    BY <2>3, SessionTypesOutside
  <2>4. CASE InterruptOnError(p)
    <3>1. CASE IsTerminal(mem[p])
      BY <2>1, <2>4, <3>1
    <3>2. CASE ~IsTerminal(mem[p])
      BY <2>2, <2>4, <3>2
    <3>3. QED
      BY <3>1, <3>2
  <2>5. QED
    BY <1>2, <2>1, <2>2, <2>3, <2>4, Zenon DEF ProcStep
<1>3. ASSUME NEW p \in Procs, Crash(p) \/ \E t \in Targets : Plan(p, t)
      PROVE  SessionTypes'
  BY <1>3, SessionTypesOutside
<1>4. ASSUME NEW o \in Operators,
             OperatorStep(o) \/ \E id \in DOMAIN record : Show(o, id)
      PROVE  SessionTypes'
  BY <1>1, <1>4
     DEF OperatorStep, ReconcileLock, ReconcileAbort, ReconcileRefused, Show,
         procVars, SessionTypes
<1>5. ASSUME NEW id \in DOMAIN child, ToolWrites(id) \/ ToolStep(id)
      PROVE  SessionTypes'
  <2>1. CASE ToolWrites(id) \/ OrphanExits(id)
    BY <1>1, <2>1 DEF ToolWrites, OrphanExits, procVars
  <2>2. ASSUME NEW p \in Procs, ToolExits(p, id)
        PROVE  SessionTypes'
    <3>1. \E to \in Guarded : pc' = [pc EXCEPT ![p] = to]
      BY <2>2 DEF ToolExits, Guarded, ControlStates
    <3>2. QED
      BY <2>2, <3>1, SessionTypesMove
         DEF ToolExits, Waiting, InSessionStates, ControlStates
  <2>3. QED
    BY <1>5, <2>1, <2>2 DEF ToolStep
<1>6. ASSUME NEW t \in Targets, Drift(t)
      PROVE  SessionTypes'
  BY <1>1, <1>6 DEF Drift, procVars
<1>7. CASE HostCrash
  BY <1>7 DEF HostCrash, SessionTypes, InSessionStates
<1>8. QED
  BY <1>1, <1>2, <1>3, <1>4, <1>5, <1>6, <1>7 DEF Next, vars, procVars

(* The types, and that a session's journal has the session's plan, hold in *)
(* every behaviour.                                                        *)
THEOREM TypeInductive == Spec => []TypeInv
<1>1. Init => TypeInv
  <2> SUFFICES ASSUME Init PROVE TypeInv
    OBVIOUS
  <2>1. [lv |-> 0, fs |-> 0, drift |-> 0] \in Identities
    BY ApplyAssumption DEF Identities
  <2>2. DeviceTypes
    BY <2>1 DEF Init, DeviceTypes
  <2>3. DiskTypes /\ SessionTypes
    BY DEF Init, StoreInit, DiskTypes, SessionTypes, InSessionStates
  <2>4. QED
    BY <2>2, <2>3 DEF TypeInv
<1>2. IInv /\ TypeInv /\ [Next]_vars => TypeInv'
  BY DeviceTypesStep, DiskTypesStep, SessionTypesStep DEF TypeInv
<1>3. QED
  BY <1>1, <1>2, Inductive, PTL DEF Spec

(* Every variable keeps its type in every behaviour: the control states    *)
(* and the journals of the sessions, the storage, and the records on disk. *)
THEOREM TypeCorrect == Spec => []TypeOK
<1>1. IInv /\ TypeInv => TypeOK
  BY DEF IInv, ControlInv, ControlStates, StoreInv, TypeInv, DeviceTypes,
         DiskTypes, SessionTypes, TypeOK
<1>2. QED
  BY <1>1, Inductive, TypeInductive, PTL

-----------------------------------------------------------------------------
(* What a session may rely on: that its journal in memory never gets ahead *)
(* of the one on disk, that no mutation step is ever run twice for a plan, *)
(* and that a completed journal proves both layers.                        *)

(* What the durable journals say of the runs, in parts.                    *)

EventCodes == {"host-lock-acquired", "identity-revalidated",
               "preconditions-verified", "exact-plan-approved",
               "execution-started", "verification-started",
               "verification-passed-continue",
               "verification-passed-complete",
               "interrupted-after-mutation-boundary",
               "interrupted-before-mutation",
               "abort-after-mutation-boundary", "aborted"}
EventTypes == [from : Phases, to : Phases, code : EventCodes]

HasHistory(j) == j.phase \in Phases /\ j.events \in Seq(EventTypes)

IsBoundary(b) ==
  b = [schema |-> b.schema, execution |-> b.execution,
       completed |-> b.completed, next |-> b.next, identity |-> b.identity,
       final |-> b.final, finalIdentity |-> b.finalIdentity, id |-> b.id]

(* The logical volume was verified, and the boundary after it is on record.*)
Continued(j) ==
  /\ HasEvent(j, "verification-passed-continue")
  /\ IsBoundary(j.boundary)
  /\ j.boundary.completed = LvStep

LvOnly == [s \in {LvStep, FsStep} |-> IF s = LvStep THEN 1 ELSE 0]
Both   == [s \in {LvStep, FsStep} |-> 1]

(* The volume has the planned size in identity i.                          *)
VolumeGrown(pl, i) == i.lv = After(pl.baseline, LvStep).lv

(* In identity i the filesystem has grown within the volume of identity b. *)
FilesystemGrown(b, i) == i.lv = b.lv /\ b.fs < i.fs

(* A journal that is or may come to be the one on disk agrees with what    *)
(* was spawned for it.                                                     *)
DiskAgrees(j, runs) ==
  /\ HasHistory(j)
  /\ j.plan = j.id.plan /\ j.baseline = j.plan.baseline
  /\ runs[FsStep] > 0 => Continued(j)
  /\ j.phase = "Completed" =>
       /\ VolumeGrown(j.plan, j.boundary.identity)
       /\ FilesystemGrown(j.boundary.identity, j.boundary.finalIdentity)
       /\ runs = Both

DiskReplayInv ==
  /\ \A id \in DOMAIN record : DiskAgrees(record[id], Ran(id))
  /\ \A id \in unsynced \cap displaced : DiskAgrees(previous[id], Ran(id))

(* No step was spawned twice, the second only after the first, and for one *)
(* plan there is one journal with spawns.                                  *)
RanInv ==
  /\ \A id \in DOMAIN ran : ran[id] \in {LvOnly, Both}
  /\ \A a, b \in DOMAIN ran : a.plan = b.plan => a = b

Advancing == {"ready", "waiting", "rediscover", "proved", "closing"}

(* How far the session of p has come, in memory and in spawns.             *)
Progress(p) ==
  LET j == mem[p]
  IN  /\ j.execution.steps = Steps
      /\ step[p] = LvStep =>
           IF pc[p] = "ready" THEN j.id \notin DOMAIN ran
                              ELSE Ran(j.id) = LvOnly
      /\ step[p] = FsStep =>
           /\ Ran(j.id) = IF pc[p] = "ready" THEN LvOnly ELSE Both
           /\ Continued(j)
           /\ VolumeGrown(j.plan, j.boundary.identity)
      /\ pc[p] \in {"proved", "closing"} =>
           IF step[p] = LvStep
           THEN VolumeGrown(j.plan, seen[p])
           ELSE FilesystemGrown(j.boundary.identity, seen[p])
      /\ pc[p] \in {"ready", "waiting", "rediscover"} /\ step[p] = FsStep =>
           seen[p] = j.boundary.identity

(* The journal of a session is the one on disk, or the disk is one failed  *)
(* update ahead.                                                           *)
OnDisk(j) ==
  /\ Exists(j.id)
  /\ \/ record[j.id] = j
     \/ j.id \in DOMAIN previous /\ previous[j.id] = j

SessionAgrees(p) ==
  /\ pc[p] = "publish" \/ InSession(p) =>
       /\ HasHistory(mem[p])
       /\ mem[p].phase # "Completed"
       /\ mem[p].plan = mem[p].id.plan
       /\ mem[p].baseline = mem[p].plan.baseline
  /\ InSession(p) => OnDisk(mem[p])
  /\ pc[p] \in Advancing => Progress(p)

SessionReplayInv ==
  /\ seen = [p \in Procs |-> seen[p]]
  /\ \A p \in Procs : SessionAgrees(p)

ReplayInv == DiskReplayInv /\ RanInv /\ SessionReplayInv

-----------------------------------------------------------------------------
(* What the transitions of the journal keep.                               *)

(* k is a later state of j for the same baseline, with its history.        *)
Follows(j, k) ==
  /\ k.id = j.id /\ k.plan = j.plan /\ k.baseline = j.baseline
  /\ HasHistory(k)
  /\ Continued(j) => Continued(k)

(* push_event: k is j with one more event.                                 *)
Pushed(j, k, to, code) ==
  /\ IsJournal(k)
  /\ k.id = j.id /\ k.plan = j.plan /\ k.baseline = j.baseline
  /\ k.phase = to
  /\ k.events = Append(j.events,
                       [from |-> j.phase, to |-> to, code |-> code])

(* push_event adds one event and takes none away.                          *)
LEMMA Appended ==
  ASSUME NEW j, HasHistory(j), NEW to \in Phases, NEW code \in EventCodes,
         NEW k, Pushed(j, k, to, code)
  PROVE  /\ HasHistory(k)
         /\ HasEvent(k, code)
         /\ \A c : HasEvent(j, c) => HasEvent(k, c)
<1> DEFINE e == [from |-> j.phase, to |-> to, code |-> code]
<1>1. e \in EventTypes /\ e.code = code
  BY DEF EventTypes, HasHistory
<1>2. k.events = Append(j.events, e) /\ k.phase = to
  BY DEF Pushed
<1> HIDE DEF e
<1>3. /\ k.events \in Seq(EventTypes)
      /\ Len(k.events) = Len(j.events) + 1
      /\ k.events[Len(j.events) + 1] = e
      /\ \A i \in 1..Len(j.events) : k.events[i] = j.events[i]
  BY <1>1, <1>2 DEF HasHistory
<1>4. /\ DOMAIN j.events = 1..Len(j.events)
      /\ DOMAIN k.events = 1..(Len(j.events) + 1)
      /\ Len(j.events) \in Nat
  BY <1>3 DEF HasHistory
<1>5. HasEvent(k, code)
  BY <1>1, <1>3, <1>4 DEF HasEvent
<1>6. QED
  BY <1>2, <1>3, <1>4, <1>5 DEF HasHistory, HasEvent

(* What push_event leaves of a journal.                                    *)
LEMMA AdvancePushes ==
  ASSUME NEW j, IsJournal(j), NEW to, NEW code, NEW k,
         k = Advance(j, to, code)
  PROVE  Pushed(j, k, to, code) /\ k.boundary = j.boundary
<1>1. k.events = Append(j.events,
                        [from |-> j.phase, to |-> to, code |-> code])
  BY DEF Advance, IsJournal
<1>2. /\ IsJournal(k) /\ k.phase = to /\ k.id = j.id /\ k.plan = j.plan
      /\ k.baseline = j.baseline /\ k.boundary = j.boundary
  BY DEF Advance, IsJournal
<1>3. QED
  BY <1>1, <1>2 DEF Pushed

(* A transition that leaves the boundary alone.                            *)
LEMMA PushedFollows ==
  ASSUME NEW j, HasHistory(j), NEW to \in Phases, NEW code \in EventCodes,
         NEW k, Pushed(j, k, to, code), k.boundary = j.boundary
  PROVE  Follows(j, k) /\ k.phase = to
  BY Appended DEF Follows, Continued, Pushed

(* Every transition but the last keeps what is on record of the volume.    *)
LEMMA TransitionsFollow ==
  ASSUME NEW j, GoodJournal(j), HasHistory(j), NEW fresh, NEW pl, NEW a,
         NEW b, NEW k,
         \/ k \in IdentityRevalidated(j, fresh)
         \/ k \in PreconditionsVerified(j)
         \/ k \in ExactPlanApproved(j, pl, a)
         \/ k \in ExecutionStarted(j, b)
         \/ k \in VerificationStarted(j)
         \/ k \in Interrupted(j)
         \/ k \in Abort(j)
  PROVE  /\ Follows(j, k) /\ k.phase # "Completed"
         /\ k.boundary = j.boundary
<1>1. IsJournal(j)
  BY DEF GoodJournal
<1>2. ASSUME NEW to \in Phases, NEW code \in EventCodes, to # "Completed",
             k = Advance(j, to, code)
      PROVE  Follows(j, k) /\ k.phase # "Completed" /\ k.boundary = j.boundary
  BY <1>1, <1>2, AdvancePushes, PushedFollows
<1>3. CASE k \in ExactPlanApproved(j, pl, a)
  <2> DEFINE m == Advance(j, "Approved", "exact-plan-approved")
  <2>1. Pushed(j, m, "Approved", "exact-plan-approved")
        /\ m.boundary = j.boundary
    BY <1>1, AdvancePushes
  <2>2. k = [m EXCEPT !.approval = a]
    BY <1>3 DEF ExactPlanApproved, Ok
  <2> HIDE DEF m
  <2>3. Pushed(j, k, "Approved", "exact-plan-approved")
        /\ k.boundary = j.boundary
    BY <2>1, <2>2 DEF Pushed, IsJournal
  <2>4. QED
    BY <2>3, PushedFollows DEF Phases, EventCodes
<1>4. CASE k \in ExecutionStarted(j, b)
  <2> DEFINE m == Advance(j, "Executing", "execution-started")
  <2>1. Pushed(j, m, "Executing", "execution-started")
        /\ m.boundary = j.boundary
    BY <1>1, AdvancePushes
  <2>2. k = [m EXCEPT !.mutated = TRUE, !.execution = b]
    BY <1>4 DEF ExecutionStarted, Ok
  <2> HIDE DEF m
  <2>3. Pushed(j, k, "Executing", "execution-started")
        /\ k.boundary = j.boundary
    BY <2>1, <2>2 DEF Pushed, IsJournal
  <2>4. QED
    BY <2>3, PushedFollows DEF Phases, EventCodes
<1>5. CASE k \in IdentityRevalidated(j, fresh)
  BY <1>2, <1>5 DEF IdentityRevalidated, Ok, Phases, EventCodes
<1>6. CASE k \in PreconditionsVerified(j)
  BY <1>2, <1>6 DEF PreconditionsVerified, Ok, Phases, EventCodes
<1>7. CASE k \in VerificationStarted(j)
  BY <1>2, <1>7 DEF VerificationStarted, Ok, Phases, EventCodes
<1>8. CASE k \in Interrupted(j)
  BY <1>2, <1>8 DEF Interrupted, Ok, Phases, EventCodes
<1>9. CASE k \in Abort(j)
  BY <1>2, <1>9 DEF Abort, Ok, Phases, EventCodes
<1>10. QED
  BY <1>3, <1>4, <1>5, <1>6, <1>7, <1>8, <1>9

(* The step to the filesystem puts the boundary after the volume on record.*)
LEMMA ContinueFollows ==
  ASSUME NEW j, GoodJournal(j), HasHistory(j), NEW fresh,
         NEW k \in VerificationPassedContinue(j, LvStep, FsStep, fresh)
  PROVE  /\ Follows(j, k) /\ k.phase # "Completed"
         /\ Continued(k) /\ k.boundary.identity = fresh
<1> DEFINE b == VerifiedBoundary(j.execution.id, LvStep, FsStep, fresh)
           code == "verification-passed-continue"
           m == Advance(j, "Executing", code)
<1>1. k = [m EXCEPT !.boundary = b]
  BY DEF VerificationPassedContinue, Ok
<1>2. IsBoundary(b) /\ b.completed = LvStep /\ b.identity = fresh
  BY DEF VerifiedBoundary, IsBoundary
<1>3. Pushed(j, m, "Executing", code)
  BY AdvancePushes DEF GoodJournal
<1> HIDE DEF b, m
<1>4. Pushed(j, k, "Executing", code) /\ k.boundary = b
  BY <1>1, <1>3 DEF Pushed, IsJournal
<1>5. HasHistory(k) /\ HasEvent(k, code)
  BY <1>4, Appended DEF Phases, EventCodes
<1>6. QED
  BY <1>2, <1>4, <1>5 DEF Follows, Continued, Pushed

(* What the end makes of the boundary, before its ID.                      *)
Finalized(o, fresh) ==
  [o EXCEPT !.schema = 2, !.final = FsStep, !.finalIdentity = fresh]

(* The boundary stays one when the end fills it in                         *)
(* (verification_passed_complete).                                         *)
LEMMA FinalBoundary ==
  ASSUME NEW o, IsBoundary(o), NEW fresh, NEW f, f = Finalized(o, fresh)
  PROVE  /\ IsBoundary(f) /\ f.completed = o.completed
         /\ f.identity = o.identity /\ f.finalIdentity = fresh
  BY DEF IsBoundary, Finalized

(* The end adds the final identity to that boundary.                       *)
LEMMA CompleteFollows ==
  ASSUME NEW j, GoodJournal(j), HasHistory(j), Continued(j), NEW fresh,
         NEW k \in VerificationPassedComplete(j, FsStep, fresh)
  PROVE  /\ Follows(j, k)
         /\ k.boundary.identity = j.boundary.identity
         /\ k.boundary.finalIdentity = fresh
<1> DEFINE o == j.boundary
           final == Finalized(o, fresh)
           b == [final EXCEPT !.id = BoundaryId(final)]
           code == "verification-passed-complete"
           m == Advance(j, "Completed", code)
<1>1. k = [m EXCEPT !.boundary = b]
  BY DEF VerificationPassedComplete, Ok, Finalized
<1>2. IsBoundary(o) /\ o = j.boundary
  BY DEF Continued
<1> HIDE DEF o
<1>3. /\ IsBoundary(final) /\ final.completed = o.completed
      /\ final.identity = o.identity /\ final.finalIdentity = fresh
  BY <1>2, FinalBoundary
<1>4. Pushed(j, m, "Completed", code)
  BY AdvancePushes DEF GoodJournal
<1> HIDE DEF final
<1>5. /\ IsBoundary(b) /\ b.completed = o.completed
      /\ b.identity = o.identity /\ b.finalIdentity = fresh
  BY <1>3 DEF IsBoundary
<1> HIDE DEF b, m
<1>6. Pushed(j, k, "Completed", code) /\ k.boundary = b
  BY <1>1, <1>4 DEF Pushed, IsJournal
<1>7. HasHistory(k) /\ \A c : HasEvent(j, c) => HasEvent(k, c)
  BY <1>6, Appended DEF Phases, EventCodes
<1>8. QED
  BY <1>2, <1>5, <1>6, <1>7 DEF Follows, Continued, Pushed

(* A new journal has no history but that the lock is held.                 *)
LEMMA NewJournalAgrees ==
  ASSUME NEW pl, NEW n,
         NEW k \in HostLockAcquired(NewJournal(JournalId(pl, n), pl,
                                               pl.baseline))
  PROVE  /\ HasHistory(k) /\ k.phase # "Completed"
         /\ k.plan = k.id.plan /\ k.baseline = k.plan.baseline
<1> DEFINE j == NewJournal(JournalId(pl, n), pl, pl.baseline)
<1>1. /\ j.phase = "Planned" /\ j.events = <<>> /\ IsJournal(j)
      /\ j.id = JournalId(pl, n) /\ j.plan = pl /\ j.baseline = pl.baseline
  BY DEF NewJournal, IsJournal
<1>2. k = Advance(j, "HostLockHeld", "host-lock-acquired")
  BY DEF HostLockAcquired, Ok
<1> HIDE DEF j
<1>3. HasHistory(j)
  BY <1>1 DEF HasHistory, Phases
<1>4. Pushed(j, k, "HostLockHeld", "host-lock-acquired")
  BY <1>1, <1>2, AdvancePushes
<1>5. HasHistory(k)
  BY <1>3, <1>4, Appended DEF Phases, EventCodes
<1>6. QED
  BY <1>1, <1>4, <1>5 DEF JournalId, Pushed

-----------------------------------------------------------------------------
(* What the store's writes do to what is on disk.                          *)

(* A later state that is not the last agrees with the same spawns.         *)
LEMMA FollowsAgrees ==
  ASSUME NEW j, NEW k, NEW runs, DiskAgrees(j, runs), Follows(j, k),
         k.phase # "Completed"
  PROVE  DiskAgrees(k, runs)
  BY DEF DiskAgrees, Follows

(* Every update starts from a directory without staging files, and from    *)
(* the journal it replaces.                                                *)
LEMMA UpdateKeepsReplay ==
  ASSUME DiskReplayInv, AllReadable, NEW j, NEW k, k.id = j.id,
         UpdateStored(j, k) \/ UpdateFails(j, k),
         Matches(j, k) => DiskAgrees(k, Ran(k.id)),
         ran' = ran
  PROVE  DiskReplayInv'
<1>1. \A id : Ran(id)' = Ran(id)
  BY DEF Ran
<1>2. CASE UNCHANGED storeVars
  BY <1>1, <1>2 DEF storeVars, DiskReplayInv
<1>3. CASE Matches(j, k) /\ StagingLeft(k)
  BY <1>1, <1>3 DEF StagingLeft, DiskReplayInv, AllReadable
<1>4. CASE UpdateStored(j, k) \/ UpdateDisplaced(j, k) \/ UpdateArchived(j, k)
  <2>1. /\ Matches(j, k) /\ record[k.id] = j
        /\ DOMAIN record' = DOMAIN record \cup {k.id}
        /\ \A id \in DOMAIN record' :
             record'[id] = IF id = k.id THEN k ELSE record[id]
        /\ previous'[k.id] = j
        /\ displaced' \subseteq {k.id}
        /\ Exists(k.id)
    BY <1>4 DEF UpdateStored, UpdateDisplaced, UpdateArchived, Matches,
                Exists, Exchange, With, AllReadable
  <2>2. QED
    BY <1>1, <2>1 DEF DiskReplayInv, Exists
<1>5. QED
  BY <1>2, <1>3, <1>4 DEF UpdateFails

(* Nothing was spawned for a new journal.                                  *)
LEMMA NewKeepsReplay ==
  ASSUME DiskReplayInv, WriteAhead, AllReadable, NEW k, HasHistory(k),
         k.phase # "Completed", k.plan = k.id.plan,
         k.baseline = k.plan.baseline,
         NewStored(k) \/ NewFails(k), ran' = ran
  PROVE  DiskReplayInv'
<1>1. \A id : Ran(id)' = Ran(id)
  BY DEF Ran
<1>2. CASE UNCHANGED storeVars
  BY <1>1, <1>2 DEF storeVars, DiskReplayInv
<1>3. CASE StagingLeft(k)
  BY <1>1, <1>3 DEF StagingLeft, DiskReplayInv, AllReadable
<1>4. CASE NewStored(k) \/ NewUnsynced(k)
  <2>1. /\ k.id \notin DOMAIN record
        /\ DOMAIN record' = DOMAIN record \cup {k.id}
        /\ \A id \in DOMAIN record' :
             record'[id] = IF id = k.id THEN k ELSE record[id]
        /\ displaced' = {}
    BY <1>4 DEF NewStored, NewUnsynced, Exists, With, AllReadable
  <2>2. Ran(k.id) = NoRuns
    BY <2>1 DEF WriteAhead, Exists, Ran
  <2>3. DiskAgrees(k, Ran(k.id))
    BY <2>2 DEF DiskAgrees, NoRuns, LvStep, FsStep
  <2>4. QED
    BY <1>1, <2>1, <2>3 DEF DiskReplayInv
<1>5. QED
  BY <1>2, <1>3, <1>4 DEF NewFails

(* A host crash restores at most what an unsynced exchange displaced.      *)
LEMMA CrashKeepsReplay ==
  ASSUME DiskReplayInv, StoreCrash, ran' = ran
  PROVE  DiskReplayInv'
<1>1. PICK gone \in SUBSET created, lost \in SUBSET unsynced :
              LoseUnsynced(gone, lost)
  BY DEF StoreCrash
<1>2. /\ DOMAIN record' \subseteq DOMAIN record
      /\ \A id \in DOMAIN record' :
           \/ record'[id] = record[id]
           \/ id \in unsynced \cap displaced /\ record'[id] = previous[id]
      /\ unsynced' = {}
  BY <1>1 DEF LoseUnsynced
<1>3. \A id : Ran(id)' = Ran(id)
  BY DEF Ran
<1>4. QED
  BY <1>2, <1>3 DEF DiskReplayInv

-----------------------------------------------------------------------------
(* Sessions.                                                               *)

Outside == {"idle", "planned", "begin", "release"}

(* Nothing is asked of an invocation that has no session.                  *)
LEMMA OutsideAgrees ==
  ASSUME NEW p \in Procs, pc'[p] \in Outside
  PROVE  SessionAgrees(p)'
  BY DEF SessionAgrees, InSession, Outside, Advancing

(* A session that does not move agrees as long as the disk and the spawns  *)
(* do not change.                                                          *)
LEMMA UnmovedAgrees ==
  ASSUME NEW p \in Procs, SessionAgrees(p),
         pc'[p] = pc[p], mem'[p] = mem[p], step'[p] = step[p],
         seen'[p] = seen[p], UNCHANGED <<record, previous, ran>>
  PROVE  SessionAgrees(p)'
  BY DEF SessionAgrees, InSession, OnDisk, Exists, Progress, Ran

(* The others have no session while p has one.                             *)
LEMMA OthersOutside ==
  ASSUME IInv, NEW p \in Procs, pc[p] \in InSessionStates
  PROVE  lock = p /\ \A q \in Procs \ {p} : pc[q] \in Outside
<1>1. lock = p
  BY DEF IInv, ControlInv, InSessionStates
<1>2. QED
  BY <1>1, Alone DEF IInv, Outside

(* It is enough to look at the session that moves.                         *)
LEMMA OnlySession ==
  ASSUME IInv, NEW p \in Procs, pc[p] \in InSessionStates,
         \A q \in Procs \ {p} : pc'[q] = pc[q],
         seen' = [q \in Procs |-> seen'[q]],
         SessionAgrees(p)'
  PROVE  SessionReplayInv'
<1>1. \A q \in Procs \ {p} : SessionAgrees(q)'
  BY OthersOutside, OutsideAgrees
<1>2. QED
  BY <1>1 DEF SessionReplayInv

(* The journal has the session's plan and says so under its own name.      *)
HasPlan(j) ==
  j.plan = j.id.plan /\ j.baseline = j.plan.baseline

(* A step of an invocation under the lock that persists a transition.      *)
LEMMA ReplayPersist ==
  ASSUME IInv, ReplayInv, NEW p \in Procs, NEW next,
         NEW to \in Guarded, NEW failed \in Guarded \ Advancing,
         pc[p] \in InSessionStates \ {"publish"},
         AllReadable,
         PersistOk(p, next, to) \/ PersistFails(p, next, failed),
         UNCHANGED <<ran, seen>>,
         \A k \in next :
           /\ Advances(mem[p], k) /\ Follows(mem[p], k)
           /\ to # "release" => k.phase # "Completed"
           /\ Matches(mem[p], k) => DiskAgrees(k, Ran(k.id)),
         \A k \in next :
           Matches(mem[p], k) /\ mem'[p] = k /\ pc'[p] = to
             /\ to \in Advancing => Progress(p)'
  PROVE  ReplayInv'
<1>1. pc \in [Procs -> ControlStates] /\ mem = [q \in Procs |-> mem[q]]
  BY DEF IInv, ControlInv
<1>2. /\ HasHistory(mem[p]) /\ mem[p].phase # "Completed"
      /\ HasPlan(mem[p]) /\ OnDisk(mem[p])
  BY DEF ReplayInv, SessionReplayInv, SessionAgrees, InSession,
         InSessionStates, HasPlan
<1>3. ASSUME NEW k \in next, UpdateStored(mem[p], k) \/ UpdateFails(mem[p], k)
      PROVE  DiskReplayInv'
  <2>1. k.id = mem[p].id
    BY DEF Advances
  <2>2. QED
    BY <1>3, <2>1, UpdateKeepsReplay DEF ReplayInv
<1>4. CASE PersistOk(p, next, to)
  <2>1. PICK k \in next : /\ UpdateStored(mem[p], k)
                          /\ mem' = [mem EXCEPT ![p] = k]
                          /\ pc' = [pc EXCEPT ![p] = to]
    BY <1>4 DEF PersistOk
  <2>2. mem'[p] = k /\ pc'[p] = to /\ Matches(mem[p], k)
    BY <1>1, <2>1 DEF UpdateStored
  <2>3. OnDisk(mem[p])'
    BY <2>1, <2>2 DEF UpdateStored, Exchange, With, OnDisk, Exists
  <2>4. HasHistory(k) /\ HasPlan(k)
    BY <1>2 DEF Follows, HasPlan
  <2>5. SessionAgrees(p)'
    BY <2>2, <2>3, <2>4 DEF SessionAgrees, InSession, HasPlan, Guarded
  <2>6. SessionReplayInv'
    BY <1>1, <2>1, <2>5, OnlySession
       DEF ReplayInv, SessionReplayInv, InSessionStates
  <2>7. DiskReplayInv'
    BY <1>3, <2>1
  <2>8. QED
    BY <2>6, <2>7 DEF ReplayInv, RanInv
<1>5. CASE PersistFails(p, next, failed)
  <2>1. /\ mem' = mem /\ pc' = [pc EXCEPT ![p] = failed]
        /\ pc'[p] = failed
    BY <1>1, <1>5 DEF PersistFails
  <2>2. DiskReplayInv' /\ OnDisk(mem[p])'
    <3>1. CASE UNCHANGED storeVars
      <4>1. \A id : Ran(id)' = Ran(id)
        BY DEF Ran
      <4>2. DiskReplayInv'
        BY <3>1, <4>1 DEF ReplayInv, DiskReplayInv, storeVars
      <4>3. QED
        BY <1>2, <2>1, <3>1, <4>2 DEF OnDisk, Exists, storeVars
    <3>2. ASSUME NEW k \in next, UpdateFails(mem[p], k), ~UNCHANGED storeVars
          PROVE  DiskReplayInv' /\ OnDisk(mem[p])'
      <4>1. k.id = mem[p].id
        BY DEF Advances
      <4>2. OnDisk(mem[p])'
        BY <1>2, <2>1, <3>2, <4>1
           DEF UpdateFails, UpdateDisplaced, UpdateArchived, Matches,
               StagingLeft, Exchange, With, OnDisk, Exists
      <4>3. QED
        BY <1>3, <3>2, <4>2
    <3>3. QED
      BY <1>5, <3>1, <3>2 DEF PersistFails
  <2>3. SessionAgrees(p)'
    BY <1>2, <2>1, <2>2 DEF SessionAgrees, InSession, HasPlan
  <2>4. SessionReplayInv'
    BY <1>1, <2>1, <2>3, OnlySession
       DEF ReplayInv, SessionReplayInv, InSessionStates
  <2>5. QED
    BY <2>2, <2>4 DEF ReplayInv, RanInv
<1>6. QED
  BY <1>4, <1>5

(* A step of an invocation under the lock that writes nothing.             *)
LEMMA ReplayMove ==
  ASSUME IInv, ReplayInv, NEW p \in Procs, NEW to \in Guarded,
         pc[p] \in InSessionStates \ {"publish"},
         pc' = [pc EXCEPT ![p] = to],
         seen' = [q \in Procs |-> seen'[q]],
         UNCHANGED <<storeVars, mem, ran>>,
         to \in Advancing => Progress(p)'
  PROVE  ReplayInv'
<1>1. pc \in [Procs -> ControlStates]
  BY DEF IInv, ControlInv
<1>2. DiskReplayInv'
  <2>1. \A id : Ran(id)' = Ran(id)
    BY DEF Ran
  <2>2. QED
    BY <2>1 DEF ReplayInv, DiskReplayInv, storeVars
<1>3. pc'[p] = to /\ mem'[p] = mem[p]
  BY <1>1
<1>4. SessionAgrees(p)
  BY DEF ReplayInv, SessionReplayInv
<1>5. SessionAgrees(p)'
  BY <1>3, <1>4 DEF SessionAgrees, InSession, OnDisk, Exists, storeVars,
                    InSessionStates
<1>6. SessionReplayInv'
  BY <1>1, <1>5, OnlySession DEF InSessionStates
<1>7. QED
  BY <1>2, <1>6 DEF ReplayInv, RanInv

(* The persist_* methods but revalidate reread the inventory first.        *)
LEMMA ReplayGuardedPersist ==
  ASSUME IInv, ReplayInv, NEW p \in Procs, NEW next,
         NEW to \in Guarded, NEW failed \in Guarded \ Advancing,
         pc[p] \in InSessionStates \ {"publish"},
         Persist(p, next, to, failed),
         UNCHANGED <<ran, seen>>,
         \A k \in next :
           /\ Advances(mem[p], k) /\ Follows(mem[p], k)
           /\ to # "release" => k.phase # "Completed"
           /\ Matches(mem[p], k) => DiskAgrees(k, Ran(k.id)),
         \A k \in next :
           RequireCurrent(p) /\ Matches(mem[p], k) /\ mem'[p] = k
             /\ pc'[p] = to /\ to \in Advancing => Progress(p)'
  PROVE  ReplayInv'
<1>1. CASE RequireCurrent(p)
           /\ (PersistOk(p, next, to) \/ PersistFails(p, next, failed))
  <2>1. AllReadable
    BY <1>1 DEF RequireCurrent
  <2>2. \A k \in next :
          Matches(mem[p], k) /\ mem'[p] = k /\ pc'[p] = to
            /\ to \in Advancing => Progress(p)'
    BY <1>1
  <2>3. QED
    BY <1>1, <2>1, <2>2, ReplayPersist
<1>2. CASE UNCHANGED <<storeVars, mem>> /\ pc' = [pc EXCEPT ![p] = failed]
  BY <1>2, ReplayMove DEF ReplayInv, SessionReplayInv
<1>3. PersistFails(p, {}, failed) =>
        UNCHANGED <<storeVars, mem>> /\ pc' = [pc EXCEPT ![p] = failed]
  BY DEF PersistFails
<1>4. QED
  BY <1>1, <1>2, <1>3 DEF Persist

(* Up to the mutation boundary.                                            *)
LEMMA ReplayEarly ==
  ASSUME IInv, ReplayInv, NEW p \in Procs,
         \/ Revalidate(p) \/ Precondition(p) \/ Approve(p) \/ Recheck(p)
  PROVE  ReplayInv'
<1> USE DEF InSessionStates, Guarded, ControlStates, Advancing
<1>1. /\ pc[p] # "publish" /\ pc[p] \in InSessionStates
      /\ GoodJournal(mem[p]) /\ HasHistory(mem[p])
      /\ mem[p].phase # "Completed"
  BY DEF Revalidate, Precondition, Approve, Recheck, IInv, ControlInv,
         ReplayInv, SessionReplayInv, SessionAgrees, InSession
<1>2. ASSUME NEW k, Follows(mem[p], k), k.phase # "Completed",
             Matches(mem[p], k)
      PROVE  DiskAgrees(k, Ran(k.id))
  <2>1. k.id = mem[p].id
    BY <1>2 DEF Follows
  <2>2. DiskAgrees(mem[p], Ran(k.id))
    BY <1>2, <2>1 DEF Matches, Exists, ReplayInv, DiskReplayInv
  <2>3. QED
    BY <1>2, <2>2, FollowsAgrees
<1>3. CASE Revalidate(p)
  <2> DEFINE next == IdentityRevalidated(mem[p], dev[plan[p].target])
  <2>1. \A k \in next : /\ Advances(mem[p], k) /\ Follows(mem[p], k)
                        /\ k.phase # "Completed"
    BY <1>1, EarlyTransitions, TransitionsFollow
  <2>2. /\ PersistOk(p, next, "revalidated")
           \/ PersistFails(p, next, "failing")
        /\ AllReadable
        /\ UNCHANGED <<ran, seen>>
    BY <1>3 DEF Revalidate, IInv, ControlInv
  <2> HIDE DEF next
  <2>3. \A k \in next :
          /\ Advances(mem[p], k) /\ Follows(mem[p], k)
          /\ k.phase # "Completed"
          /\ Matches(mem[p], k) => DiskAgrees(k, Ran(k.id))
    BY <1>2, <2>1
  <2>4. "revalidated" \in Guarded \ Advancing
        /\ "failing" \in Guarded \ Advancing
    OBVIOUS
  <2>5. "revalidated" \notin Advancing
    OBVIOUS
  <2>6. pc[p] \in InSessionStates \ {"publish"}
    BY <1>1
  <2>7. \A k \in next :
          /\ Advances(mem[p], k) /\ Follows(mem[p], k)
          /\ "revalidated" # "release" => k.phase # "Completed"
          /\ Matches(mem[p], k) => DiskAgrees(k, Ran(k.id))
    BY <2>3
  <2>8. \A k \in next :
          Matches(mem[p], k) /\ mem'[p] = k /\ pc'[p] = "revalidated"
            /\ "revalidated" \in Advancing => Progress(p)'
    BY <2>5
  <2> HIDE DEF InSessionStates, Guarded, ControlStates, Advancing
  <2>9. QED
    BY <2>2, <2>4, <2>6, <2>7, <2>8, ReplayPersist
<1>4. CASE Precondition(p)
  <2>1. \A k \in PreconditionsVerified(mem[p]) :
          /\ Advances(mem[p], k) /\ Follows(mem[p], k)
          /\ k.phase # "Completed"
    BY <1>1, EarlyTransitions, TransitionsFollow
  <2>2. QED
    BY <1>1, <1>2, <1>4, <2>1, ReplayGuardedPersist DEF Precondition
<1>5. CASE Approve(p)
  <2>1. \A k \in ExactPlanApproved(mem[p], plan[p], SessionApproval(p)) :
          /\ Advances(mem[p], k) /\ Follows(mem[p], k)
          /\ k.phase # "Completed"
    BY <1>1, EarlyTransitions, TransitionsFollow
  <2>2. QED
    BY <1>1, <1>2, <1>5, <2>1, ReplayGuardedPersist DEF Approve
<1>6. CASE Recheck(p)
  <2>1. PICK to \in {"checked", "failing"} :
          pc' = [pc EXCEPT ![p] = to]
    BY <1>6 DEF Recheck
  <2>2. seen' = [q \in Procs |-> seen'[q]]
    BY <1>6 DEF Recheck, ReplayInv, SessionReplayInv
  <2>3. QED
    BY <1>1, <1>6, <2>1, <2>2, ReplayMove DEF Recheck
<1>7. QED
  BY <1>3, <1>4, <1>5, <1>6

(* Across it: nothing was spawned before for this journal.                 *)
LEMMA ReplayStart ==
  ASSUME IInv, ReplayInv, TypeInv, NEW p \in Procs, Start(p)
  PROVE  ReplayInv'
<1> USE DEF InSessionStates, Guarded, ControlStates, Advancing
<1> DEFINE next == UNION {ExecutionStarted(mem[p], b) :
                            b \in BuildExecutionStart(mem[p], "manifest",
                                                      seen[p], Steps)}
<1>1. /\ pc[p] = "checked"
      /\ GoodJournal(mem[p]) /\ HasHistory(mem[p])
  BY DEF Start, IInv, ControlInv,
         ReplayInv, SessionReplayInv, SessionAgrees, InSession
<1>2. ASSUME NEW k \in next
      PROVE  /\ Advances(mem[p], k) /\ Follows(mem[p], k)
             /\ k.phase # "Completed" /\ ~mem[p].mutated
             /\ k.execution.steps = Steps
  <2>1. PICK b \in BuildExecutionStart(mem[p], "manifest", seen[p], Steps) :
          k \in ExecutionStarted(mem[p], b)
    OBVIOUS
  <2>2. b.steps = Steps
    BY DEF BuildExecutionStart, ExecutionStartBinding
  <2>3. k.execution = b
    BY <1>1, <2>1 DEF ExecutionStarted, Ok, Advance, GoodJournal, IsJournal
  <2>4. QED
    BY <1>1, <2>1, <2>2, <2>3, StartTransition, TransitionsFollow
<1>3. ASSUME NEW k \in next, Matches(mem[p], k)
      PROVE  DiskAgrees(k, Ran(k.id)) /\ k.id \notin DOMAIN ran
  <2>1. /\ k.id = mem[p].id /\ k.id \in DOMAIN record
        /\ record[k.id] = mem[p]
    BY <1>2, <1>3 DEF Follows, Matches, Exists
  <2>2. k.id \notin DOMAIN ran
    BY <1>2, <2>1 DEF IInv, WriteAheadInv, WriteAhead
  <2>3. DiskAgrees(mem[p], Ran(k.id))
    BY <2>1 DEF ReplayInv, DiskReplayInv
  <2>4. QED
    BY <1>2, <2>2, <2>3, FollowsAgrees
<1>4. /\ Persist(p, next, "ready", "failing")
      /\ UNCHANGED <<ran, seen>> /\ step'[p] = LvStep
  BY DEF Start, TypeInv, SessionTypes
<1> HIDE DEF next
<1>5. ASSUME NEW k \in next, Matches(mem[p], k), mem'[p] = k,
             pc'[p] = "ready"
      PROVE  Progress(p)'
  <2>1. mem'[p].id \notin DOMAIN ran'
    BY <1>3, <1>4, <1>5
  <2>2. mem'[p].execution.steps = Steps
    BY <1>2, <1>5
  <2>3. QED
    BY <1>4, <1>5, <2>1, <2>2 DEF Progress, LvStep, FsStep
<1>6. QED
  BY <1>1, <1>2, <1>3, <1>4, <1>5, ReplayGuardedPersist

(* A step of a plan is spawned once: the first while nothing was spawned   *)
(* for the journal or for another of the same plan, the second after the   *)
(* boundary that the first one left.                                       *)
LEMMA ReplaySpawn ==
  ASSUME IInv, ReplayInv, TypeInv, NEW p \in Procs, Spawn(p)
  PROVE  ReplayInv'
<1> DEFINE j == mem[p]
           id == j.id
<1>1. /\ pc[p] = "ready" /\ pc \in [Procs -> ControlStates]
      /\ pc' = [pc EXCEPT ![p] = "waiting"]
      /\ UNCHANGED <<record, previous, displaced, unsynced, mem, step, seen>>
      /\ displaced = {}
      /\ id \in DOMAIN record /\ record[id] = j
      /\ j.phase = "Executing" /\ RequireCurrent(p)
  BY DEF Spawn, storeVars, RequireCurrent, AllReadable, Matches, Exists,
         StepAuthorized, IInv, ControlInv
<1>2. SessionAgrees(p) /\ Progress(p) /\ step[p] \in {LvStep, FsStep}
  BY <1>1 DEF ReplayInv, SessionReplayInv, SessionAgrees, Advancing, TypeInv,
              SessionTypes
<1>3. /\ DOMAIN ran' = DOMAIN ran \cup {id}
      /\ ran'[id] = IF step[p] = LvStep THEN LvOnly ELSE Both
      /\ \A x \in DOMAIN ran \ {id} : ran'[x] = ran[x]
  <2>1. ran' = With(ran, id, [Ran(id) EXCEPT ![step[p]] = @ + 1])
    BY DEF Spawn
  <2>2. CASE step[p] = LvStep
    <3>1. Ran(id) = NoRuns
      BY <1>1, <1>2, <2>2 DEF Progress, Ran
    <3>2. [NoRuns EXCEPT ![LvStep] = @ + 1] = LvOnly
      BY DEF NoRuns, LvOnly, LvStep, FsStep
    <3>3. QED
      BY <2>1, <2>2, <3>1, <3>2 DEF With
  <2>3. CASE step[p] = FsStep
    <3>1. Ran(id) = LvOnly
      BY <1>1, <1>2, <2>3 DEF Progress
    <3>2. [LvOnly EXCEPT ![FsStep] = @ + 1] = Both
      <4>1. LvOnly = [s \in {LvStep, FsStep} |-> LvOnly[s]]
            /\ LvOnly[LvStep] = 1 /\ LvOnly[FsStep] = 0
        BY DEF LvOnly, LvStep, FsStep
      <4>2. QED
        BY <4>1 DEF Both, LvStep, FsStep
    <3>3. step[p] # LvStep
      BY <2>3 DEF LvStep, FsStep
    <3>4. QED
      BY <2>1, <2>3, <3>1, <3>2, <3>3 DEF With
  <2>4. QED
    BY <1>2, <2>2, <2>3
<1>4. /\ Ran(id)' = IF step[p] = LvStep THEN LvOnly ELSE Both
      /\ \A x : x # id => Ran(x)' = Ran(x)
  BY <1>1, <1>3 DEF Ran
<1>5. DiskReplayInv'
  <2>1. DiskAgrees(j, Ran(id))
    BY <1>1 DEF ReplayInv, DiskReplayInv
  <2>2. Ran(id)'[FsStep] > 0 => Continued(j)
    BY <1>2, <1>4 DEF Progress, LvOnly, LvStep, FsStep
  <2>3. DiskAgrees(j, Ran(id)')
    BY <1>1, <2>1, <2>2 DEF DiskAgrees
  <2>4. QED
    BY <1>1, <1>4, <2>3 DEF ReplayInv, DiskReplayInv
<1>6. RanInv'
  <2>1. ASSUME NEW other \in DOMAIN ran, other # id
        PROVE  other.plan # id.plan
    <3>1. /\ other \in DOMAIN record /\ record[other].mutated
          /\ record[other].id = other
      BY DEF IInv, WriteAheadInv, WriteAhead, Exists, StoreInv
    <3>2. record[other].plan = other.plan
      BY <3>1 DEF ReplayInv, DiskReplayInv, DiskAgrees
    <3>3. record[other].plan # j.plan
      BY <1>1, <2>1, <3>1 DEF RequireCurrent, BlocksPlan
    <3>4. j.plan = id.plan
      BY <1>1, <1>2 DEF SessionAgrees, InSession
    <3>5. QED
      BY <3>2, <3>3, <3>4
  <2>2. ran'[id] \in {LvOnly, Both}
    BY <1>3
  <2>3. QED
    BY <1>3, <2>1, <2>2 DEF ReplayInv, RanInv
<1>7. SessionReplayInv'
  <2>1. pc'[p] = "waiting"
    BY <1>1
  <2>2. Progress(p)'
    BY <1>1, <1>2, <1>4, <2>1 DEF Progress, LvStep, FsStep
  <2>3. SessionAgrees(p)'
    BY <1>1, <1>2, <2>1, <2>2 DEF SessionAgrees, InSession, OnDisk, Exists
  <2>4. QED
    BY <1>1, <2>3, OnlySession
       DEF InSessionStates, ControlStates, ReplayInv, SessionReplayInv
<1>8. QED
  BY <1>5, <1>6, <1>7 DEF ReplayInv

(* The tool, its exit and the rediscovery after it.                        *)
LEMMA ReplayRediscover ==
  ASSUME IInv, ReplayInv, TypeInv, NEW p \in Procs,
         SpawnRefused(p) \/ Rediscover(p) \/ \E id : ToolExits(p, id)
  PROVE  ReplayInv'
<1> USE DEF InSessionStates, Guarded, ControlStates, Advancing
<1>1. SessionAgrees(p) /\ seen = [q \in Procs |-> seen[q]]
      /\ pc \in [Procs -> ControlStates]
  BY DEF ReplayInv, SessionReplayInv, IInv, ControlInv
<1>2. CASE SpawnRefused(p)
  <2>1. PICK to \in {"recovering", "failing"} : pc' = [pc EXCEPT ![p] = to]
    BY <1>2 DEF SpawnRefused
  <2>2. QED
    BY <1>1, <1>2, <2>1, ReplayMove DEF SpawnRefused
<1>3. ASSUME NEW id, ToolExits(p, id)
      PROVE  ReplayInv'
  <2>1. PICK to \in {"rediscover", "recovering"} :
          pc' = [pc EXCEPT ![p] = to]
    BY <1>3 DEF ToolExits
  <2>2. pc[p] = "waiting" /\ UNCHANGED <<storeVars, mem, step, seen, ran>>
    BY <1>3 DEF ToolExits, Waiting
  <2>3. to \in Advancing => Progress(p)'
    BY <1>1, <2>1, <2>2 DEF SessionAgrees, Progress, Ran
  <2>4. QED
    BY <1>1, <2>1, <2>2, <2>3, ReplayMove
<1>4. CASE Rediscover(p) /\ pc' = [pc EXCEPT ![p] = "recovering"]
  <2>1. seen' = [q \in Procs |-> seen'[q]]
    BY <1>1, <1>4 DEF Rediscover
  <2>2. QED
    BY <1>4, <2>1, ReplayMove DEF Rediscover
<1>5. CASE /\ LayerVerified(plan[p], step[p], seen[p], dev[plan[p].target])
           /\ seen' = [seen EXCEPT ![p] = dev[plan[p].target]]
           /\ pc' = [pc EXCEPT ![p] = "proved"]
           /\ pc[p] = "rediscover"
           /\ UNCHANGED <<storeVars, lock, mem, step, ran>>
  <2>1. /\ pc'[p] = "proved" /\ seen'[p] = dev[plan[p].target]
        /\ Progress(p) /\ seen' = [q \in Procs |-> seen'[q]]
    BY <1>1, <1>5 DEF SessionAgrees
  <2>2. mem[p].plan = plan[p] /\ step[p] \in {LvStep, FsStep}
    BY <1>5 DEF TypeInv, SessionTypes
  <2>3. IF step[p] = LvStep
        THEN VolumeGrown(mem[p].plan, seen'[p])
        ELSE FilesystemGrown(mem[p].boundary.identity, seen'[p])
    BY <1>5, <2>1, <2>2
       DEF LayerVerified, VolumeGrown, FilesystemGrown, Progress
  <2>4. Progress(p)'
    BY <1>5, <2>1, <2>3 DEF Progress, Ran
  <2>5. QED
    BY <1>5, <2>1, <2>4, ReplayMove
<1>6. QED
  BY <1>2, <1>3, <1>4, <1>5 DEF Rediscover

(* The two durable writes after a step, and the interruption.              *)
LEMMA ReplayVerify ==
  ASSUME IInv, ReplayInv, TypeInv, NEW p \in Procs,
         \/ BeginVerification(p) \/ ContinueToNextStep(p) \/ Complete(p)
         \/ Recover(p) \/ InterruptOnError(p)
  PROVE  ReplayInv'
<1> USE DEF InSessionStates, Guarded, ControlStates, Advancing
<1> DEFINE j == mem[p]
<1>1. /\ pc[p] # "publish" /\ pc[p] \in InSessionStates
      /\ GoodJournal(j) /\ HasHistory(j) /\ j.phase # "Completed"
      /\ HasPlan(j) /\ UNCHANGED <<ran, seen>>
  BY DEF BeginVerification, ContinueToNextStep, Complete, Recover,
         InterruptOnError, IInv, ControlInv, HasPlan,
         ReplayInv, SessionReplayInv, SessionAgrees, InSession
<1>2. ASSUME NEW k, k.id = j.id, Matches(j, k)
      PROVE  DiskAgrees(j, Ran(k.id))
  BY <1>2 DEF Matches, Exists, ReplayInv, DiskReplayInv
<1>3. ASSUME NEW k, Follows(j, k), k.phase # "Completed", Matches(j, k)
      PROVE  DiskAgrees(k, Ran(k.id))
  BY <1>2, <1>3, FollowsAgrees DEF Follows
<1>4. pc[p] \in Advancing => Progress(p)
  BY DEF ReplayInv, SessionReplayInv, SessionAgrees
<1>5. CASE BeginVerification(p)
  <2>1. ASSUME NEW k \in VerificationStarted(j)
        PROVE  /\ Advances(j, k) /\ Follows(j, k) /\ k.phase # "Completed"
               /\ k.boundary = j.boundary /\ k.execution = j.execution
    <3>1. j.mutated
      BY <1>1 DEF VerificationStarted, Ok, GoodJournal, MutationPhases
    <3>2. QED
      BY <1>1, <3>1, VerificationTransitions, TransitionsFollow DEF Advances
  <2>2. ASSUME NEW k \in VerificationStarted(j), mem'[p] = k,
               pc'[p] = "closing"
        PROVE  Progress(p)'
    BY <1>1, <1>4, <1>5, <2>1, <2>2
       DEF BeginVerification, Progress, Follows, Ran
  <2>3. QED
    BY <1>1, <1>3, <1>5, <2>1, <2>2, ReplayGuardedPersist
       DEF BeginVerification
<1>6. CASE ContinueToNextStep(p)
  <2> DEFINE next == VerificationPassedContinue(j, LvStep, FsStep, seen[p])
  <2>1. ASSUME NEW k \in next
        PROVE  /\ Advances(j, k) /\ Follows(j, k) /\ k.phase # "Completed"
               /\ Continued(k) /\ k.boundary.identity = seen[p]
               /\ k.execution = j.execution
    <3>1. j.mutated
      BY <1>1 DEF VerificationPassedContinue, Ok, GoodJournal, MutationPhases
    <3>2. QED
      BY <1>1, <3>1, VerificationTransitions, ContinueFollows DEF Advances
  <2>2. /\ pc[p] = "closing" /\ step[p] = LvStep
        /\ pc'[p] = "ready" => step'[p] = FsStep
        /\ Persist(p, next, "ready", "failing")
    BY <1>6 DEF ContinueToNextStep, TypeInv, SessionTypes
  <2> HIDE DEF next
  <2>3. ASSUME NEW k \in next, mem'[p] = k, pc'[p] = "ready"
        PROVE  Progress(p)'
    <3>1. /\ Ran(j.id) = LvOnly /\ VolumeGrown(j.plan, seen[p])
          /\ j.execution.steps = Steps
      BY <1>4, <2>2 DEF Progress
    <3>2. /\ Ran(k.id)' = LvOnly
          /\ VolumeGrown(k.plan, k.boundary.identity)
          /\ k.execution.steps = Steps
      BY <1>1, <2>1, <3>1 DEF Follows, Ran
    <3>3. step'[p] = FsStep /\ step'[p] # LvStep
      BY <2>2, <2>3 DEF LvStep, FsStep
    <3>4. QED
      BY <1>1, <2>1, <2>3, <3>2, <3>3 DEF Progress
  <2>4. QED
    BY <1>1, <1>3, <2>1, <2>2, <2>3, ReplayGuardedPersist
<1>7. CASE Complete(p)
  <2> DEFINE next == VerificationPassedComplete(j, FsStep, seen[p])
  <2>1. /\ Progress(p) /\ step[p] = FsStep
        /\ pc[p] = "closing"
        /\ Persist(p, next, "release", "failing")
    BY <1>4, <1>7 DEF Complete
  <2>2. /\ Continued(j) /\ Ran(j.id) = Both
        /\ VolumeGrown(j.plan, j.boundary.identity)
        /\ FilesystemGrown(j.boundary.identity, seen[p])
    BY <2>1 DEF Progress, LvStep, FsStep
  <2>3. ASSUME NEW k \in next
        PROVE  /\ Advances(j, k) /\ Follows(j, k)
               /\ k.boundary.identity = j.boundary.identity
               /\ k.boundary.finalIdentity = seen[p]
    BY <1>1, <2>2, CompleteTransition, CompleteFollows
  <2> HIDE DEF next
  <2>4. ASSUME NEW k \in next, Matches(j, k)
        PROVE  DiskAgrees(k, Ran(k.id))
    <3>1. DiskAgrees(j, Ran(k.id)) /\ k.id = j.id
      BY <1>2, <2>3, <2>4 DEF Follows
    <3>2. QED
      BY <2>2, <2>3, <3>1 DEF DiskAgrees, Follows
  <2>5. QED
    BY <1>1, <2>1, <2>3, <2>4, ReplayGuardedPersist
<1>8. \A k \in Interrupted(j) :
        Advances(j, k) /\ Follows(j, k) /\ k.phase # "Completed"
  BY <1>1, StopTransitions, TransitionsFollow
<1>9. CASE Recover(p)
  BY <1>1, <1>3, <1>8, <1>9, ReplayGuardedPersist DEF Recover
<1>10. CASE InterruptOnError(p)
  <2>1. CASE IsTerminal(j)
    BY <1>1, <1>10, <2>1, ReplayMove
       DEF InterruptOnError, ReplayInv, SessionReplayInv
  <2>2. CASE ~IsTerminal(j)
    BY <1>1, <1>3, <1>8, <1>10, <2>2, ReplayGuardedPersist
       DEF InterruptOnError
  <2>3. QED
    BY <2>1, <2>2
<1>11. QED
  BY <1>5, <1>6, <1>7, <1>9, <1>10

(* Begin and persist_new: a journal for which nothing was spawned.         *)
LEMMA ReplayBegin ==
  ASSUME IInv, ReplayInv, NEW p \in Procs, Begin(p) \/ Publish(p)
  PROVE  ReplayInv'
<1>1. /\ pc \in [Procs -> ControlStates] /\ mem = [q \in Procs |-> mem[q]]
      /\ \A q \in Procs : SessionAgrees(q)
      /\ seen = [q \in Procs |-> seen[q]]
      /\ \A id : ran' = ran => Ran(id)' = Ran(id)
  BY DEF ReplayInv, SessionReplayInv, IInv, ControlInv, Ran
<1>2. CASE Begin(p)
  <2>1. PICK n \in 0..(MaxAttempts - 1) :
          \E j \in HostLockAcquired(NewJournal(JournalId(plan[p], n), plan[p],
                                                plan[p].baseline)) :
            mem' = [mem EXCEPT ![p] = j]
    BY <1>2 DEF Begin
  <2>2. PICK j \in HostLockAcquired(NewJournal(JournalId(plan[p], n), plan[p],
                                               plan[p].baseline)) :
          mem' = [mem EXCEPT ![p] = j]
    BY <2>1
  <2>3. /\ pc' = [pc EXCEPT ![p] = "publish"]
        /\ UNCHANGED <<storeVars, step, seen, ran>>
    BY <1>2 DEF Begin, Goto
  <2>4. mem'[p] = j /\ pc'[p] = "publish"
    BY <1>1, <2>2, <2>3
  <2>5. /\ HasHistory(j) /\ j.phase # "Completed"
        /\ j.plan = j.id.plan /\ j.baseline = j.plan.baseline
    BY NewJournalAgrees
  <2>6. SessionAgrees(p)'
    BY <2>4, <2>5 DEF SessionAgrees, InSession, Advancing
  <2>7. \A q \in Procs \ {p} : SessionAgrees(q)'
    BY <1>1, <2>2, <2>3, UnmovedAgrees DEF storeVars
  <2>8. DiskReplayInv'
    BY <1>1, <2>3 DEF ReplayInv, DiskReplayInv, storeVars
  <2>9. QED
    BY <1>1, <2>3, <2>6, <2>7, <2>8 DEF ReplayInv, RanInv, SessionReplayInv
<1>3. CASE Publish(p)
  <2>1. /\ pc[p] = "publish" /\ AllReadable /\ WriteAhead
        /\ NewStored(mem[p]) \/ NewFails(mem[p])
        /\ UNCHANGED <<mem, step, seen, ran>>
    BY <1>3 DEF Publish, IInv, ControlInv, WriteAheadInv
  <2>2. /\ HasHistory(mem[p]) /\ mem[p].phase # "Completed"
        /\ mem[p].plan = mem[p].id.plan
        /\ mem[p].baseline = mem[p].plan.baseline
    BY <1>1, <2>1 DEF SessionAgrees
  <2>3. DiskReplayInv'
    BY <2>1, <2>2, NewKeepsReplay DEF ReplayInv
  <2>4. \/ pc' = [pc EXCEPT ![p] = "held"] /\ NewStored(mem[p])
        \/ pc' = [pc EXCEPT ![p] = "release"]
    BY <1>3 DEF Publish
  <2>5. SessionAgrees(p)'
    <3>1. CASE pc' = [pc EXCEPT ![p] = "held"] /\ NewStored(mem[p])
      <4>1. pc'[p] = "held" /\ mem'[p] = mem[p]
        BY <1>1, <2>1, <3>1
      <4>2. OnDisk(mem[p])'
        BY <2>1, <3>1 DEF NewStored, With, OnDisk, Exists
      <4>3. QED
        BY <2>2, <4>1, <4>2 DEF SessionAgrees, InSession, Advancing
    <3>2. CASE pc' = [pc EXCEPT ![p] = "release"]
      <4>1. pc'[p] \in Outside
        BY <1>1, <3>2 DEF Outside
      <4>2. QED
        BY <4>1, OutsideAgrees
    <3>3. QED
      BY <2>4, <3>1, <3>2
  <2>6. /\ pc[p] \in InSessionStates
        /\ \A q \in Procs \ {p} : pc'[q] = pc[q]
    BY <1>1, <2>1, <2>4 DEF InSessionStates, ControlStates
  <2>7. seen' = [q \in Procs |-> seen'[q]]
    BY <1>1, <2>1
  <2>8. SessionReplayInv'
    BY <2>5, <2>6, <2>7, OnlySession
  <2>9. QED
    BY <2>1, <2>3, <2>8 DEF ReplayInv, RanInv
<1>4. QED
  BY <1>2, <1>3

(* A step that leaves the disk, the spawns and every session alone, or     *)
(* ends a session.                                                         *)
LEMMA ReplayElsewhere ==
  ASSUME ReplayInv, UNCHANGED <<storeVars, ran>>,
         seen' = [q \in Procs |-> seen'[q]],
         \A q \in Procs :
           \/ pc'[q] \in Outside
           \/ /\ pc'[q] = pc[q] /\ mem'[q] = mem[q]
              /\ step'[q] = step[q] /\ seen'[q] = seen[q]
  PROVE  ReplayInv'
<1>1. \A id : Ran(id)' = Ran(id)
  BY DEF Ran
<1>2. DiskReplayInv'
  BY <1>1 DEF ReplayInv, DiskReplayInv, storeVars
<1>3. ASSUME NEW q \in Procs
      PROVE  SessionAgrees(q)'
  <2>1. CASE pc'[q] \in Outside
    BY <2>1, OutsideAgrees
  <2>2. CASE /\ pc'[q] = pc[q] /\ mem'[q] = mem[q]
             /\ step'[q] = step[q] /\ seen'[q] = seen[q]
    BY <2>2, UnmovedAgrees DEF ReplayInv, SessionReplayInv, storeVars
  <2>3. QED
    BY <2>1, <2>2
<1>4. QED
  BY <1>2, <1>3 DEF ReplayInv, RanInv, SessionReplayInv

(* Before and after a session.                                             *)
LEMMA ReplayOutside ==
  ASSUME IInv, ReplayInv, TypeInv, NEW p \in Procs,
         \/ \E t \in Targets : Plan(p, t)
         \/ TakeLock(p) \/ LockBusy(p) \/ BeginRefused(p)
         \/ Release(p) \/ Crash(p)
  PROVE  ReplayInv'
<1>1. /\ pc \in [Procs -> ControlStates] /\ mem = [q \in Procs |-> mem[q]]
      /\ seen = [q \in Procs |-> seen[q]]
      /\ step \in [Procs -> {LvStep, FsStep}]
  BY DEF ReplayInv, SessionReplayInv, IInv, ControlInv, TypeInv, SessionTypes
<1>2. /\ UNCHANGED <<storeVars, ran>>
      /\ \E to \in Outside : pc' = [pc EXCEPT ![p] = to]
    BY DEF Plan, TakeLock, LockBusy, BeginRefused, Release, Crash, Forget,
           Goto, Outside
<1>3. \/ UNCHANGED <<mem, step, seen>>
      \/ /\ mem' = [mem EXCEPT ![p] = None]
         /\ step' = [step EXCEPT ![p] = LvStep]
         /\ seen' = [seen EXCEPT ![p] = None]
    BY DEF Plan, TakeLock, LockBusy, BeginRefused, Release, Crash, Forget
<1>4. QED
  BY <1>1, <1>2, <1>3, ReplayElsewhere

(* The operator's reconciliation: an abort of a journal that is on disk.   *)
LEMMA ReplayOperator ==
  ASSUME IInv, ReplayInv, NEW o \in Operators,
         OperatorStep(o) \/ \E id \in DOMAIN record : Show(o, id)
  PROVE  ReplayInv'
<1>1. CASE \/ \E id \in DOMAIN record : Show(o, id)
           \/ ReconcileLock(o) \/ ReconcileRefused(o)
  <2>1. UNCHANGED <<storeVars, pc, mem, step, seen, ran>>
    BY <1>1 DEF Show, ReconcileLock, ReconcileRefused, procVars
  <2>2. QED
    BY <2>1, ReplayElsewhere DEF ReplayInv, SessionReplayInv
<1>2. CASE ReconcileAbort(o)
  <2>1. PICK k \in Abort(shown[o]) :
          UpdateStored(shown[o], k) \/ UpdateFails(shown[o], k)
    BY <1>2 DEF ReconcileAbort
  <2>2. /\ lock = o /\ AllReadable /\ UNCHANGED <<pc, mem, step, seen, ran>>
        /\ shown[o].id \in DOMAIN record
        /\ record[shown[o].id] = shown[o]
    BY <1>2 DEF ReconcileAbort, Matches, Exists
  <2>3. GoodJournal(shown[o])
        /\ DiskAgrees(shown[o], Ran(shown[o].id))
    BY <2>2 DEF IInv, StoreInv, ReplayInv, DiskReplayInv
  <2>4. /\ Follows(shown[o], k) /\ k.phase # "Completed"
        /\ k.id = shown[o].id
    BY <2>3, TransitionsFollow DEF DiskAgrees, Follows
  <2>5. DiskAgrees(k, Ran(k.id))
    BY <2>3, <2>4, FollowsAgrees
  <2>6. DiskReplayInv'
    BY <2>1, <2>2, <2>4, <2>5, UpdateKeepsReplay DEF ReplayInv
  <2>7. \A q \in Procs : pc[q] \in Outside
    BY <2>2, ApplyAssumption DEF IInv, ControlInv, Outside
  <2>8. \A q \in Procs : SessionAgrees(q)'
    BY <2>2, <2>7, OutsideAgrees
  <2>9. QED
    BY <2>2, <2>6, <2>8 DEF ReplayInv, RanInv, SessionReplayInv
<1>3. QED
  BY <1>1, <1>2 DEF OperatorStep

(* A host crash ends every session; what was spawned stays spawned.        *)
LEMMA ReplayHostCrash ==
  ASSUME ReplayInv, HostCrash
  PROVE  ReplayInv'
<1>1. DiskReplayInv'
  BY CrashKeepsReplay DEF HostCrash, ReplayInv
<1>2. \A p \in Procs : pc'[p] \in Outside
  BY DEF HostCrash, Outside
<1>3. \A p \in Procs : SessionAgrees(p)'
  BY <1>2, OutsideAgrees
<1>4. QED
  BY <1>1, <1>3 DEF HostCrash, ReplayInv, RanInv, SessionReplayInv

(* Every step of the program, of its tools and of its environment.         *)
LEMMA NextReplayInv == IInv /\ TypeInv /\ ReplayInv /\ [Next]_vars => ReplayInv'
<1> SUFFICES ASSUME IInv, TypeInv, ReplayInv, [Next]_vars
             PROVE  ReplayInv'
  OBVIOUS
<1>1. ASSUME NEW p \in Procs, ProcStep(p)
      PROVE  ReplayInv'
  BY <1>1, ReplayOutside, ReplayBegin, ReplayEarly, ReplayStart, ReplaySpawn,
     ReplayRediscover, ReplayVerify DEF ProcStep
<1>2. ASSUME NEW p \in Procs, Crash(p) \/ \E t \in Targets : Plan(p, t)
      PROVE  ReplayInv'
  BY <1>2, ReplayOutside
<1>3. ASSUME NEW o \in Operators,
             OperatorStep(o) \/ \E id \in DOMAIN record : Show(o, id)
      PROVE  ReplayInv'
  BY <1>3, ReplayOperator
<1>4. ASSUME NEW id \in DOMAIN child, ToolWrites(id) \/ ToolStep(id)
      PROVE  ReplayInv'
  <2>1. CASE ToolWrites(id) \/ OrphanExits(id)
    <3>1. UNCHANGED <<storeVars, pc, mem, step, seen, ran>>
      BY <2>1 DEF ToolWrites, OrphanExits, procVars
    <3>2. QED
      BY <3>1, ReplayElsewhere DEF ReplayInv, SessionReplayInv
  <2>2. QED
    BY <1>4, <2>1, ReplayRediscover DEF ToolStep
<1>5. CASE (\E t \in Targets : Drift(t)) \/ UNCHANGED vars
  <2>1. UNCHANGED <<storeVars, pc, mem, step, seen, ran>>
    BY <1>5 DEF Drift, vars, procVars
  <2>2. QED
    BY <2>1, ReplayElsewhere DEF ReplayInv, SessionReplayInv
<1>6. CASE HostCrash
  BY <1>6, ReplayHostCrash
<1>7. QED
  BY <1>1, <1>2, <1>3, <1>4, <1>5, <1>6 DEF Next

-----------------------------------------------------------------------------
(* The inductive invariant holds in every behaviour.                       *)
THEOREM ReplayInductive == Spec => []ReplayInv
<1>1. Init => ReplayInv
  BY DEF Init, StoreInit, ReplayInv, DiskReplayInv, RanInv, SessionReplayInv,
         SessionAgrees, InSession, Advancing
<1>2. QED
  BY <1>1, NextReplayInv, Inductive, TypeInductive, PTL DEF Spec

(* A session never believes more than what is on disk: its journal in      *)
(* memory is the record, or the state the last failed update displaced     *)
(* (the persist_* methods assign session.journal only after the store's    *)
(* Ok).                                                                    *)
THEOREM MemoryTrailsDiskHolds == Spec => []MemoryTrailsDisk
<1>1. IInv /\ ReplayInv => MemoryTrailsDisk
  BY DEF IInv, ControlInv, ReplayInv, SessionReplayInv, SessionAgrees, OnDisk,
         InSession, MemoryTrailsDisk
<1>2. QED
  BY <1>1, Inductive, ReplayInductive, PTL

(* No blind replay (SAFETY.md): no mutation step of a plan is ever spawned *)
(* twice, whatever fails, crashes or is retried, and the filesystem step   *)
(* only for a journal that records the verified volume.                    *)
THEOREM NoBlindReplayHolds == Spec => []NoBlindReplay
<1>1. IInv /\ ReplayInv => NoBlindReplay
  <2> SUFFICES ASSUME IInv, ReplayInv, NEW id \in DOMAIN ran
               PROVE  /\ \A s \in {LvStep, FsStep} : ran[id][s] <= 1
                      /\ ran[id][FsStep] > 0 =>
                           /\ ran[id][LvStep] = 1
                           /\ HasEvent(record[id],
                                       "verification-passed-continue")
                           /\ record[id].boundary.completed = LvStep
                      /\ \A other \in DOMAIN ran :
                           other.plan = id.plan => other = id
    BY DEF NoBlindReplay
  <2>1. ran[id] \in {LvOnly, Both}
    BY DEF ReplayInv, RanInv
  <2>2. /\ \A s \in {LvStep, FsStep} : ran[id][s] <= 1
        /\ ran[id][LvStep] = 1
    BY <2>1 DEF LvOnly, Both, LvStep, FsStep
  <2>3. ran[id][FsStep] > 0 => Continued(record[id])
    BY DEF IInv, WriteAheadInv, WriteAhead, Exists, ReplayInv, DiskReplayInv,
           DiskAgrees, Ran
  <2>4. QED
    BY <2>2, <2>3 DEF Continued, ReplayInv, RanInv
<1>2. QED
  BY <1>1, Inductive, ReplayInductive, PTL

(* A completed journal proves both layers, each step spawned once          *)
(* (verify_privileged_layer_post_state before each of the two boundaries). *)
THEOREM CompletedMeansVerifiedHolds == Spec => []CompletedMeansVerified
<1>1. ReplayInv => CompletedMeansVerified
  <2> SUFFICES ASSUME ReplayInv, NEW id \in DOMAIN record,
                      record[id].phase = "Completed"
               PROVE  LET j == record[id]
                      IN  /\ j.boundary.identity.lv =
                               After(j.baseline, LvStep).lv
                          /\ j.boundary.finalIdentity.lv =
                               j.boundary.identity.lv
                          /\ j.boundary.finalIdentity.fs >
                               j.boundary.identity.fs
                          /\ Ran(id) = [s \in {LvStep, FsStep} |-> 1]
    BY DEF CompletedMeansVerified
  <2>1. DiskAgrees(record[id], Ran(id))
    BY DEF ReplayInv, DiskReplayInv
  <2>2. QED
    BY <2>1 DEF DiskAgrees, VolumeGrown, FilesystemGrown, Both
<1>2. QED
  BY <1>1, ReplayInductive, PTL
=============================================================================
