----------------------------- MODULE ApplyExtend -----------------------------
(***************************************************************************)
(* `lsm apply extend`: several invocations on one host, each of which      *)
(* freezes a plan, takes the host storage lock, journals its way to the    *)
(* mutation boundary, runs a logical-volume tool and then a filesystem     *)
(* tool, and verifies each by rediscovery; with the operator's             *)
(* reconciliation of abandoned journals, storage tools that outlive the    *)
(* invocation that started them, changes of the storage behind the         *)
(* program's back, I/O failures of every journal write, and crashes of an  *)
(* invocation or of the host between any two steps.                        *)
(***************************************************************************)
EXTENDS DurableStore

CONSTANTS
  Procs,        \* invocations of apply extend
  Operators,    \* invocations of the reconciliation
  Targets,      \* mount points
  MaxAttempts,  \* retained attempts per plan (1024 in the code)
  MaxGrowth,    \* bound on the growths of one target
  MaxDrift,     \* bound on the changes made behind the program's back
  Nobody        \* the lock is free

ASSUME ApplyAssumption ==
  /\ Nobody \notin Procs \cup Operators
  /\ Procs \cap Operators = {}
  /\ MaxAttempts \in Nat \ {0}
  /\ MaxGrowth \in Nat
  /\ MaxDrift \in Nat

VARIABLES
  dev,    \* what discovery would find of a target
  lock,   \* holder of /run/lock/linux-storage-manager/storage.lock
  pc,     \* control state of an invocation
  plan,   \* its frozen handoff: the target and its baseline identity
  mem,    \* session.journal, or None
  step,   \* the mutation step in hand
  seen,   \* the target identity in hand
  child,  \* journal ID -> storage tool running for it
  ran,    \* journal ID -> how often each mutation step was spawned (history)
  shown   \* the journal an operator was shown, or None

procVars == <<lock, pc, plan, mem, step, seen>>
vars == <<storeVars, procVars, dev, child, ran, shown>>

-----------------------------------------------------------------------------
(* The two mutation steps of the supported route, and what each changes.   *)

LvStep == 1
FsStep == 2
Steps == <<LvStep, FsStep>>

Identities == [lv : 0..MaxGrowth, fs : 0..MaxGrowth, drift : 0..MaxDrift]

After(identity, s) ==
  IF s = LvStep THEN [identity EXCEPT !.lv = @ + 1]
                ELSE [identity EXCEPT !.fs = @ + 1]

Plans == [target : Targets, baseline : Identities]

(* Attempt 0 has the guard's ID, a later attempt a hash of it.             *)
JournalId(pl, attempt) == [plan |-> pl, attempt |-> attempt]

NoRuns == [s \in {LvStep, FsStep} |-> 0]
Ran(id) == IF id \in DOMAIN ran THEN ran[id] ELSE NoRuns

HasChild(id) == id \in DOMAIN child

-----------------------------------------------------------------------------
(* What begin_with_lock and require_current_durable_journal look for.      *)

(* Faulty form: only a journal that asks for recovery blocks, not one a    *)
(* killed invocation left executing.                                       *)
BlocksPlanInRecovery(j, pl) ==
  j.phase = "RecoveryRequired" \/ (j.phase = "Completed" /\ j.plan = pl)

(* Blocks pl: unfinished after the mutation boundary, or the plan itself   *)
(* completed.                                                              *)
BlocksPlan(j, pl) == j.mutated /\ (j.phase # "Completed" \/ j.plan = pl)

SafelyAborted(id) ==
  Exists(id) /\ record[id].phase = "Aborted" /\ ~record[id].mutated

(* next_attempt_id: the first attempt without a record, when the earlier   *)
(* ones were all aborted before any mutation and no later one exists.      *)
FreeAttempt(pl, n) ==
  /\ \A m \in 0..(n - 1) : SafelyAborted(JournalId(pl, m))
  /\ \A id \in DOMAIN record : id.plan = pl => id.attempt < n

InventoryClear(pl) ==
  /\ AllReadable
  /\ \A id \in DOMAIN record : ~BlocksPlan(record[id], pl)

RequireCurrent(p) ==
  /\ AllReadable
  /\ Matches(mem[p], mem[p])
  /\ \A id \in DOMAIN record \ {mem[p].id} :
       ~BlocksPlan(record[id], mem[p].plan)

-----------------------------------------------------------------------------
Init ==
  /\ StoreInit
  /\ dev = [t \in Targets |-> [lv |-> 0, fs |-> 0, drift |-> 0]]
  /\ lock = Nobody
  /\ pc = [p \in Procs |-> "idle"]
  /\ plan = [p \in Procs |-> None]
  /\ mem = [p \in Procs |-> None]
  /\ step = [p \in Procs |-> LvStep]
  /\ seen = [p \in Procs |-> None]
  /\ child = <<>>
  /\ ran = <<>>
  /\ shown = [o \in Operators |-> None]

Goto(p, from, to) == pc[p] = from /\ pc' = [pc EXCEPT ![p] = to]

(* apply: discovery and planning, before the lock.                         *)
Plan(p, t) ==
  /\ Goto(p, "idle", "planned")
  /\ plan' = [plan EXCEPT ![p] = [target |-> t, baseline |-> dev[t]]]
  /\ UNCHANGED <<storeVars, lock, mem, step, seen, dev, child, ran, shown>>

TakeLock(p) ==
  /\ Goto(p, "planned", "begin")
  /\ lock = Nobody
  /\ lock' = p
  /\ UNCHANGED <<storeVars, plan, mem, step, seen, dev, child, ran, shown>>

LockBusy(p) ==
  /\ Goto(p, "planned", "idle")
  /\ lock # Nobody
  /\ plan' = [plan EXCEPT ![p] = None]
  /\ UNCHANGED <<storeVars, lock, mem, step, seen, dev, child, ran, shown>>

(* begin_with_lock up to persist_new.                                      *)
Begin(p) ==
  /\ Goto(p, "begin", "publish")
  /\ InventoryClear(plan[p])
  /\ \E n \in 0..(MaxAttempts - 1) :
       /\ FreeAttempt(plan[p], n)
       /\ \E j \in HostLockAcquired(NewJournal(JournalId(plan[p], n), plan[p],
                                               plan[p].baseline)) :
            mem' = [mem EXCEPT ![p] = j]
  /\ UNCHANGED <<storeVars, lock, plan, step, seen, dev, child, ran, shown>>

(* Blocked by an earlier journal, out of attempts, or an unreadable store. *)
BeginRefused(p) ==
  /\ Goto(p, "begin", "release")
  /\ UNCHANGED <<storeVars, lock, plan, mem, step, seen, dev, child, ran,
                 shown>>

(* persist_new and the inventories after it, which may fail although the   *)
(* record is stored.                                                       *)
Publish(p) ==
  /\ pc[p] = "publish"
  /\ \/ NewStored(mem[p]) /\ pc' = [pc EXCEPT ![p] = "held"]
     \/ NewStored(mem[p]) /\ pc' = [pc EXCEPT ![p] = "release"]
     \/ NewFails(mem[p]) /\ pc' = [pc EXCEPT ![p] = "release"]
  /\ UNCHANGED <<lock, plan, mem, step, seen, dev, child, ran, shown>>

-----------------------------------------------------------------------------
(* The persist_* methods of LockedExecutionSession.  Memory takes the new  *)
(* state only after the store returned Ok.                                 *)

PersistOk(p, next, to) ==
  \E j \in next :
    /\ UpdateStored(mem[p], j)
    /\ mem' = [mem EXCEPT ![p] = j]
    /\ pc' = [pc EXCEPT ![p] = to]

(* Faulty form: memory takes the new state before the store answers.       *)
PersistFailsAhead(p, next, to) ==
  /\ \E j \in next : UpdateFails(mem[p], j) /\ mem' = [mem EXCEPT ![p] = j]
  /\ pc' = [pc EXCEPT ![p] = to]

PersistFails(p, next, to) ==
  /\ \/ \E j \in next : UpdateFails(mem[p], j)
     \/ UNCHANGED storeVars
  /\ pc' = [pc EXCEPT ![p] = to]
  /\ UNCHANGED mem

Persist(p, next, to, failed) ==
  \/ RequireCurrent(p) /\ PersistOk(p, next, to)
  \/ RequireCurrent(p) /\ PersistFails(p, next, failed)
  \/ PersistFails(p, {}, failed)

(* revalidate alone does not reread the inventory first.  It is called     *)
(* once per session.                                                       *)
Revalidate(p) ==
  /\ pc[p] = "held"
  /\ LET fresh == dev[plan[p].target]
         next  == IdentityRevalidated(mem[p], fresh)
     IN  \/ PersistOk(p, next, "revalidated")
         \/ PersistFails(p, next, "failing")
  /\ UNCHANGED <<lock, plan, step, seen, dev, child, ran, shown>>

(* Backups, evidence, health check: any of them may stop the operation.    *)
Precondition(p) ==
  /\ pc[p] = "revalidated"
  /\ Persist(p, PreconditionsVerified(mem[p]), "verified", "failing")
  /\ UNCHANGED <<lock, plan, step, seen, dev, child, ran, shown>>

(* approve_operator_plan: the operator types the exact phrase, or not.     *)
SessionApproval(p) ==
  ExactApprovalBinding(plan[p], "evidence", plan[p].baseline, p,
                       Fingerprint(mem[p]))

Approve(p) ==
  /\ pc[p] = "verified"
  /\ Persist(p, ExactPlanApproved(mem[p], plan[p], SessionApproval(p)),
             "approved", "failing")
  /\ UNCHANGED <<lock, plan, step, seen, dev, child, ran, shown>>

(* The last rediscovery before the mutation boundary.                      *)
Recheck(p) ==
  /\ pc[p] = "approved"
  /\ \/ /\ dev[plan[p].target] = plan[p].baseline
        /\ seen' = [seen EXCEPT ![p] = dev[plan[p].target]]
        /\ pc' = [pc EXCEPT ![p] = "checked"]
     \/ pc' = [pc EXCEPT ![p] = "failing"] /\ UNCHANGED seen
  /\ UNCHANGED <<storeVars, lock, plan, mem, step, dev, child, ran, shown>>

(* prepare_first_production_mutation_step crosses the durable boundary.    *)
Start(p) ==
  /\ pc[p] = "checked"
  /\ Persist(p, UNION {ExecutionStarted(mem[p], b) :
                         b \in BuildExecutionStart(mem[p], "manifest",
                                                   seen[p], Steps)},
             "ready", "failing")
  /\ step' = [step EXCEPT ![p] = LvStep]
  /\ UNCHANGED <<lock, plan, seen, dev, child, ran, shown>>

(* validate_current_step: the durable boundary authorizes exactly step s   *)
(* on exactly this identity.                                               *)
StepAuthorized(j, s, identity) ==
  /\ j.phase = "Executing"
  /\ j.mutated
  /\ j.execution # None
  /\ j.execution.id = ExecutionId(j.execution)
  /\ \E i \in DOMAIN j.execution.steps :
       /\ j.execution.steps[i] = s
       /\ IF i = 1
          THEN j.boundary = None /\ identity = j.execution.identity
          ELSE /\ j.boundary # None
               /\ j.boundary.schema = 1
               /\ j.boundary.id = BoundaryId(j.boundary)
               /\ j.boundary.execution = j.execution.id
               /\ j.boundary.completed = j.execution.steps[i - 1]
               /\ j.boundary.next = s
               /\ j.boundary.identity = identity
               /\ j.boundary.final = None /\ j.boundary.finalIdentity = None

(* execute_production_descriptor_launch_raw.                               *)
Spawn(p) ==
  /\ pc[p] = "ready"
  /\ RequireCurrent(p)
  /\ StepAuthorized(mem[p], step[p], seen[p])
  /\ child' = With(child, mem[p].id,
                   [target |-> plan[p].target, step |-> step[p],
                    wrote |-> FALSE])
  /\ ran' = With(ran, mem[p].id, [Ran(mem[p].id) EXCEPT ![step[p]] = @ + 1])
  /\ pc' = [pc EXCEPT ![p] = "waiting"]
  /\ UNCHANGED <<storeVars, lock, plan, mem, step, seen, dev, shown>>

(* Preparation, consent or the gate failed: persist_interrupted first, or  *)
(* the inventory could not be read and the error is returned as it is.     *)
SpawnRefused(p) ==
  /\ pc[p] = "ready"
  /\ pc' \in {[pc EXCEPT ![p] = "recovering"], [pc EXCEPT ![p] = "failing"]}
  /\ UNCHANGED <<storeVars, lock, plan, mem, step, seen, dev, child, ran,
                 shown>>

-----------------------------------------------------------------------------
(* The storage tool is a process of its own: nothing kills it when its     *)
(* parent dies, and its exit status says nothing of what it wrote.         *)

ToolWrites(id) ==
  /\ HasChild(id) /\ ~child[id].wrote
  /\ After(dev[child[id].target], child[id].step) \in Identities
  /\ dev' = [dev EXCEPT ![child[id].target] = After(@, child[id].step)]
  /\ child' = [child EXCEPT ![id].wrote = TRUE]
  /\ UNCHANGED <<storeVars, procVars, ran, shown>>

Waiting(p, id) == pc[p] = "waiting" /\ mem[p].id = id

(* waitpid and classify_privileged_process_outcome: only a zero exit leads *)
(* to rediscovery.                                                         *)
ToolExits(p, id) ==
  /\ HasChild(id) /\ Waiting(p, id)
  /\ child' = Without(child, {id})
  /\ pc' \in {[pc EXCEPT ![p] = "rediscover"], [pc EXCEPT ![p] = "recovering"]}
  /\ UNCHANGED <<storeVars, lock, plan, mem, step, seen, dev, ran, shown>>

OrphanExits(id) ==
  /\ HasChild(id) /\ \A p \in Procs : ~Waiting(p, id)
  /\ child' = Without(child, {id})
  /\ UNCHANGED <<storeVars, procVars, dev, ran, shown>>

-----------------------------------------------------------------------------
(* Faulty form: any change of the target proves the step.                  *)
RediscoverAnyChange(p) ==
  /\ pc[p] = "rediscover"
  /\ \/ /\ dev[plan[p].target] # seen[p]
        /\ seen' = [seen EXCEPT ![p] = dev[plan[p].target]]
        /\ pc' = [pc EXCEPT ![p] = "proved"]
     \/ pc' = [pc EXCEPT ![p] = "recovering"] /\ UNCHANGED seen
  /\ UNCHANGED <<storeVars, lock, plan, mem, step, dev, child, ran, shown>>

(* verify_privileged_layer_post_state looks at the layer of the step only: *)
(* the logical volume has exactly the planned size; the filesystem has     *)
(* grown within an unchanged volume.                                       *)
LayerVerified(pl, s, before, fresh) ==
  IF s = LvStep
  THEN /\ before.lv < fresh.lv
       /\ fresh.lv = After(pl.baseline, LvStep).lv
  ELSE /\ before.lv = fresh.lv
       /\ before.fs < fresh.fs
       /\ fresh.fs <= fresh.lv

Rediscover(p) ==
  /\ pc[p] = "rediscover"
  /\ \/ /\ LayerVerified(plan[p], step[p], seen[p], dev[plan[p].target])
        /\ seen' = [seen EXCEPT ![p] = dev[plan[p].target]]
        /\ pc' = [pc EXCEPT ![p] = "proved"]
     \/ pc' = [pc EXCEPT ![p] = "recovering"] /\ UNCHANGED seen
  /\ UNCHANGED <<storeVars, lock, plan, mem, step, dev, child, ran, shown>>

(* persist_privileged_durable_transition: two durable writes.              *)
BeginVerification(p) ==
  /\ pc[p] = "proved"
  /\ Persist(p, VerificationStarted(mem[p]), "closing", "failing")
  /\ UNCHANGED <<lock, plan, step, seen, dev, child, ran, shown>>

ContinueToNextStep(p) ==
  /\ pc[p] = "closing" /\ step[p] = LvStep
  /\ Persist(p, VerificationPassedContinue(mem[p], LvStep, FsStep, seen[p]),
             "ready", "failing")
  /\ step' = [step EXCEPT ![p] = IF pc'[p] = "ready" THEN FsStep ELSE @]
  /\ UNCHANGED <<lock, plan, seen, dev, child, ran, shown>>

Complete(p) ==
  /\ pc[p] = "closing" /\ step[p] = FsStep
  /\ Persist(p, VerificationPassedComplete(mem[p], FsStep, seen[p]),
             "release", "failing")
  /\ UNCHANGED <<lock, plan, step, seen, dev, child, ran, shown>>

(* persist_interrupted inside the execution layer; its error or the        *)
(* original one is returned to apply.                                      *)
Recover(p) ==
  /\ pc[p] = "recovering"
  /\ Persist(p, Interrupted(mem[p]), "failing", "failing")
  /\ UNCHANGED <<lock, plan, step, seen, dev, child, ran, shown>>

(* Faulty form: the interruption is retried until it is stored.            *)
InterruptOnErrorRetrying(p) ==
  /\ pc[p] = "failing"
  /\ IF IsTerminal(mem[p])
     THEN pc' = [pc EXCEPT ![p] = "release"] /\ UNCHANGED <<storeVars, mem>>
     ELSE Persist(p, Interrupted(mem[p]), "release", "failing")
  /\ UNCHANGED <<lock, plan, step, seen, dev, child, ran, shown>>

(* apply: any error of run_locked interrupts a journal that is not         *)
(* terminal.                                                               *)
InterruptOnError(p) ==
  /\ pc[p] = "failing"
  /\ IF IsTerminal(mem[p])
     THEN pc' = [pc EXCEPT ![p] = "release"] /\ UNCHANGED <<storeVars, mem>>
     ELSE Persist(p, Interrupted(mem[p]), "release", "release")
  /\ UNCHANGED <<lock, plan, step, seen, dev, child, ran, shown>>

(* Faulty form: the journal outlives its session.                          *)
ForgetAllButJournal(p) ==
  /\ pc' = [pc EXCEPT ![p] = "idle"]
  /\ plan' = [plan EXCEPT ![p] = None]
  /\ step' = [step EXCEPT ![p] = LvStep]
  /\ seen' = [seen EXCEPT ![p] = None]
  /\ lock' = IF lock = p THEN Nobody ELSE lock
  /\ UNCHANGED mem

(* The session is dropped, and with it the lock.                           *)
Forget(p) ==
  /\ pc' = [pc EXCEPT ![p] = "idle"]
  /\ plan' = [plan EXCEPT ![p] = None]
  /\ mem' = [mem EXCEPT ![p] = None]
  /\ step' = [step EXCEPT ![p] = LvStep]
  /\ seen' = [seen EXCEPT ![p] = None]
  /\ lock' = IF lock = p THEN Nobody ELSE lock

Release(p) ==
  /\ pc[p] = "release"
  /\ Forget(p)
  /\ UNCHANGED <<storeVars, dev, child, ran, shown>>

-----------------------------------------------------------------------------
(* reconcile_abandoned_prewrite.  The journal is shown without the lock.   *)

Show(o, id) ==
  /\ shown[o] = None
  /\ Exists(id)
  /\ shown' = [shown EXCEPT ![o] = record[id]]
  /\ UNCHANGED <<storeVars, procVars, dev, child, ran>>

ReconcileLock(o) ==
  /\ shown[o] # None
  /\ lock = Nobody
  /\ lock' = o
  /\ UNCHANGED <<storeVars, pc, plan, mem, step, seen, dev, child, ran, shown>>

Reconcilable(j) ==
  /\ ~j.mutated
  /\ j.phase \notin {"Executing", "Verifying", "RecoveryRequired"}
  /\ j.phase \notin {"Completed", "Aborted"}

(* Under the lock: inventory, exact match with what was shown, abort.      *)
ReconcileAbort(o) ==
  /\ lock = o
  /\ AllReadable
  /\ Matches(shown[o], shown[o])
  /\ Reconcilable(shown[o])
  /\ \E j \in Abort(shown[o]) :
       UpdateStored(shown[o], j) \/ UpdateFails(shown[o], j)
  /\ lock' = Nobody
  /\ shown' = [shown EXCEPT ![o] = None]
  /\ UNCHANGED <<pc, plan, mem, step, seen, dev, child, ran>>

ReconcileRefused(o) ==
  /\ shown[o] # None
  /\ lock' = IF lock = o THEN Nobody ELSE lock
  /\ shown' = [shown EXCEPT ![o] = None]
  /\ UNCHANGED <<storeVars, pc, plan, mem, step, seen, dev, child, ran>>

-----------------------------------------------------------------------------
(* The environment.                                                        *)

(* Somebody changes the target without the program and its lock, and may   *)
(* grow the volume with it.                                                *)
Drift(t) ==
  /\ dev[t].drift < MaxDrift
  /\ \E grown \in {dev[t].lv, dev[t].lv + 1} \cap 0..MaxGrowth :
       dev' = [dev EXCEPT ![t] = [lv |-> grown, fs |-> dev[t].fs,
                                  drift |-> dev[t].drift + 1]]
  /\ UNCHANGED <<storeVars, procVars, child, ran, shown>>

(* The kernel releases the lock of a killed process.  Its tool runs on.    *)
Crash(p) ==
  /\ pc[p] # "idle"
  /\ Forget(p)
  /\ UNCHANGED <<storeVars, dev, child, ran, shown>>

HostCrash ==
  /\ StoreCrash
  /\ lock' = Nobody
  /\ pc' = [p \in Procs |-> "idle"]
  /\ plan' = [p \in Procs |-> None]
  /\ mem' = [p \in Procs |-> None]
  /\ step' = [p \in Procs |-> LvStep]
  /\ seen' = [p \in Procs |-> None]
  /\ child' = <<>>
  /\ shown' = [o \in Operators |-> None]
  /\ UNCHANGED <<dev, ran>>

ProcStep(p) ==
  \/ TakeLock(p) \/ LockBusy(p) \/ Begin(p) \/ BeginRefused(p) \/ Publish(p)
  \/ Revalidate(p) \/ Precondition(p) \/ Approve(p) \/ Recheck(p) \/ Start(p)
  \/ Spawn(p) \/ SpawnRefused(p) \/ Rediscover(p) \/ BeginVerification(p)
  \/ ContinueToNextStep(p) \/ Complete(p) \/ Recover(p)
  \/ InterruptOnError(p) \/ Release(p)

OperatorStep(o) ==
  ReconcileLock(o) \/ ReconcileAbort(o) \/ ReconcileRefused(o)

ToolStep(id) ==
  \/ \E p \in Procs : ToolExits(p, id)
  \/ OrphanExits(id)

Next ==
  \/ \E p \in Procs, t \in Targets : Plan(p, t)
  \/ \E p \in Procs : ProcStep(p) \/ Crash(p)
  \/ \E o \in Operators : OperatorStep(o)
  \/ \E o \in Operators, id \in DOMAIN record : Show(o, id)
  \/ \E id \in DOMAIN child : ToolWrites(id) \/ ToolStep(id)
  \/ \E t \in Targets : Drift(t)
  \/ HostCrash

Spec == Init /\ [][Next]_vars

(* Asking for the phrase: read_line on /dev/tty, with the lock held.       *)
Prompting == {p \in Procs : pc[p] = "verified"}

(* Everything but the operator's answer: an invocation that is not waiting *)
(* for it runs on until it has dropped its session (the commands of        *)
(* discovery, backup and health check end), a reconciliation that holds    *)
(* the lock finishes (its question came before), and a storage tool exits. *)
(* Nothing in the code bounds how long any of them may take.               *)
Fairness ==
  /\ \A p \in Procs : WF_vars(p \notin Prompting /\ ProcStep(p))
  /\ \A o \in Operators : WF_vars(lock = o /\ OperatorStep(o))
  /\ WF_vars(\E id \in DOMAIN child : ToolStep(id))

FairSpec == Spec /\ Fairness

-----------------------------------------------------------------------------
InSession(p) ==
  pc[p] \notin {"idle", "planned", "begin", "publish", "release"}

Mutators == {id \in DOMAIN record : record[id].mutated
                                    /\ record[id].phase # "Completed"}

TypeOK ==
  /\ lock \in Procs \cup Operators \cup {Nobody}
  /\ dev \in [Targets -> Identities]
  /\ pc \in [Procs -> {"idle", "planned", "begin", "publish", "held",
                       "revalidated", "verified", "approved", "checked",
                       "ready", "waiting", "rediscover", "proved", "closing",
                       "recovering", "failing", "release"}]
  /\ plan \in [Procs -> Plans \cup {None}]
  /\ \A p \in Procs : mem[p] # None => mem[p].plan = plan[p]
  /\ step \in [Procs -> {LvStep, FsStep}]
  /\ \A id \in DOMAIN record : record[id].id = id /\ id.plan \in Plans
  /\ DOMAIN previous \subseteq DOMAIN record
  /\ \A id \in DOMAIN ran : ran[id] \in [{LvStep, FsStep} -> Nat]

(* Write-ahead: whatever fails or crashes, a storage tool that was ever    *)
(* spawned for a journal is known to the journal on disk, as a mutation    *)
(* that may have started, with the manifest it was started for.            *)
WriteAhead ==
  \A id \in DOMAIN ran :
    /\ Exists(id)
    /\ record[id].mutated
    /\ record[id].phase \in MutationPhases
    /\ record[id].execution # None

(* No blind replay (SAFETY.md): over all invocations, retries, crashes and *)
(* reconciliations, no mutation step of a plan is ever spawned twice, and  *)
(* the filesystem step only after the logical volume was verified.         *)
NoBlindReplay ==
  \A id \in DOMAIN ran :
    /\ \A s \in {LvStep, FsStep} : ran[id][s] <= 1
    /\ ran[id][FsStep] > 0 =>
         /\ ran[id][LvStep] = 1
         /\ HasEvent(record[id], "verification-passed-continue")
         /\ record[id].boundary.completed = LvStep
    /\ \A other \in DOMAIN ran : other.plan = id.plan => other = id

(* At most one journal on the host is past its mutation boundary and not   *)
(* completed, and no second storage tool runs beside it, even when the     *)
(* first tool outlived its invocation and the lock is free again.          *)
OneMutator ==
  /\ \A a, b \in Mutators : a = b
  /\ DOMAIN child \subseteq Mutators

(* A session's journal in memory is the one on disk, or the disk is ahead  *)
(* by the one update that was reported as failed: memory is never ahead.   *)
MemoryTrailsDisk ==
  \A p \in Procs : InSession(p) =>
    LET id == mem[p].id
    IN  /\ lock = p
        /\ Exists(id)
        /\ \/ record[id] = mem[p]
           \/ id \in DOMAIN previous /\ previous[id] = mem[p]

(* A completed journal carries identities that prove both layers: the      *)
(* volume at the planned size before the filesystem was touched and still  *)
(* at the end, and a filesystem grown since the plan, each step spawned    *)
(* once, whatever else changed behind the program's back.                  *)
CompletedMeansVerified ==
  \A id \in DOMAIN record : record[id].phase = "Completed" =>
    LET j == record[id]
    IN  /\ j.boundary.identity.lv = After(j.baseline, LvStep).lv
        /\ j.boundary.finalIdentity.lv = j.boundary.identity.lv
        /\ j.boundary.finalIdentity.fs > j.boundary.identity.fs
        /\ Ran(id) = [s \in {LvStep, FsStep} |-> 1]

(* The host storage lock is kept only for an answer: whoever holds it lets *)
(* it go, whatever fails, or comes to ask the operator, who may leave the  *)
(* prompt alone for ever.  Once the operator has answered, with the phrase *)
(* or without, nothing but a storage tool that never exits keeps the lock. *)
LockReleased ==
  \A h \in Procs \cup Operators : lock = h ~> lock # h \/ h \in Prompting
=============================================================================
