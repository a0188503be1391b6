# A TLA+ model of the Linux Storage Manager

The program (`src/crates`) changes partitions, logical volumes, filesystems and
swap of a running host.  It plans on a read-only snapshot, takes a lock, writes
a journal ahead of every step that may change the storage, starts one storage
tool at a time, and believes no exit status: each step is proved by a fresh
discovery.  When anything goes wrong after the first mutation it stops for good
and leaves the evidence.

The models look at it from two sides.  One group of modules has the control and
leaves the data out: what the journals say when an invocation, its host or a
write fails at any point, and what the next invocation then does.  The other
has the data and leaves the journals out: what a planner computes from a
snapshot, what each gate between the plan and the last verified layer compares,
what the tools do to the machine, and what becomes of all that when the machine
changes in between.

## Components of the system

| component | state | operations | how it interacts |
|---|---|---|---|
| operation journal (`planner/execution_guard.rs`) | phase, mutation flag, approval, execution and boundary bindings, events | `new`, `apply` with eleven transitions, `resume_disposition` | a value; sessions apply transitions to a copy and persist the copy |
| record validation (`executor/journal_store.rs`) | none | `validate_journal`, three binding validators, `history_matches_final` | on every load and every write of a record |
| durable store (`executor/journal_store.rs`) | the directory of journals: records, archived states, staging files | `persist_new`, `persist_if_matches`, `all`, `load`, `inspect` | called by sessions and by the reconciliation; readers run beside writers |
| isolated writer (`executor/journal_fd.rs`) | a forked child, a socket pair, a cancellation flag | `write_staged_file` | creates the staging file of every write |
| host storage lock (`executor/lib.rs`) | `flock` on one file | `try_acquire_path`, `Drop` | one session or reconciliation at a time; it does not cover the tools |
| locked session (`executor/locked_session.rs`) | lock, journal in memory, handoff | `begin_durable`, `revalidate`, nine `persist_*` | the only way a command advances a journal |
| apply extend (`cli/apply_extend.rs`) | control state of one invocation | plan, lock, revalidate, backups, evidence, approve, recheck, execute twice | drives a session and the execution layer |
| privileged step (`production_prepare`, `production_descriptor_exec`, `production_verified_step`, `privileged_continue`, `privileged_verify`) | receipts | prepare, gate, spawn, classify, rediscover, verify, persist | between the session and the tool |
| reconciliation (`executor/reconciliation.rs`) | the journal shown to the operator | `reconcile_abandoned_prewrite` | aborts an abandoned journal under the lock |
| request, command, pinned tools, permits, launch (`privileged_*`) | sealed values | compile, resolve, pin, seal | computed from one another, checked before each spawn |
| consent and consent lease (`production_*consent*`) | a record in a root-owned file | record, pin, revalidate | revalidated right before each spawn |
| metadata backups and evidence (`backup_*`, `precondition_evidence`) | backup files, receipts | capture, revalidate | required before the approval and before execution |
| create, mount and persistent runtimes (`production_create_*`) | three journals of their own, `fstab` | activate, consent, launch, execute, configure | share the lock and the directory with the sessions above |
| swap runtime and partition removal (`production_swap_*`) | a journal of its own, `fstab` | activate, execute, configure, remove | same |
| chained execution (`production_chained_*`) | as apply extend, with more steps | request, spawn, verify, continue | same session and journal |
| GPT tail creation (`planner/gpt_tail_intent`, `production_gpt_tail_*`) | sealed values | freeze, seal, consent, preflight | ends at the preflight; has no caller in production |
| planner (`planner/*`) | none | `plan_extend`, `list_extend_targets`, `plan_create`, swap migration, route graph, identity manifests, handoffs | pure functions of a snapshot |
| discovery (`discovery/*`) | none | snapshots, reconciliation of sources, capacity analysis, resume, room and path evidence | a dozen tools and files, read one after another |
| command line, TUI, core types, disposable executors and harnesses | | | presentation, tests |

What is hard in it: the storage tool is a process of its own, with no time limit,
no death signal and no part of the lock; every durable write can fail after it
took effect; host crashes undo directory changes that were not synced; the
operator confirms what was read without the lock; the storage can change behind
the program's back; readers of the directory run beside a writer; the code that
writes a record and the code that accepts it when it is read were written apart.
`PROJECT.json` lists each place under `hazards` with the property that covers it.

What makes each part correct, in a sentence: the journal never reaches a state
its own store refuses; the store never loses what it acknowledged and never
makes itself unreadable by succeeding; a tool is never started before the disk
says so and never started twice; two mutations never overlap; completion means
both layers were seen; the lock is always released.  A planner offers what the
geometry allows to the sector, and nothing that a later gate, a tool or the
verification turns down; what a session reports at its end is true of the
machine, whatever others did to it meanwhile.

Nothing that a session reads is held still: the lock keeps invocations of this
program apart, not other administrators, and a discovery may read its first
half before a change and its second half after it.

## Modules

`OperationJournal` has no variables.  It translates the transitions of the
journal, the bindings with the fingerprint each carries of itself, and the
validation of records.  A call that may fail returns a set: the new journal, or
nothing.  A fingerprint is the constant operator `Fingerprint`.

`JournalMachine` (`MCJournalMachine`) is one journal and every call a caller
could make on it, including approvals and execution bindings for other plans,
other targets, earlier states, or altered after they were sealed.

`DurableStore` is what the store promises to a session, one action per outcome
of a persist call.  A failed call may have left a staging file, the exchanged
files, or the new record in place; `StoreCrash` undoes changes that were not
synced.

`JournalStore` is the same store one file-system operation at a time: the
creation, the renames and the fsyncs of `persist_new` and `persist_if_matches`,
with a concurrent `all()` that reads names, files, names again and its inotify
watch.  `log` holds the directory as it was after each change since the last
fsync; a host crash keeps any one of them.  A journal is only its ID and its
number of events here, since the store asks nothing else of it.  `Abs` is the
refinement mapping to `DurableStore`: during a call the abstract state is the
one the call began in, and the abstract step is the return of the call.

`StagedWriter` is `write_staged_file`: the parent and the child it forks, the
request and the report, the cancellation flag, every system call that may fail,
and a kill of either process between any two steps.

`ApplyExtend` (`MCApplyExtend`) extends `DurableStore`.  An action is one step
of an invocation between two places where something else can happen:

| action | code |
|---|---|
| `Plan`, `TakeLock`, `LockBusy` | `apply` up to `begin_durable`, `try_acquire_path` |
| `Begin`, `BeginRefused`, `Publish` | `begin_with_lock`, `next_attempt_id`, `persist_new` |
| `Revalidate`, `Precondition`, `Approve` | `run_locked`: the first three durable transitions |
| `Recheck`, `Start` | rediscovery before execution, `persist_execution_started` |
| `Spawn`, `SpawnRefused` | `validate_current_step` and the spawn, or a failure on the way to it |
| `ToolWrites`, `ToolExits`, `OrphanExits` | the storage tool, `waitpid` and the classification of its exit |
| `Rediscover` | `discover_verified_post_state`: the layer of the step only |
| `BeginVerification`, `ContinueToNextStep`, `Complete` | `persist_privileged_durable_transition` |
| `Recover`, `InterruptOnError`, `Release` | `persist_interrupted` in the execution layer, then in `apply`; the end of the session |
| `Show`, `ReconcileLock`, `ReconcileAbort`, `ReconcileRefused` | `operations` / `reconcile_abandoned_prewrite` |
| `Drift`, `Crash`, `HostCrash` | the environment |

`Persist` is the shape all `persist_*` methods share: `require_current_durable_journal`,
the transition on a copy, the write, and only then the copy becomes the journal
in memory.  `revalidate` does not reread the inventory, and neither does its
action.  The identity of a target is the size of the volume, the size of the
filesystem, and a counter for everything else; sizes are counted in growths.
Discovery is one step here, although it runs several commands.

`RecordStore` is what the store of the create journals promises, one action per
outcome of a call.  Unlike `DurableStore` it replaces the record by a rename and
keeps nothing of the earlier state; and a call that is interrupted between the
link of a new record and the removal of its temporary name leaves a file with
two names, which `load` and `persist` refuse from then on.  `file` holds the
record and its number of names, `undo` what a host crash may put in its place.

`ReplaceStore` (`MCReplaceStore`) is that store one file-system operation at a
time: the temporary file, its fsync, the link or the rename, the fsync of the
directory, and the removal of the temporary file when any of them failed.  As
in `JournalStore`, `log` holds the directory after each change since the last
fsync, and `Abs` maps it to `RecordStore`.

`CreateRuntime` (`MCCreateRuntime`) extends `RecordStore` with the creation of
a partition and a filesystem on a blank disk, called in the order in which
`production_create_loop_harness.rs` calls it.

| action | code |
|---|---|
| `Activate` | discovery, plan, frozen intent, `seal_production_create_activation_intent` |
| `WriteConsent`, `WriteConsentFails` | `create_exact_create_consent` |
| `Pin`, `Permit` | the consent lease, `seal_production_create_execution_permit` |
| `PreflightSnapshot`, `PreflightConsent` | `prepare_production_create_runtime_preflight`, tool lease, launch |
| `PersistNew`, `TakeLock` | `persist_new_production_create_runtime_journal`, then `try_acquire_at`: in this order |
| `CheckPartitionCrossing`, `CheckFilesystemCrossing` | the checks both crossings begin with |
| `Transition`, `TransitionFails` | `persist_production_create_runtime_transition` |
| `Spawn`, `Await`, `Partx` | `run_stage`, `run_partx_stage_with_exact_reconciliation` |
| `Rediscover`, `RediscoverBeforeFormat`, `VerifyFilesystem` | `discover_exact_partition`, `discover_exact_filesystem` |
| `RecheckConsent` | the second revalidation before `BeginFilesystemFormat` |
| `Fails` | every other early return; to the recovery record where the code writes one |
| `DropLock`, `DropGuard` | the locals of `execute`, dropped in reverse order |
| `Kill`, `HostCrash`, `ToolWrites`, `ToolSucceeds`, `ToolFails`, `KernelMaps`, `OperatorRemovesConsent` | the environment |

The ID of a create journal is a digest of everything a launch is bound to.  For
one disk and one request only the identity of the consent file differs from one
launch to the next, and of it only the inode number, which a file system may
give out again.  In the model the ID *is* that inode number, and the number is
free when neither the path nor an open descriptor has it.  This is why the
descriptor of the lease matters: without it a second consent could get the
number of the first, and the revalidation could not tell them apart.

`MountRuntime` (`MCMountRuntime`) extends `RecordStore` with what the same
harness does next: the filesystem is mounted under one journal, and its line is
added to `fstab` under another.  There is one invocation; what it races is the
operator, who edits `fstab` and mounts and unmounts, and the crashes.  The
steps that only look at the host or at a record, and go on or give up, are
entries of one table, `Looks`; so are the transitions of both journals.

| action | code |
|---|---|
| `LookAndGo`, `LookFails` | every discovery and check: activation and preflight of the mount, `discover_exact_mount`, `verify_live_*`, the reading back of `fstab`, the receipt |
| `PersistNew`, `PersistNewFails` | `persist_new_production_create_mount_runtime_journal` and its sibling |
| `Transition`, `TransitionFails` | the transitions of both journals; past the boundary a failed one leads to `RecoveryRequired` |
| `Spawn`, `SpawnFails`, `Await` | the pinned `mount` |
| `ReadFstab`, `CreateBackup`, `WriteBackup`, `SyncBackup` | `append_exact_fstab_entry`, `ensure_backup` |
| `WriteTemp`, `Recheck`, `Rename`, `SyncEtc` | `atomic_replace` |
| `UpdateFails` | an error in any of them |
| `Kill`, `ToolExits`, `HostCrash`, `EditFstab`, `OperatorMounts` | the environment |

In `MountRuntime` `fstab` is a set of lines: ours, a rival for the same source or mountpoint, and
notes about something else.  `etc` holds its versions since the last fsync of
the directory, each with whether its data is on disk; a host crash keeps any
one.  `backup` is the copy beside the journal, `unsaved` what a crash may make
of it.  The flags of both journals follow from the phase (`validate_journal`
refuses them otherwise), so a record is a phase.

`SwapRuntime` extends `RecordStore` with the swap migration, in the order in
which `production_swap_loop_harness.rs` calls it: a swapfile is created,
formatted and activated, the old partition is deactivated, its line in `fstab`
is rewritten, and the partition is removed with its extended container.  It is
one long chain under one journal, so the module is three tables and their
actions: `Forward` and `Recovery` (the transitions), `Tools` and `Looks`.

| action | code |
|---|---|
| `LookAndGo`, `LookFails` | every discovery and check of the three crossings and of both removal preflights |
| `CannotLookAfterSwapoff` | the discovery after `swapoff`, whose error is returned at once |
| `PersistNew`, `Transition`, `TransitionFails` | `persist_new_...`, `persist_production_swap_runtime_transition`, `persist_recovery` |
| `CreateSwapfile`, `SyncParent` | `create_exact_swapfile` |
| `Spawn`, `Await`, `AwaitFails`, `ToolExits` | `run_stage`, and the six storage tools |
| `ReadFstab` to `SyncEtc` | `update_persistent_config_at`, `ensure_backup`, `atomic_replace` |
| `CaptureDump` to `SyncDump` | `ensure_secure_backup`, run by each preflight |
| `Kill`, `HostCrash`, `EditFstab`, `OperatorSwaps`, `OperatorAddsSibling` | the environment |

The three tools of the runtime crossing and the three of the removal may do
what they are for, part of it, or nothing, and exit with any status.  After a
crash of the host the active swaps are those of `fstab` whose partition or
formatted file exists.  Where the harness passes in a snapshot and an `fstab` of
its own, the module has what the functions without that suffix do: a fresh
discovery and `/etc/fstab`.

### The modules with the data

| module | code | what it says |
|---|---|---|
| `HostSnapshot` | `core/lib.rs`, `discovery/snapshot.rs`, look-ups of the planner | the parts of a snapshot, with device names and UUIDs as model values; look-ups that have to be unique |
| `DiskLayout` | geometry in `planner/lib.rs` | free ranges, the space behind a partition, the usable span of a blank disk, for GPT and DOS |
| `Discovery` | `discovery/*` | ten reads made into a snapshot, the errors of its cross-checks, three more reads for a swap migration |
| `CapacityAnalysis` | `discovery/analysis*` | `analyze_extendability`, the advisory answer |
| `StorageRoute` | `planner/route_graph.rs` | the layers under a target and the profile that covers them |
| `ExtendPlanner` | `planner/lib.rs` | `plan_extend` with its four routes, the layout opportunity, `list_extend_targets` |
| `ExecutionHandoff` | `identity_guard.rs`, `filesystem_policy.rs`, `privileged_verify.rs` | the manifest of a target, the readiness of the handoff, what proves one layer |
| `SealedChain` | `backup_*`, `execution_intent.rs`, `native_operation.rs`, `privileged_argv.rs`, `production_activation.rs` | backups, evidence, the frozen intent, the profiles, the compiled step |
| `OperatorConsent` | `production_*consent*` | the file, what a receipt names of it, the lease |
| `SharedHost` | the storage tools and other administrators (external) | the machine, what the tools do to it, what others do |
| `Session` | what the three sessions share | `seen`, `plan`, `consent`, `lease`, `stage`; a gate opens the next stage or ends the run |
| `GrowSession` | `cli/apply_extend.rs`, `production_chained_*` | one growth |
| `CreatePlanner`, `CreateActivation`, `CreateSession` | `plan_create`, `create_intent.rs`, `gpt_tail_intent.rs`, `production_create_*`, `production_gpt_tail_*` | one creation |
| `SwapPlanner`, `SwapActivation`, `SwapSession` | `swap_migration.rs`, `production_swap_*` | one swap migration |
| `StorageSession` | | a host and one session of any of the three kinds |

A machine has the fields of a snapshot, with the filesystems as they are in
place of the evidence about them, the collectors whose command fails
(`broken`), and the tools that are installed.  `Read(was, now, cut)` is a
snapshot whose first `cut` reads saw the machine before a change and whose
others saw it after; a session may get any of them.  `ErrorsOf` is the part of
the reconciliation that decides something: the errors, by device.

`was` is the machine before the last change somebody else made since the
session's last step, so it can be torn over one change: this is why
`MaxInterference` is 1 in the run.

| action of `GrowSession` | code |
|---|---|
| `Discover`, `PlanGrowth` | `discover_snapshot`, `plan_extend`; `apply extend` narrows MaxFree to the extents of the group |
| `HandOff` | `build_frozen_execution_handoff` |
| `Revalidated` | the fresh snapshot behind the lock, against the frozen manifest and tools |
| `BackUp`, `GatherEvidence`, `Approve` | capture of the metadata artifacts from the live host, the filesystem decision, the phrase |
| `FreezeIntent` | `freeze_execution_intent`, `build_native_operation_manifest` |
| `Seal` | the last discovery and the production profile |
| `PinConsent` | consent recorded (command line) or read (chained), and held open |
| `Prepare`, `Spawn` | one request compiled against the last verified manifest; the consent looked at again, the process |
| `VerifyLayer` | rediscovery until the layer shows; it becomes the baseline of the next step |
| `Interfere` | another administrator changes the machine, or the operator his consent |

| action of `CreateSession` | code |
|---|---|
| `ListSources`, `PlanCreation` | `list_provisioning_opportunities`, `plan_create` |
| `FreezeCreation`, `SealCreation` | `freeze_*_create_intent`, `seal_production_*_create_activation_intent` |
| `ConsentCreation`, `PermitCreation` | the consent, its lease and the permit |
| `PreflightCreation`, `LaunchCreation` | `prepare_production_*_runtime_preflight`; the pinned tools and the launch |
| `Partition`, `VerifyPartition` | `execute_production_create_partition_crossing` |
| `RecheckPartition`, `Format`, `VerifyFilesystem` | `execute_production_create_filesystem_crossing` |

| action of `SwapSession` | code |
|---|---|
| `FreezeMigration`, `SealMigration` | `plan swap-migration --freeze-intent`, the profile |
| `ConsentMigration`, `PreflightMigration`, `LaunchMigration` | consent and lease, fresh evidence, tools and launch |
| `CreateSwapfile`, `ActivateSwapfile`, `VerifyBoth`, `RetireSwap`, `VerifyRetired` | `execute_production_swap_runtime_replacement` |
| `UpdateFstab` | `update_production_swap_persistent_config` |
| `PrepareRemoval`, `RecheckRemoval` | `prepare_production_swap_partition_removal`, twice |
| `DeletePartitions`, `ForgetPartitions`, `VerifyRemoval` | `execute_production_swap_partition_removal` |
| `MeddleSwap` | another administrator, about swap |

Abstractions.  Device paths, UUIDs and line sources that name one device are one
model value.  A digest is the value it digests: the chain is built in one
process from values nothing else writes, so permits and receipts that only
repeat digests are left out.  `partx` that fails although the kernel has the
partition counts as success, because the verification that follows reconciles
it.  A filesystem that somebody makes on a bare device is an xfs, so that a new
label destroys its signature.  Partition numbers are not modelled: a record
inside a container is a logical one.  The tools a swap migration asks for are
read with those of the snapshot.  A tool lease checks what its descriptor says,
which nothing in the model can change.

### Faulty forms

Definitions that begin with "Faulty form" are plausible mistakes in the
definition that follows them.  They are used by nothing; each is a mutation
under which one property fails.

## Runs

| run | instance | distinct states | shows |
|---|---|---|---|
| `journal_machine` | 2 plans, 2 targets, routes of 1 to 3 steps, 11 events | 294 | `StoreAccepts`, `RestartOnlyBeforeMutation` |
| `apply_race` | 2 invocations, 1 target, 2 attempts per plan | 276 thousand | `OneMutator`, `MemoryTrailsDisk`, `WriteAhead`, `NoBlindReplay` |
| `apply_drift` | 1 invocation, 1 operator, 1 change behind its back, with fairness | 466 thousand | `TypeOK`, `CompletedMeansVerified`, `LockReleased` |
| `journal_store` | 2 journals of 2 events, 1 reader | 37 thousand | `CrashConsistent`, `ReadIsCurrent`, `ImplementsDurableStore` |
| `staged_writer` | a record of 3 writes | 200 | `OkMeansDurable`, `NoWriterLeft`, `CallReturns` |
| `replace_store` | 2 IDs, 2 records, 4 calls | 182 thousand | `AcknowledgedLoads`, `ImplementsRecordStore` |
| `create_runtime` | 2 invocations, 2 inodes, consents removed at any time | 679 thousand | `WriteAhead`, `NoBlindReplay`, `ConsentInForce`, `NothingOverwritten` |
| `mount_runtime` | 2 notes, 2 edits or mounts by the operator, at any time | 56 thousand | `WriteAhead`, `FstabWhole`, `CompletedDurable`, `AmbiguityRecorded`, `EditsSurvive` |
| `swap_runtime` | 1 note, 2 acts of the operator, at any time | 324 thousand | `WriteAhead`, `SwapAlways`, `SiblingSpared`, `EditsSurvive`, `CompletedTrue`, `AmbiguityRecorded` |
| `swap_ambiguity` | the same | stops | `DiscoveryFailureRecorded` is violated: see the findings |
| `storage_session` | 68 machines, 4 growth requests, 15 creation orders, 2 migrations, 1 act of others | 105 thousand | the eight properties below |
| `grow_reformat` | the same | stops | `FilesystemKept` is violated: see the findings |

`storage_session` asks of the three kinds of session:

- `PlansHonoured`, `CreatePlansHonoured`, `SwapPlansHonoured`: on a machine
  nobody else touches, what a planner computed is turned down by no later gate,
  by no tool and by no verification.  Every reason a growth may stop for is
  constrained.  The exceptions are named in the properties and listed under
  "What the code does not promise"; for growth and for `AnalysisAgrees` there is
  a machine for each of them (`KeptHosts` and its neighbours), and the run fails
  without any one of them.
- `GeometryExact`: every free sector of a table is offered once, a tail is a
  tail, and the gain of a layout opportunity is what the table has once the
  container is gone.
- `MaxFreeIsMax`: MaxFree is granted and one byte more is not.
- `AnalysisAgrees`: the advisory analysis and the planner, written apart, agree
  both ways.  What the planner offers is what the analysis counts, or all of it
  to the last whole extent; and where the analysis finds room the planner offers
  it, unless something is missing that only the planner asks for (`Withheld`).
- `BackupRestores`: every layer that was changed is in an artifact as the frozen
  manifest had it.
- `OutcomesHeld`: whatever others did, "done", "created", "migrated" and the two
  preflights are true of the machine before or after the last change.

Why the bounds are enough.  A full journey of a journal over three steps has
eleven events.  Two invocations are what a race needs: the lock admits one, and
a third adds only another one that waits; the tool of a killed invocation counts
as a third actor.  `MaxAttempts` is 2 where retries matter, so the second attempt meets the
first one's record in each of its states.  Invocations return to `idle` and start again,
so a run has any number of them in a row.  `MaxGrowth` bounds what a tool may
write.  The change behind the program's back falls between any two of its
steps, and may be one that grows the volume.  In `journal_store` an archive of
each length and a second journal that must stay untouched are present.

Four calls of the replacing store are a creation, a replacement, one that
fails on the way, and one more over what that left.  The disks of `storage_session` have 40 bytes in sectors of 1, 2 or 4, an
alignment of 4, extents of 2 and a physical volume that loses 1 to its header,
so that every rounding has a remainder somewhere.  The machines are picked one
by one: each route of the planner, each refusal that a later gate repeats, each
geometry (gaps, tails aligned or not, overlapping records, a container), a tool
or a collector missing, each exception that the properties of growth name, a swap area that fills its partition or does not.  One
act of others falls between any two steps, or inside any discovery.

Two inodes are few
enough that they are used again, which is the case that matters in
`create_runtime`.  Invocations return to `start`, so a run has any number of
them in a row.  Two acts of the operator in the mount and swap runs are one that
falls between two checks of the program and one that follows.

In `MCJournalMachine` fingerprints are collision-free.  In `MCApplyExtend` they
are all equal, so that the integrity checks reject nothing: the properties there
hold without them.

Deadlock is checked except in `journal_machine`, where a terminal journal accepts
nothing, in `staged_writer`, where the call ends, in `replace_store`, where
the number of calls is bounded, and in the mount, swap and session runs, where
the invocation ends and the operator has done what he may.

`NothingOverwritten` is stated as long as `hasty` is
false: every consent that was removed by the operator was removed while no
invocation and no tool was running.  The program cannot see to that.  When an
invocation is killed, its lock is free and its `sfdisk` or `mkfs` runs on;
nothing reads the disk again between the preflight, which precedes the lock, and
the first write; and the consent file that the killed invocation left is the
only thing that keeps the next one out.  An operator who removes it too early
lets a second `sfdisk` run beside the first.  The other properties of
`create_runtime` do not need it: they are those the program guarantees by
itself.  `ReplaceStore` assumes one writer at a time, which the host lock and
the refusal to replace a consent see to.

`EditsSurvive` excludes in the same way, with `raced`, the edits the program
cannot see.  In `MountRuntime` these are the edits that fall between the
comparison in `atomic_replace` and the rename.  In `SwapRuntime` they are those
and one kind more: its `atomic_replace` compares inode and length and not the
contents, so an edit in place that keeps the length is lost from the moment the
file was read.  `SiblingSpared` excludes partitions that are created after the
last dump of the table, and `SwapAlways` swaps and lines that the operator
changed himself.

### Findings

`docs/M1B_HANDOFF.md:259` says that target drift fails immediately into durable
recovery.  The UUID of the filesystem is part of the manifest of a target, but
the verification of the volume reads only volumes, and the manifest it was read
from is the baseline of the filesystem step.  An unmounted ext4 that somebody
formats again between the consent and the step of the volume is grown, and the
run completes (`grow_reformat`).

`docs/M1B_HANDOFF.md:317` says of the swap crossing that any runtime
ambiguity after crossing starts is forced into durable `RecoveryRequired`, and
the comment of the function says the same.  All its checks do that but one: when
the discovery after `swapoff` fails, the error is returned by `?`
(`production_swap_runtime_exec.rs:461`), and the record stays at
`DeactivatingOldSwap`.  With that case apart, `AmbiguityRecorded` holds.

The runtimes also differ in what they do when the write of a transition fails
after a tool has run.  The mount and the persistent configuration of the create
route try to record `RecoveryRequired`; the partition and filesystem crossings
and the swap migration return at once, except for `Completed`.  The record on
disk then still says that the disk may have changed (`WriteAhead`).

### What the code does not promise

The properties of `storage_session` name what a plan may still meet on a machine
nobody else touches.  None of it loses data; each strands a run, or refuses
late what could have been refused early.

Growth.  The planner grows a partition in sectors of any power of two, and
`freeze_execution_intent` only in those of 512 or 4096.  The planner does not
ask whether a mounted filesystem may grow where it is: an ext4 whose superblock
was not read (no `tune2fs`) or lists features outside the policy, and an XFS
whose dry run fails, are refused by the handoff, and an ext4 that wants a check by
the evidence.  The route through the physical volume asks for no tool, although
its preview lists tooling as verified: without the tool that grows the filesystem
the handoff is refused, without `sfdisk` or `vgcfgbackup` the backup, and a
missing `pvresize` or `lvextend` is found only after the partition has grown.
That route does not ask for the UUID of the filesystem either, which the profile
does.  A plan for an unmounted ext4 does not ask that its size can be observed,
and its verification then fails after the volume has grown.  The same route
compares the size of the volume in `lvs` with nothing.  `MaxFreeIsMax` is
therefore stated where every tool is there, the filesystem has a UUID, and
`lsblk` and `lvs` agree.  A plan by bytes of a filesystem on a whole device grows
it to all of the device.  Plans that only grow a partition or a whole filesystem,
and plans through the physical volume that need no partition, have no production
profile, and `apply extend` runs none but that of a volume with free extents.
The backup of a table holds the records of its neighbours, its manifest does not.
Nothing is discovered between a verified step and the next spawn.

Analysis.  `analyze_extendability` finds room that `plan_extend` does not offer
where one of the collectors the analysis does not need failed, a tool of the
route is missing, the target is mounted twice, or not at all and has no free
extents, the partition has a protected type, the volume is not linear, the group
is read-only or has a second physical volume, or the room is less than an extent.
It makes no difference between a reading of one moment and a torn one; the
planner refuses some that are torn.  Where the analysis says `unknown` or
`needs_geometry` it makes no claim, and the planner may offer a plan.

Creation.  `plan_create` offers gaps, groups and other purposes for which there
is no activation, tails that `freeze_gpt_tail` finds unaligned, and a disk that
`fstab` names as a blank one, which only the preflight turns down.  The
preflight is the last look at the disk: neither the lock nor `sfdisk` looks
again.  An old superblock where the new partition starts is taken for a use of
the partition, after the table was written.  The free ranges of a DOS disk are
not cut at 2^32 sectors, as the growth and the blank-disk geometry are.

Swap.  An active area that does not fill its partition passes the planner and
the preflight, and fails when both areas are compared after `swapon`.  A negative
priority, as the kernel hands out, cannot be given to `swapon`, which is found
when the swapfile exists.  `sfdisk` and `partx` are asked for when the old swap
is gone and `fstab` is rewritten.  The planner accepts a dump field above 1 and a
pass field above 2, the profile does not.

## Fairness

`apply_drift` assumes three things.  An invocation that does not wait for its
operator runs on until it has dropped its session, which includes that the
commands it calls for discovery, backups and health checks end.  A
reconciliation that holds the lock finishes: it has asked for its confirmation
before it takes the lock (`main.rs:346`).  And a storage tool exits.  The
commands and the tools are an assumption about them: nothing in
`privileged_exec.rs` or in discovery bounds how long one may run, and the
invocation waits with the lock held.

Of the operator of `apply extend` nothing is assumed.  The lock is taken in
`begin_durable` (`apply_extend.rs:90`), and the phrase is read from `/dev/tty`
behind it, without a timeout (`apply_extend.rs:185-187`).  An operator who
leaves the prompt alone keeps every other storage operation of the host out for
as long as he likes.  `LockReleased` therefore says that whoever holds the lock
lets it go or comes to that prompt (`Prompting`); behind the prompt there is no
other, so that an answer, right or wrong, is followed by the release.  That
`read_line` returns is the one thing the release of the lock needs of a person.

No fairness is assumed of `Plan`, of crashes, or of the success of any write.
`staged_writer` assumes that both processes are scheduled, and nothing of which
system calls succeed.

## Proofs

`ApplyExtendProofs`: `WriteAhead` and `OneMutator` for every set of
invocations, operators and targets and every bound, from `ApplyAssumption`.
Neither is inductive.  `OneMutator` needs to know that a session that is about
to start a tool holds the lock, that its journal is the one on disk, that no
other record blocks its plan, and that any other unfinished mutation on disk
keeps every other session before its own mutation boundary; `WriteAhead` needs to
know, moreover, which records may still be undone by a host crash: a record
that has a tool is never among the `unsynced` ones, because the fsync precedes
the spawn in the same session and a later failed write of the same journal
displaces a state that has the mutation flag too.  `IInv` is the conjunction of
these facts; `Inductive` proves it step by step, with one lemma per kind of
write.  On top of it the module proves `TypeOK`, split into what concerns the
target, the sessions and the disk.

The same module proves `MemoryTrailsDisk`, `NoBlindReplay` and
`CompletedMeansVerified`, which need more of the data than `IInv` says.
`ReplayInv` relates each record on disk, and each one a crash may bring back, to
the steps that were spawned under it: how often each ran follows from the
events, a filesystem step only from a boundary with the verified volume on
record, and a completed record has both identities.  For a session it says
that its journal in memory is the one on disk, or the disk is one failed update
ahead, and which events, spawns and identities each control state stands for.  A
second journal of the same plan cannot have spawns of its own, because a session
only goes on where every other record of its plan was aborted before any
mutation.

`JournalProofs` has the journal and its store, in three sections.  The first is
about the state machine: `StoreAccepts` and `RestartOnlyBeforeMutation`, for any
plans, targets and step sequences and any number of transitions.  The store
checks an approval or a boundary against a state it reconstructs by cutting the
history before the event that made it.  `JInv` says that there is one way only
to each phase up to `Executing`, so the reconstructed state is the one that was
approved; the rest of it describes the chain of events, what approval and boundary
are bound to in each phase, and that the states of the history extend each other.
The theorems have one hypothesis, `OptionsDiffer`: no binding record is `None`, as
`Option::None` is not a `Some`.  It quantifies over all values of the fields, so
TLC cannot evaluate it as an `ASSUME`.

The second section is about `JournalStore`: `CrashConsistent`, `ReadIsCurrent`
and `ImplementsDurableStore`, for any IDs, numbers of events and numbers of calls.
`DInv` is about each directory a crash may leave: a name tells what is under it,
and every earlier state of a record is archived, or is the one that the exchange
put under the temporary name; `CrashConsistent` follows.  `ReaderInv` says that
what `all()` has read is what the directory holds as long as its watch has seen
nothing.  For the refinement it matters how much a crash may take back.
`PendingInv` says it ID by ID: the directory of the last fsync differs from the one
in place by one rename at most (the publication, the exchange or the archiving)
and by the creation of one staging file, and every other directory a crash may
leave by the latter alone.  `BaseInv` compares the directory with the one the call in
progress began in.  The steps of a call are stutters, an Ok is `NewStored` or
`UpdateStored`, a failure is the one of `DurableStore` for the step it ends in, and
for a crash the proof names the IDs whose rename and whose staging file are gone.
Archiving needs care: a failed archive leaves the displaced state under the
temporary name in one of the directories, and a staging file made after it has
the same name, so `PendingInv` keeps that some directory has neither.  The last
section is about the isolated writer of the staging file: `OkMeansDurable` and
`NoWriterLeft` of `StagedWriter`, for records of every length and for any failing
or killed process.  Its `WInv` says that nothing is reported before it is done and
that the parent does not end before the child.

`RecordStoreProofs`: lemmas on the store that replaces a record by rename
(`RecordStore`), one per call and outcome: what the call does to the record of
its ID, to what a crash may leave of it (`Outcomes`), and that it leaves the
other IDs alone.  The three runtimes below cite these and expand no call.

`ReplaceStoreProofs`: `AcknowledgedLoads`, and `ImplementsRecordStore`: the
directory with its temporary files, links, renames and fsyncs behaves as
`RecordStore` says, on which the proofs about the three runtimes rest.  `RInv` has
two layers.  `FileInv` numbers the inodes by calls and says which names the inode
of the call in progress has in every state a crash may bring back; it gives one
lemma per step on what becomes of the entries.  `EntryInv` speaks of entries only:
the other IDs are as the call found them, and its own has come as far as the step
says.  The refinement follows step by step: a call that goes on is a stutter, an Ok
is `Created` or `Replaced`, and each way to fail is one `RecordStore` allows.

`CreateRuntimeProofs`: `WriteAhead`, `NoBlindReplay`, `ConsentInForce` and
`NothingOverwritten`, the last three as action properties, for any number of
sessions and inode numbers.  `RuntimeInv` says that a session from the creation
of its journal to its last transition holds that journal alone, that every
outcome of a crash is the journal it remembers, and which tools its control state
stands for.  `RevokedInv` adds, for `ConsentInForce`, that the inode number of a
pinned consent is not given to another file; `OverwriteInv`, for
`NothingOverwritten`, that there is one invocation and one tool at work as long
as no consent was removed early, and what each stretch may rely on of the disk.

`MountRuntimeProofs`: `FstabWhole`, `CompletedDurable`, `EditsSurvive`,
`WriteAhead` and `AmbiguityRecorded`, for any lines in `fstab` and any number of
edits.  A crash may bring back any version of `fstab` since the last directory
sync, so `MountInv` speaks of all of them: which are possible in which stretch,
what the backup and the temporary file hold, and what the last comparison is
worth after an edit.

`SwapRuntimeProofs`: `WriteAhead`, `SwapAlways`, `SiblingSpared`,
`EditsSurvive`, `CompletedTrue` and `AmbiguityRecorded`.  None is inductive:
that `swapoff` leaves swap behind needs the swapfile to be in use, which needs
it to be formatted, which needs its name to be on disk for good; and a tool that
survived the kill of the invocation may still act on any of this later.  `SwapInv`
has one conjunct for each part of the host (swapfile, journal, `fstab`, backup,
swap areas, partition table and dumps), stated per stretch of the invocation in
terms of `at`, which is the tool's name while one is awaited, and of `started`,
the tools that may still be running when the invocation is gone.

`StorageSessionProofs`: `BackupRestores` of the sessions with the data, for any
machines, targets, requests and any number of acts of others.  The artifacts of a
backup are taken of the live machine, later than the snapshot the plan was made
of, and nothing in the code compares an artifact with the manifest.  What settles
it is the last comparison: `Seal` reads the machine once more and goes on only with
the manifest that was handed off.  `SessionInv` follows a record from the
snapshot to there.  Every operand of a plan is from a record of its snapshot, and
a backup step of the plan covers that record (`PlanInv`; one lemma per route of
the planner).  While a growth is compared, others take free space of a physical
volume and never give it back, grow a logical volume and never shrink it, add
partitions and remove none, and leave the names and UUIDs of groups (`Later`,
`Became`; one lemma per act of `Meddle`, and one for a discovery that reads half
before it and half after).  So a record of the snapshot is in its artifact, or the
machine had left it behind when the artifact was taken and has for good
(`BackupInv`), and then no reading gives the manifest again and `Seal` refuses.
What the artifacts need of the machine is that the records of one kind have the
same fields, that there are finitely many, and that one device is one physical
volume and one path one logical volume (`IsMachine`, which `HostsAssumption`
claims of `Hosts`).  Two facts are about recursive definitions, that a
device is in its own chain (`ChainOf`) and that the mutations of an intent are
steps of it (`MutationsOf`); the module proves them by induction stated for sets,
from the well-foundedness of the natural numbers.

The theorems assume of the constants what the modules declare: `ApplyAssumption`,
`CreateAssumption` and their like, which say that the bounds are numbers, that
model values differ, and (`NoneAssumption`, `WriterAssumption`) that the value
that stands for a missing record, file, version or message is not itself one.  Nothing is assumed of the
number of invocations, inode numbers, operators, lines, edits, attempts or
changes, beyond that.

Model-checked only:

* `LockReleased` and `CallReturns`, which are liveness under fairness, and outside
  what the prover can do;
* `PlansHonoured`, `CreatePlansHonoured`, `SwapPlansHonoured`, `MaxFreeIsMax`,
  `AnalysisAgrees` and `GeometryExact`: they say what the planner computes, by
  folds over partitions and free ranges, divisions and roundings of products
  of two unknowns; the prover has no arithmetic of that kind, and for arbitrary
  machines the result of each fold would be an induction of its own;
* `OutcomesHeld`: two of its parts speak of the moment of a preflight and compare
  the machine with what was read, which with more than one act of others holds
  only of the parts of a reading; it is checked with the bound `MaxInterference`
  of the run.

## Not modelled

`inspect` and the search for records of the other runtimes (read-only; a refusal
is possible at any time in the model); the wording of blockers, advice and
future checks; the parsing of what the tools print; permits and receipts that
only repeat digests; owner and mode of files and directories, except those of a
consent; the pipes of the storage tool; the contents of the backup files beyond
the records they hold; the command line and terminal interface, which only show
what the modelled functions return; the disposable executors and the test
harnesses, except where a harness is the only caller of a runtime and fixes the
order of its calls.  `SIGCHLD` dispositions other than the default are an early
return of the writer.  Two processes that write the same journal at once do not
occur: every writer holds the host storage lock.

The journals and the data are not in one module.  `ApplyExtend`,
`CreateRuntime`, `MountRuntime` and `SwapRuntime` let every comparison of values
come out either way, and the sessions let no write and no process of their own
fail; a composition would be the product of both and out of TLC's reach.

## Plan

1. (Done.) The create runtime, its mount and its persistent configuration.
2. (Done.) The swap runtime, its update of `fstab` and the partition removal.
3. (Done.) Discovery, the planner and the sealed chain with their data, and the
   sessions that connect them: growth, creation, swap migration.
4. The inventory of other runtimes' records (`unclassified_runtime_evidence`,
   `inspect`) and the composition: apply, create and swap under one lock.
5. The mount and the `fstab` line of a created filesystem with their data.
6. The capture of backups at the level of files.

Abstract specifications worth stating: a store that never loses an acknowledged
state (done, `DurableStore` and `RecordStore`), a host on which at most one
mutation is open (for the composition of 4).

Theorems worth proving next: `OutcomesHeld` for any number of acts of others, with
its preflights restated for the parts of a reading; then, with lemmas on the folds,
the planner's own numbers, `MaxFreeIsMax` first.
