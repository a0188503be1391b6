----------------------------- MODULE SealedChain -----------------------------
(***************************************************************************)
(* The executor's chain of sealed objects, from a frozen handoff to the    *)
(* permission to start one process: the metadata backups a plan asks for,  *)
(* the evidence gathered under the lock, the frozen intent, its native     *)
(* form with the order of the layers, the production profile, and the      *)
(* request made for one step.                                              *)
(*                                                                         *)
(* Every object of the chain carries the digests of the ones before it.    *)
(* The chain is built in one process from values that nothing else writes, *)
(* so equal digests are equal values; what the objects insist on about the *)
(* host is kept.                                                           *)
(***************************************************************************)
EXTENDS ExecutionHandoff

(* build_metadata_backup_manifest: one artifact for every distinct backup   *)
(* step, of something the frozen identity names exactly once.               *)

\* Faulty form: the artifacts stop after the first requirement.
BackupStepsFirst(plan) ==
  LET is == {j \in DOMAIN plan.steps : plan.steps[j].op \in {"backup_table", "backup_lvm"}} IN
  IF is = {} THEN {} ELSE {plan.steps[Min(is)]}

BackupSteps(plan) ==
  {plan.steps[i] : i \in {j \in DOMAIN plan.steps :
                            plan.steps[j].op \in {"backup_table", "backup_lvm"}}}

Required(x, manifest) ==
  IF x.op = "backup_table"
  THEN Unique({p \in manifest.partitions : p.disk = x.disk})
  ELSE Unique({g \in manifest.lvm.vgs : g.uuid = x.vg})

BackupPossible(plan, manifest) ==
  \A x \in BackupSteps(plan) : Required(x, manifest)

\* What the two capture tools write: the records of the whole disk, and the
\* volumes of the whole group.
Artifact(s, x) ==
  IF x.op = "backup_table"
  THEN [step |-> x, records |-> UNION {t.parts : t \in TablesOf(s, x.disk)}]
  ELSE LET gs == {g \in s.vgs : g.uuid = x.vg}
           names == {g.name : g \in gs} IN
       [step |-> x, records |-> {v \in s.pvs : v.vg \in names}
                                \cup {l \in s.lvs : l.vg \in names}]

CaptureTool(x) == IF x.op = "backup_table" THEN "sfdisk" ELSE "vgcfgbackup"

-----------------------------------------------------------------------------
(* execute_explicit_filesystem_health_check and build_pre_mutation_evidence *)

\* Only an ext4 that is not mounted can be promoted by a check.
CheckApplies(s, target) ==
  /\ Decide(s, target) = "offline_check"
  /\ MountpointOf(s, target) = None
  /\ MountsOf(s, SourceOf(s, target)) = {}

\* The decision the evidence records, after a check that passed.
DecidedWith(s, target, passed) ==
  IF passed /\ CheckApplies(s, target) THEN "ready_offline" ELSE Decide(s, target)

EvidenceComplete(handoff, s, target, decision) ==
  /\ SameTarget(handoff.manifest, s, target)
  /\ s.tools = handoff.tools
  /\ decision \in {"ready_online", "ready_offline"}

-----------------------------------------------------------------------------
(* freeze_execution_intent: validate_step_semantics *)

FreezesFs(x, manifest, decision) ==
  /\ CompilesFs(x, manifest)
  /\ decision = IF x.mount # None THEN "ready_online" ELSE "ready_offline"

Freezes(x, manifest, decision) ==
  CASE x.op \in {"backup_table", "backup_lvm"} -> Required(x, manifest)
    [] x.op = "extend_partition" ->
         LET ps == {p \in manifest.partitions : p.node = x.node} IN
         /\ Unique(ps)
         /\ LET p == The(ps) IN
              p.disk # None /\ p.start = x.start /\ p.size = x.old /\ p.sector = x.sector
         /\ x.sector \in PlainSectors /\ x.new > x.old
    [] x.op = "resize_pv" -> CompilesPv(x, manifest)
    [] x.op = "extend_lv" -> CompilesLv(x, manifest)
    [] x.op = "grow_fs"   -> FreezesFs(x, manifest, decision)
    [] OTHER -> TRUE

\* translate_step: the role of a step; every mutation gets one barrier.
Mutations == {"extend_partition", "resize_pv", "extend_lv", "grow_fs"}
RoleOf(x) ==
  CASE x.op \in Mutations -> "mutation"
    [] x.op = "verify"    -> "verification"
    [] OTHER              -> "evidence"

\* step() chains every step to the one before it.
Frozen(plan) ==
  [i \in DOMAIN plan.steps |->
     [does |-> plan.steps[i], role |-> RoleOf(plan.steps[i]),
      after |-> {i - 1} \ {0}, barriers |-> IF plan.steps[i].op \in Mutations THEN 1 ELSE 0]]

-----------------------------------------------------------------------------
(* validate_native_manifest *)

\* The steps a step depends on, directly or not.
Needs(intent, i) ==
  LET reach[k \in Nat] ==
        IF k = 0 THEN intent[i].after
        ELSE reach[k - 1] \cup
             UNION {intent[j].after : j \in reach[k - 1] \cap DOMAIN intent}
  IN reach[Len(intent)]

GraphSound(intent) ==
  \A i \in DOMAIN intent :
    intent[i].after \subseteq DOMAIN intent /\ i \notin Needs(intent, i)

Rank(op) ==
  CASE op = "extend_partition" -> 1
    [] op = "resize_pv"        -> 2
    [] op = "extend_lv"        -> 3
    [] op = "grow_fs"          -> 4

\* A layer is grown only behind every layer under it.
LayersOrdered(intent) ==
  LET mutations == {i \in DOMAIN intent : intent[i].does.op \in Mutations} IN
  \A i, j \in mutations :
    Rank(intent[i].does.op) < Rank(intent[j].does.op) => i \in Needs(intent, j)

NativeValid(intent) ==
  /\ GraphSound(intent) /\ LayersOrdered(intent)
  /\ \A i \in DOMAIN intent :
       /\ intent[i].role = RoleOf(intent[i].does)
       /\ intent[i].barriers = (IF intent[i].does.op \in Mutations THEN 1 ELSE 0)

MutationsOf(intent) ==
  LET upto[i \in 0..Len(intent)] ==
        IF i = 0 THEN <<>>
        ELSE IF intent[i].role = "mutation" THEN Append(upto[i - 1], intent[i])
        ELSE upto[i - 1]
  IN upto[Len(intent)]

-----------------------------------------------------------------------------
(* The two production profiles: extents the group already has, and the      *)
(* chain from the partition upwards.                                        *)

Ops(intent) ==
  [i \in DOMAIN MutationsOf(intent) |-> MutationsOf(intent)[i].does.op]

LvProfile(intent) == Ops(intent) = <<"extend_lv", "grow_fs">>
ChainedProfile(intent) ==
  Ops(intent) = <<"extend_partition", "resize_pv", "extend_lv", "grow_fs">>

\* validate_identity_binding: the target the profile was reviewed for.
LvBinding(intent, manifest) ==
  LET ms == MutationsOf(intent) IN
  /\ manifest.status = "supported"
  /\ Unique({l \in manifest.lvm.lvs : l.uuid = ms[1].does.lv})
  /\ Unique(manifest.lvm.pvs)
  /\ \E g \in manifest.lvm.vgs : g.pvcount = 1
  /\ The(DiskIn(manifest, manifest.device)).uuid # None
  /\ CompilesFs(ms[2].does, manifest)

\* validate_chained_identity_binding
ChainedBinding(intent, manifest) ==
  LET x == [i \in 1..4 |-> MutationsOf(intent)[i].does]
      vs == {v \in manifest.lvm.pvs : v.uuid = x[2].pv}
      ls == {l \in manifest.lvm.lvs : l.uuid = x[3].lv} IN
  /\ manifest.status = "supported"
  /\ Freezes(x[1], manifest, None)
  /\ Unique(vs) /\ Unique(ls)
  /\ \E g \in manifest.lvm.vgs : g.pvcount = 1
  /\ The(vs).name = x[1].node
  /\ The(vs).size < x[2].to /\ The(ls).size < x[3].to
  /\ The(DiskIn(manifest, manifest.device)).uuid # None
  /\ CompilesFs(x[4], manifest)

Activates(intent, manifest) ==
  \/ LvProfile(intent) /\ LvBinding(intent, manifest)
  \/ ChainedProfile(intent) /\ ChainedBinding(intent, manifest)

-----------------------------------------------------------------------------
(* resolve_privileged_command_tools *)

ProgramOf(x) ==
  CASE x.op = "extend_partition" -> "sfdisk"
    [] x.op = "resize_pv"        -> "pvresize"
    [] x.op = "extend_lv"        -> "lvextend"
    [] x.op = "grow_fs"          -> GrowTool(x.fs)
=============================================================================
