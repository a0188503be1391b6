-------------------------- MODULE ExecutionHandoff --------------------------
(***************************************************************************)
(* Between a preview and a storage tool: the identity manifest of the      *)
(* target, the decision whether its filesystem may grow, the handoff that  *)
(* freezes both with the plan, the checks compiled into every command, the *)
(* verification behind it, and what the tools themselves do.               *)
(***************************************************************************)
EXTENDS ExtendPlanner

(* capture_target_identity: the facts of the target's own chain.  Nothing   *)
(* of its neighbours on the disk is in it.                                  *)

\* partition_identity: a node recorded in several tables has no geometry.
PartitionIdentity(s, n) ==
  LET ts == {t \in s.tables : RecordsOf(t, n.path) # {}} IN
  IF Unique(ts)
  THEN LET t == The(ts)
           p == The(RecordsOf(t, n.path)) IN
       [node |-> n.path, disk |-> t.device, label |-> t.label, sector |-> t.sector,
        start |-> p.start, size |-> p.size, uuid |-> p.uuid]
  ELSE [node |-> n.path, disk |-> None]

\* collect_lvm_identity
LvmIdentity(s, chain) ==
  LET pvs == {v \in s.pvs : \E n \in chain : n.fs = "LVM2_member" /\ v.name = n.path}
      lvs == {l \in s.lvs : \E n \in chain : n.kind = "lvm" /\ l.path = n.path}
  IN [pvs |-> pvs, lvs |-> lvs,
      vgs |-> {g \in s.vgs : g.name \in {v.vg : v \in pvs} \cup {l.vg : l \in lvs}}]

ObservedSize(s, n, mountpoint) ==
  LET es == {e \in s.evidence : /\ e.device = n.path /\ e.fs = n.fs
                                /\ mountpoint = None \/ e.mount = mountpoint} IN
  IF Unique(es) THEN The(es).size ELSE None

Captured(s, target) == Resolved(s, target)

Manifest(s, target) ==
  LET n == DeviceOf(s, target)
      chain == ChainOf(s, n)
      mountpoint == MountpointOf(s, target) IN
  [device     |-> n.path,
   status     |-> RouteStatus(s, target),
   devices    |-> {[m EXCEPT !.mounts = {}, !.label = None] : m \in chain},
   partitions |-> {PartitionIdentity(s, m) : m \in {x \in chain : x.kind = "partition"}},
   lvm        |-> LvmIdentity(s, chain),
   fsize      |-> ObservedSize(s, n, mountpoint),
   mounts     |-> {m \in s.mounts : m.target = mountpoint \/ m.source = n.path}]

\* revalidate_target_identity
SameTarget(manifest, s, target) ==
  Captured(s, target) /\ Manifest(s, target) = manifest

-----------------------------------------------------------------------------
(* decide_filesystem_growth *)

ExactEvidence(s, n, mountpoint) ==
  {e \in s.evidence : e.fs = n.fs /\ (e.device = n.path \/ e.mount = mountpoint)}
NormalMount(m) == "rw" \in m.opts /\ m.opts \cap {"ro", "bind"} = {}

\* A mounted ext4 grows online when its superblock is known and clean.
DecideExt4(s, n, mountpoint) ==
  LET es == ExactEvidence(s, n, mountpoint)
      e  == The(es) IN
  CASE ~Usable(s, "resize2fs") -> "blocked"
    [] mountpoint = None -> IF Usable(s, "e2fsck") THEN "offline_check" ELSE "blocked"
    [] \/ ~NormalMount(The(MountsAt(s, mountpoint))) \/ ~Unique(es)
       \/ e.state # "verified" \/ ~e.features -> "blocked"
    [] OTHER -> IF e.clean THEN "ready_online" ELSE "offline_check"

DecideXfs(s, n, mountpoint) ==
  LET es == ExactEvidence(s, n, mountpoint) IN
  CASE ~Usable(s, "xfs_growfs") -> "blocked"
    [] mountpoint = None -> "mount_required"
    [] OTHER -> IF /\ NormalMount(The(MountsAt(s, mountpoint)))
                   /\ Unique(es) /\ The(es).growcheck
                THEN "ready_online" ELSE "blocked"

Decide(s, target) ==
  LET n == DeviceOf(s, target)
      active == IF Unique(MountsAt(s, MountpointOf(s, target)))
                THEN MountpointOf(s, target) ELSE None IN
  IF \/ RouteStatus(s, target) = "blocked"
     \/ n.fs = None
     \/ s.errors \cap ({m.path : m \in ChainOf(s, n)} \cup {None}) # {}
  THEN "blocked"
  ELSE CASE n.fs = "ext4" -> DecideExt4(s, n, active)
         [] n.fs = "xfs"  -> DecideXfs(s, n, active)
         [] OTHER         -> "adapter"

\* build_frozen_execution_handoff: a current preview, the manifest of its
\* target, and no blocker from the route or from the filesystem.
HandoffReady(plan, s) ==
  /\ MatchesBasis(plan, s)
  /\ Captured(s, plan.req.target)
  /\ RouteStatus(s, plan.req.target) = "supported"
  /\ Decide(s, plan.req.target) \notin {"blocked", "adapter"}

-----------------------------------------------------------------------------
(* compile_operation: what a step insists on before its command exists *)

DiskIn(manifest, path) == {m \in manifest.devices : m.path = path}

CompilesPartition(x, manifest) ==
  LET ps == {p \in manifest.partitions : p.disk # None /\ p.node = x.node} IN
  /\ Unique(ps)
  /\ LET p == The(ps) IN
       /\ p.label \in {"gpt", "dos"}
       /\ p.start = x.start /\ p.size = x.old /\ p.sector = x.sector
       /\ x.new > x.old
       /\ \E d \in DiskIn(manifest, p.disk) : x.start + x.new <= d.size \div x.sector

CompilesPv(x, manifest) ==
  LET vs == {v \in manifest.lvm.pvs : v.uuid = x.pv} IN
  Unique(vs) /\ x.to > The(vs).size

CompilesLv(x, manifest) ==
  LET ls == {l \in manifest.lvm.lvs : l.uuid = x.lv} IN
  Unique(ls) /\ x.extents > 0 /\ x.to > The(ls).size

\* ext4 is grown where it is mounted or not mounted at all, XFS only mounted.
CompilesFs(x, manifest) ==
  LET n == The(DiskIn(manifest, manifest.device)) IN
  /\ n.fs = x.fs
  /\ IF x.mount # None
     THEN Unique({m \in manifest.mounts : m.target = x.mount /\ m.fs = x.fs})
     ELSE x.fs = "ext4" /\ manifest.mounts = {}

Compiles(x, manifest) ==
  CASE x.op = "extend_partition" -> CompilesPartition(x, manifest)
    [] x.op = "resize_pv" -> CompilesPv(x, manifest)
    [] x.op = "extend_lv" -> CompilesLv(x, manifest)
    [] x.op = "grow_fs" -> CompilesFs(x, manifest)
    [] OTHER -> TRUE

-----------------------------------------------------------------------------
(* verify_layer: the layer of the step, and what must not have moved *)

\* Equal but for the size.
Resized(a, b, size) == b = [a EXCEPT !.size = size]

VerifiesPartition(x, before, after) ==
  LET olds == {p \in before.partitions : p.node = x.node}
      news == {p \in after.partitions : p.node = x.node} IN
  /\ Unique(olds) /\ Unique(news)
  /\ The(olds).disk # None /\ The(news).disk # None
  /\ The(olds).start = x.start /\ The(olds).size < x.new
  /\ Resized(The(olds), The(news), x.new)

VerifiesVolume(olds, news, size) ==
  /\ Unique(olds) /\ Unique(news)
  /\ The(olds).size < size /\ The(news).size = size
  /\ The(olds).name = The(news).name

VerifiesFs(x, before, after) ==
  LET old == The(DiskIn(before, before.device))
      new == The(DiskIn(after, after.device))
      Same(m) == {e \in m.mounts : e.target = x.mount /\ e.fs = x.fs} IN
  /\ old.path = new.path /\ old.fs = x.fs /\ new.fs = x.fs
  /\ old.uuid # None /\ old.uuid = new.uuid
  /\ old.size = new.size
  /\ IF x.mount # None
     THEN Unique(Same(before)) /\ Same(after) = Same(before)
     ELSE x.fs = "ext4" /\ before.mounts = {} /\ after.mounts = {}
  /\ None \notin {before.fsize, after.fsize}
  /\ before.fsize > 0 /\ before.fsize < old.size
  /\ before.fsize < after.fsize /\ after.fsize <= new.size

Verifies(x, before, after) ==
  before.device = after.device /\
  CASE x.op = "extend_partition" -> VerifiesPartition(x, before, after)
    [] x.op = "resize_pv" ->
         VerifiesVolume({v \in before.lvm.pvs : v.uuid = x.pv},
                        {v \in after.lvm.pvs : v.uuid = x.pv}, x.to)
    [] x.op = "extend_lv" ->
         VerifiesVolume({l \in before.lvm.lvs : l.uuid = x.lv},
                        {l \in after.lvm.lvs : l.uuid = x.lv}, x.to)
    [] x.op = "grow_fs" -> VerifiesFs(x, before, after)
    [] OTHER -> TRUE
=============================================================================
