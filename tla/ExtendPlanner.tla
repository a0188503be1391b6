---------------------------- MODULE ExtendPlanner ----------------------------
(***************************************************************************)
(* plan_extend: a request to grow the filesystem at a target, turned into  *)
(* a preview with its steps or into a refusal.                             *)
(*                                                                         *)
(* A request is [target, max, bytes]: MaxFree when `max`, else ByBytes.    *)
(* A builder answers "ok" with the growth and the steps, "short" when the  *)
(* only thing missing is capacity (the refusals that let plan_extend look  *)
(* for another route), and "refused" for every other blocker.              *)
(***************************************************************************)
EXTENDS StorageRoute

Refused == [answer |-> "refused", growth |-> 0, steps |-> <<>>]
Short == [answer |-> "short", growth |-> 0, steps |-> <<>>]
Offer(growth, steps) == [answer |-> "ok", growth |-> growth, steps |-> steps]

\* Faulty form: the units that fit the request, not those that cover it.
WantedFloor(req, available, unit) ==
  (IF req.max THEN available ELSE req.bytes) \div unit

\* A whole number of units that covers the request.
Wanted(req, available, unit) ==
  CeilDiv(IF req.max THEN available ELSE req.bytes, unit)

Revalidate == [op |-> "revalidate"]
Verify == [op |-> "verify"]
BackupLvm(vg) == [op |-> "backup_lvm", vg |-> vg]
BackupTable(disk) == [op |-> "backup_table", disk |-> disk]
ExtendPartition(p, sectors, sector) ==
  [op |-> "extend_partition", node |-> p.node, start |-> p.start, old |-> p.size,
   new |-> p.size + sectors, sector |-> sector]
ResizePv(v, bytes) == [op |-> "resize_pv", pv |-> v.uuid, to |-> v.size + bytes]
ExtendLv(l, extents, extent) ==
  [op |-> "extend_lv", lv |-> l.uuid, extents |-> extents,
   to |-> l.size + extents * extent]
GrowFs(fs, mountpoint) == [op |-> "grow_fs", fs |-> fs, mount |-> mountpoint]

-----------------------------------------------------------------------------
(* try_build_partition_candidate *)

\* The record of a partition, when lsblk and the partition table agree on
\* sector size, start and size.
RecordAgrees(s, n) ==
  /\ Unique(ParentsOf(s, n))
  /\ \E disk \in ParentsOf(s, n) :
       /\ Unique(TablesOf(s, disk.path))
       /\ \E t \in TablesOf(s, disk.path) :
            /\ t.sector \in Units /\ n.sector = t.sector
            /\ Unique(RecordsOf(t, n.path))
            /\ \E p \in RecordsOf(t, n.path) :
                 n.start = p.start * t.sector /\ n.size = p.size * t.sector

DiskOf(s, n) == The(ParentsOf(s, n))
TableOf(s, n) == The(TablesOf(s, DiskOf(s, n).path))
RecordOf(s, n) == The(RecordsOf(TableOf(s, n), n.path))

PartitionReady(s, n, mountpoint) ==
  /\ Collected(s, Components \ {"lvm"}) /\ s.errors = {}
  /\ ChildrenOf(s, n) = {}
  /\ n.fs \in GrowableFs
  /\ mountpoint # None /\ MountedRw(s, n, mountpoint)
  /\ NotSwapping(s, n)
  /\ Usable(s, "sfdisk") /\ Usable(s, GrowTool(n.fs))
  /\ RecordAgrees(s, n)
  /\ Growable(TableOf(s, n), RecordOf(s, n))
  /\ AdjacentProvable(DiskOf(s, n), TableOf(s, n), RecordOf(s, n))

PartitionOffer(req, n, mountpoint, disk, t, p) ==
  LET adjacent == AdjacentFree(disk, t, p)
      sectors == Wanted(req, adjacent * t.sector, t.sector) IN
  IF sectors = 0 THEN Refused
  ELSE IF sectors > adjacent THEN Short
  ELSE Offer(sectors * t.sector,
             <<Revalidate, BackupTable(t.device), ExtendPartition(p, sectors, t.sector),
               GrowFs(n.fs, mountpoint), Verify>>)

PartitionCandidate(s, req) ==
  LET n == DeviceOf(s, req.target)
      mountpoint == MountpointOf(s, req.target) IN
  IF ~PartitionReady(s, n, mountpoint) THEN Refused
  ELSE PartitionOffer(req, n, mountpoint, DiskOf(s, n), TableOf(s, n), RecordOf(s, n))

-----------------------------------------------------------------------------
(* build_whole_filesystem_candidate *)

EvidenceOf(s, n, mountpoint) ==
  {e \in s.evidence : e.device = n.path /\ e.mount = mountpoint /\ e.fs = n.fs}

WholeReady(s, n, mountpoint) ==
  /\ Collected(s, {"lsblk", "mounts", "fstab", "swap"}) /\ s.errors = {}
  /\ ChildrenOf(s, n) = {}
  /\ n.fs \in GrowableFs /\ n.uuid # None
  /\ mountpoint # None /\ MountedRw(s, n, mountpoint)
  /\ NotSwapping(s, n)
  /\ Usable(s, GrowTool(n.fs))
  /\ Unique(EvidenceOf(s, n, mountpoint))
  /\ \E e \in EvidenceOf(s, n, mountpoint) :
       /\ e.state = "verified"
       /\ e.size # None /\ e.block \in Units /\ e.count * e.block = e.size
       /\ e.size > 0 /\ e.size <= n.size

WholeOffer(req, n, mountpoint, e) ==
  LET free == (n.size - e.size) \div e.block
      blocks == Wanted(req, free * e.block, e.block) IN
  IF blocks = 0 \/ blocks > free THEN Refused
  ELSE Offer(blocks * e.block, <<Revalidate, GrowFs(n.fs, mountpoint), Verify>>)

WholeCandidate(s, req) ==
  LET n == DeviceOf(s, req.target)
      mountpoint == MountpointOf(s, req.target) IN
  IF ~WholeReady(s, n, mountpoint) THEN Refused
  ELSE WholeOffer(req, n, mountpoint, The(EvidenceOf(s, n, mountpoint)))

-----------------------------------------------------------------------------
(* build_candidate: extents the volume group already has *)

GroupOf(s, l) == {g \in s.vgs : g.name = l.vg}
PvsOf(s, g) == {v \in s.pvs : v.vg = g.name}
BackingOf(s, v) == NodesAt(s, v.name)

\* One volume group of one physical volume, the one under this volume.
SinglePvGroup(s, n, l) ==
  /\ Unique(GroupOf(s, l))
  /\ \E g \in GroupOf(s, l) :
       /\ g.writable /\ g.missing = 0 /\ g.pvcount = 1
       /\ Unique(PvsOf(s, g))
       /\ \E v \in PvsOf(s, g) :
            /\ Unique(BackingOf(s, v))
            /\ \E b \in BackingOf(s, v) :
                 /\ b.kind \in {"disk", "partition", "loop"}
                 /\ Above(s, b, n) /\ b.fs = "LVM2_member" /\ b.uuid = v.uuid

\* What a volume stands on: itself, its group, the physical volume and the
\* device that one is on.
LvmStack(s, n) ==
  LET l == The(LvsOn(s, n))
      g == The(GroupOf(s, l))
      v == The(PvsOf(s, g)) IN
  [l |-> l, g |-> g, v |-> v, b |-> The(BackingOf(s, v))]

\* The extent counts and the byte counts of the group tell the same story.
ExtentsAgree(g, l) ==
  /\ g.extent \in Units /\ g.extents * g.extent = g.free
  /\ g.size % g.extent = 0 /\ l.size % g.extent = 0

LvmMountReady(s, n, mountpoint) ==
  IF mountpoint # None THEN MountedRw(s, n, mountpoint)
  ELSE n.fs = "ext4" /\ n.mounts = {} /\ MountsOf(s, n.path) = {}
       /\ Usable(s, "e2fsck")

LvmReady(s, n, mountpoint) ==
  /\ Collected(s, Components) /\ s.errors = {} /\ s.lvm
  /\ Unique(LvsOn(s, n)) /\ ChildrenOf(s, n) = {} /\ PlainChain(s, n)
  /\ \E l \in LvsOn(s, n) :
       /\ LvFits(l, mountpoint) /\ SinglePvGroup(s, n, l)
       /\ l.size = n.size /\ l.size > 0
  /\ \E k \in {LvmStack(s, n)} :
       /\ None \notin {k.v.uuid, k.g.uuid, k.l.uuid, n.uuid}
       /\ k.v.size <= k.b.size /\ k.g.size <= k.v.size
       /\ k.g.free <= k.g.size /\ k.v.free = k.g.free
       /\ ExtentsAgree(k.g, k.l)
  /\ n.fs \in GrowableFs
  /\ LvmMountReady(s, n, mountpoint)
  /\ NotSwapping(s, n)
  /\ {"vgcfgbackup", "lvextend", GrowTool(n.fs)} \subseteq s.tools

LvmOffer(req, n, mountpoint, l, g) ==
  LET extents == Wanted(req, g.free, g.extent) IN
  IF extents = 0 \/ extents > g.extents THEN Short
  ELSE Offer(extents * g.extent,
             <<Revalidate, BackupLvm(g.uuid), ExtendLv(l, extents, g.extent),
               GrowFs(n.fs, mountpoint), Verify>>)

LvmCandidate(s, req) ==
  LET n == DeviceOf(s, req.target)
      mountpoint == MountpointOf(s, req.target) IN
  IF ProfileOf(s, req.target) # "lvm" \/ ~LvmReady(s, n, mountpoint) THEN Refused
  ELSE LvmOffer(req, n, mountpoint, LvmStack(s, n).l, LvmStack(s, n).g)

-----------------------------------------------------------------------------
(* analyze_lvm_underlying_growth: raw space under the physical volume *)

UnderlyingReady(s, n, mountpoint) ==
  /\ Collected(s, Components) /\ s.errors = {} /\ s.lvm
  /\ Unique(LvsOn(s, n)) /\ ChildrenOf(s, n) = {} /\ PlainChain(s, n)
  /\ mountpoint # None /\ n.fs \in GrowableFs
  /\ MountedRw(s, n, mountpoint)
  /\ \E l \in LvsOn(s, n) : LvFits(l, mountpoint) /\ SinglePvGroup(s, n, l)
  /\ \E k \in {LvmStack(s, n)} :
       /\ ExtentsAgree(k.g, k.l)
       /\ k.v.size + k.v.pe <= k.b.size /\ k.v.size % k.g.extent = 0
       /\ k.v.free = k.g.free
       /\ k.b.kind = "partition" =>
            /\ RecordAgrees(s, k.b)
            /\ AdjacentProvable(DiskOf(s, k.b), TableOf(s, k.b), RecordOf(s, k.b))

\* What lies behind the physical volume on its own device, behind that
\* device on the disk, and how many extents both together would make.
Slack(v, b) == b.size - v.pe - v.size
AdjacentBytes(s, b) ==
  IF b.kind = "partition"
  THEN AdjacentFree(DiskOf(s, b), TableOf(s, b), RecordOf(s, b)) * TableOf(s, b).sector
  ELSE 0
NewExtents(k, adjacent) == (Slack(k.v, k.b) + adjacent) \div k.g.extent

\* Faulty form: the header of the physical volume is counted as space.
PartitionNeedNoHeader(k, extents) ==
  LET raw == Max({extents * k.g.extent - (k.b.size - k.v.size), 0}) IN
  IF raw = 0 THEN 0 ELSE RoundUp(raw, k.b.sector)

\* The bytes the partition must gain for so many new extents.
PartitionNeed(k, extents) ==
  LET raw == Max({extents * k.g.extent - Slack(k.v, k.b), 0}) IN
  IF raw = 0 THEN 0 ELSE RoundUp(raw, k.b.sector)

\* The growth an underlying route would bring, 0 where there is none.
ExtentsOver(req, k, adjacent) ==
  LET more == NewExtents(k, adjacent)
      extents == Wanted(req, (k.g.extents + more) * k.g.extent, k.g.extent) IN
  IF /\ more > 0 /\ extents > k.g.extents /\ extents <= k.g.extents + more
     /\ PartitionNeed(k, extents - k.g.extents) <= adjacent
  THEN extents ELSE 0

UnderlyingExtents(s, req) ==
  LET n == DeviceOf(s, req.target) IN
  IF /\ ProfileOf(s, req.target) = "lvm"
     /\ UnderlyingReady(s, n, MountpointOf(s, req.target))
  THEN ExtentsOver(req, LvmStack(s, n), AdjacentBytes(s, LvmStack(s, n).b))
  ELSE 0

\* build_lvm_underlying_growth_candidate
UnderlyingOffer(s, n, mountpoint, k, extents, need) ==
  IF \/ None \in {k.g.uuid, k.v.uuid, k.l.uuid}
     \/ need > 0 /\ k.b.kind # "partition"
     \/ need > 0 /\ ~Growable(TableOf(s, k.b), RecordOf(s, k.b))
  THEN Refused
  ELSE Offer(extents * k.g.extent,
             <<Revalidate, BackupLvm(k.g.uuid)>>
             \o (IF need > 0
                 THEN <<BackupTable(DiskOf(s, k.b).path),
                        ExtendPartition(RecordOf(s, k.b), need \div k.b.sector, k.b.sector)>>
                 ELSE <<>>)
             \o <<ResizePv(k.v, (extents - k.g.extents) * k.g.extent),
                  ExtendLv(k.l, extents, k.g.extent), GrowFs(n.fs, mountpoint), Verify>>)

UnderlyingCandidate(s, req) ==
  LET n == DeviceOf(s, req.target)
      Settled(k, extents) ==
        UnderlyingOffer(s, n, MountpointOf(s, req.target), k, extents,
                        PartitionNeed(k, extents - k.g.extents))
      Given(extents) == IF extents = 0 THEN Refused ELSE Settled(LvmStack(s, n), extents) IN
  Given(UnderlyingExtents(s, req))

-----------------------------------------------------------------------------
(* analyze_layout_opportunity: a DOS swap partition in its container, and    *)
(* free sectors behind it, between the target and the end of the disk        *)

\* The one extended container behind the target, and the partitions in it.
ContainerBehind(t, p) ==
  {x \in ExtendedOf(t) : x.start >= EndOf(p)}
LogicalsIn(t, x) == {q \in t.parts : q.node # x.node /\ InsideOf(q, x)}

\* The record is a swap device of the size lsblk reports, and in use.
TailSwapActive(s, disk, t, w) ==
  /\ Unique(NodesAt(s, w.node))
  /\ \E d \in NodesAt(s, w.node) :
       /\ d.kind = "partition" /\ d.fs = "swap"
       /\ d.size = w.size * t.sector /\ d.parent = disk.path
       /\ Unique({a \in s.swaps : a.name = d.path})
       /\ \A a \in s.swaps : a.name = d.path =>
            a.size > 0 /\ a.size <= d.size /\ a.used <= a.size

TailSwapSound(s, n) ==
  /\ n.kind = "partition" /\ Unique(ParentsOf(s, n))
  /\ \E disk \in ParentsOf(s, n) :
     /\ Unique({t \in TablesOf(s, disk.path) : t.label = "dos"})
     /\ \E t \in TablesOf(s, disk.path) :
        /\ t.label = "dos" /\ t.sector \in PlainSectors /\ disk.size % t.sector = 0
        /\ Unique(RecordsOf(t, n.path))
        /\ \E p \in RecordsOf(t, n.path) :
           /\ Unique(ContainerBehind(t, p))
           /\ \E x \in ContainerBehind(t, p) :
              /\ EndOf(x) < Sectors(disk, t.sector)
              /\ Unique(LogicalsIn(t, x))
              /\ \E w \in LogicalsIn(t, x) :
                 /\ w.type = "swap"
                 /\ \A q \in t.parts \ {p, x, w} : q.start < EndOf(p)
                 /\ TailSwapActive(s, disk, t, w)

\* What the target could gain: everything behind it, less the room for an
\* equivalent swap file.  Nothing is found where the layout is not the
\* proven one.
NoOpportunity == [found |-> FALSE]

Opportunity(n, disk, t, p, x, w) ==
  LET gain == Sectors(disk, t.sector) - EndOf(p) - w.size IN
  IF gain <= 0 THEN NoOpportunity
  ELSE [found |-> TRUE, target |-> n.path, disk |-> t.device, sector |-> t.sector,
        gain |-> gain * t.sector, swap |-> w.node, container |-> x.node,
        swapbytes |-> w.size * t.sector]

LayoutOpportunity(s, target) ==
  LET n == DeviceOf(s, target)
      Behind(t, p, x) == Opportunity(n, DiskOf(s, n), t, p, x, The(LogicalsIn(t, x)))
      On(t, p) == Behind(t, p, The(ContainerBehind(t, p))) IN
  IF Resolved(s, target) /\ TailSwapSound(s, n) THEN On(TableOf(s, n), RecordOf(s, n))
  ELSE NoOpportunity

\* detect_tail_swap_migration: the opportunity is large enough for the request.
TailSwapCovers(s, req) ==
  /\ ~req.max /\ req.bytes > 0
  /\ \E o \in {LayoutOpportunity(s, req.target)} :
       o.found /\ RoundUp(req.bytes, o.sector) <= o.gain

-----------------------------------------------------------------------------
(* plan_extend *)

Preview(s, req, offer) ==
  [status |-> "preview", basis |-> s, req |-> req, growth |-> offer.growth,
   steps |-> offer.steps, advice |-> FALSE]
Blocked(s, req, advice) ==
  [status |-> "blocked", basis |-> s, req |-> req, growth |-> 0, steps |-> <<>>,
   advice |-> advice]

Settle(s, req, offer, advice) ==
  IF offer.answer = "ok" THEN Preview(s, req, offer) ELSE Blocked(s, req, advice)

\* apply_partition_outcome: a short partition may still have a layout route.
PartitionPlan(s, req) ==
  LET Outcome(c) ==
        Settle(s, req, c, c.answer = "short" /\ TailSwapCovers(s, req))
  IN Outcome(PartitionCandidate(s, req))

\* apply_lvm_outcome: only a shortage of extents looks underneath.
LvmOutcome(s, req, c, u) ==
  IF c.answer = "short"
  THEN Settle(s, req, u, UnderlyingExtents(s, req) > 0)
  ELSE Settle(s, req, c, FALSE)

\* MaxFree takes the route from underneath before any other.
LvmPlan(s, req, u) ==
  IF req.max /\ u.answer = "ok" THEN Preview(s, req, u)
  ELSE LvmOutcome(s, req, LvmCandidate(s, req), u)

\* A route no profile covers is refused by its first issue, and one without
\* an issue by both legacy builders, which insist on a profile.
PlanExtend(s, req) ==
  CASE ProfileOf(s, req.target) = "partition" -> PartitionPlan(s, req)
    [] ProfileOf(s, req.target) = "lvm"   -> LvmPlan(s, req, UnderlyingCandidate(s, req))
    [] ProfileOf(s, req.target) = "whole" -> Settle(s, req, WholeCandidate(s, req), FALSE)
    [] OTHER -> Blocked(s, req, FALSE)

MatchesBasis(plan, s) == plan.status = "preview" /\ plan.basis = s

StepKinds(plan) == {plan.steps[i].op : i \in DOMAIN plan.steps}

-----------------------------------------------------------------------------
\* list_extend_targets: the targets offered, and what is said of each.
Targets(s) ==
  {n \in s.nodes : /\ n.fs \notin {None, "swap", "LVM2_member"}
                   /\ "[SWAP]" \notin n.mounts /\ ChildrenOf(s, n) = {}}
TargetName(n) == IF FirstMount(n) = None THEN n.path ELSE FirstMount(n)
Availability(s, n) ==
  LET req == [target |-> TargetName(n), max |-> TRUE, bytes |-> 0]
      layout == LayoutOpportunity(s, TargetName(n)) IN
  IF PlanExtend(s, req).status = "preview" THEN "preview"
  ELSE IF layout.found \/ UnderlyingExtents(s, req) > 0 THEN "advisory"
  ELSE "blocked"
=============================================================================
