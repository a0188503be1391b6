---------------------------- MODULE StorageRoute ----------------------------
(***************************************************************************)
(* analyze_layer_route: from a mountpoint or a device path to one block    *)
(* device, the layers under it, and whether every layer of the chain has a *)
(* proven way to be grown.  Issue codes and messages are left out; what is *)
(* kept is whether an issue blocks or only asks for an adapter.            *)
(***************************************************************************)
EXTENDS CapacityAnalysis

CONSTANT Devices       \* the targets that are device paths ("/dev/...")

\* The block device a target names: itself, or the source of its one mount.
SourceOf(s, target) ==
  IF target \in Devices THEN target
  ELSE IF Unique(MountsAt(s, target)) THEN The(MountsAt(s, target)).source
  ELSE None

Resolved(s, target) ==
  SourceOf(s, target) # None /\ Unique(NodesAt(s, SourceOf(s, target)))

DeviceOf(s, target) == The(NodesAt(s, SourceOf(s, target)))

\* A device target takes the mountpoint of its only mount, if it has one.
MountpointOf(s, target) ==
  IF target \notin Devices THEN target
  ELSE LET ms == MountsOf(s, SourceOf(s, target)) IN
       IF Unique(ms) THEN The(ms).target ELSE None

MountAmbiguous(s, target) ==
  target \in Devices /\ Cardinality(MountsOf(s, SourceOf(s, target))) > 1

-----------------------------------------------------------------------------
(* append_lvm_pv_and_vg *)

PvsOn(s, n) == {v \in s.pvs : v.name = n.path}
GroupsOf(s, v) == {g \in s.vgs : g.name = v.vg}

PvBlocks(s, n) ==
  \/ ~s.lvm
  \/ ~Unique(PvsOn(s, n))
  \/ LET v == The(PvsOn(s, n)) IN
       /\ v.vg # None
       /\ \/ ~Unique(GroupsOf(s, v))
          \/ The(GroupsOf(s, v)).missing > 0

PvAdapts(s, n) ==
  /\ s.lvm /\ Unique(PvsOn(s, n))
  /\ Unique(GroupsOf(s, The(PvsOn(s, n))))
  /\ LET g == The(GroupsOf(s, The(PvsOn(s, n)))) IN
       g.pvcount > 1 \/ ~g.writable

(* append_lvm_lv *)

LvsOn(s, n) == {l \in s.lvs : l.path = n.path}
LvOpen(mountpoint) == IF mountpoint = None THEN "active" ELSE "open"
LvFits(l, mountpoint) == l.linear /\ l.state = LvOpen(mountpoint)

LvBlocks(s, n) == ~s.lvm \/ ~Unique(LvsOn(s, n))
LvAdapts(s, n, mountpoint) ==
  s.lvm /\ Unique(LvsOn(s, n)) /\ ~LvFits(The(LvsOn(s, n)), mountpoint)

(* append_block_layer: one layer of the chain *)

LayerBlocks(s, n) ==
  \/ n.kind \in {"zram", "rom", "unknown"}
  \/ n.kind = "lvm" /\ LvBlocks(s, n)
  \/ n.fs = "LVM2_member" /\ PvBlocks(s, n)

LayerAdapts(s, n, mountpoint) ==
  \/ n.kind \in {"crypt", "raid", "multipath"}
  \/ n.kind = "lvm" /\ LvAdapts(s, n, mountpoint)
  \/ n.fs = "LVM2_member" /\ PvAdapts(s, n)

FilesystemAdapts(n) == n.fs \notin {None, "LVM2_member", "swap", "ext4", "xfs"}

\* The status of a route: a blocker outranks a missing adapter.
RouteStatus(s, target) ==
  IF \/ ~Resolved(s, target)
     \/ MountAmbiguous(s, target)
     \/ \E n \in ChainOf(s, DeviceOf(s, target)) : LayerBlocks(s, n)
  THEN "blocked"
  ELSE IF \/ FilesystemAdapts(DeviceOf(s, target))
          \/ \E n \in ChainOf(s, DeviceOf(s, target)) :
               LayerAdapts(s, n, MountpointOf(s, target))
  THEN "adapter"
  ELSE "supported"

\* extend_profile_from_route: the last block layer decides the planner.
ProfileOf(s, target) ==
  IF ~Resolved(s, target) THEN "legacy"
  ELSE CASE DeviceOf(s, target).kind = "partition"        -> "partition"
         [] DeviceOf(s, target).kind = "lvm"              -> "lvm"
         [] DeviceOf(s, target).kind \in {"disk", "loop"} -> "whole"
         [] OTHER                                         -> "legacy"

\* One mount at the mountpoint, read-write, of this very device and type, and
\* lsblk agrees that the device is mounted there and nowhere else.
MountedRw(s, n, mountpoint) ==
  /\ Unique(MountsAt(s, mountpoint))
  /\ LET m == The(MountsAt(s, mountpoint)) IN
       /\ m.source = n.path /\ m.fs = n.fs
       /\ "rw" \in m.opts /\ m.opts \cap {"ro", "bind"} = {}
  /\ n.mounts = {mountpoint}

NotSwapping(s, n) == \A w \in s.swaps : w.name # n.path
GrowTool(fs) == IF fs = "xfs" THEN "xfs_growfs" ELSE "resize2fs"
GrowableFs == {"ext4", "xfs"}
=============================================================================
