---------------------------- MODULE HostSnapshot ----------------------------
(***************************************************************************)
(* The records of crates/core that discovery fills in and every other     *)
(* component reads: block devices, partition tables, mounts, swap, LVM,    *)
(* filesystem evidence, and the collectors that answered.                  *)
(*                                                                         *)
(* Names, UUIDs and paths are atoms: the aliases of one device are one     *)
(* atom.  Sizes are in an abstract byte; Units holds the sizes that stand  *)
(* for a power of two of at least 512.  A collector is in `complete` when  *)
(* exactly one status record exists for it and that record says Complete;  *)
(* the snapshot's sets hold no exact duplicates.                           *)
(***************************************************************************)
EXTENDS Integers, FiniteSets, Sequences, FiniteSetsExt, SequencesExt

CONSTANTS
  None,          \* an absent optional field
  Units,         \* the legal sector, extent and block sizes
  PlainSectors   \* the sector sizes 512 and 4096

ASSUME UnitsAssumption == Units \subseteq Nat \ {0} /\ PlainSectors \subseteq Units

NodeKinds == {"disk", "partition", "lvm", "crypt", "raid", "multipath",
              "loop", "rom", "zram", "unknown"}

Components == {"lsblk", "partition_tables", "mounts", "fstab", "swap", "lvm"}

Tools == {"sfdisk", "resize2fs", "xfs_growfs", "e2fsck", "tune2fs",
          "xfs_info", "vgcfgbackup", "pvresize", "lvextend", "mkswap", "swapon",
          "swapoff", "partx", "mkfs.ext4", "mkfs.xfs"}

\* A record with these fields and no others.
IsRecord(r, fields) == r = [f \in fields |-> r[f]]

IsNode(n) ==
  /\ IsRecord(n, {"path", "kind", "parent", "size", "start", "sector", "fs", "uuid",
                  "partuuid", "mounts", "label"})
  /\ n.kind \in NodeKinds
  /\ n.size \in Nat
  /\ n.start \in Nat \cup {None}
  /\ n.sector \in Nat
  /\ n.mounts \in SUBSET STRING

IsTable(t) ==
  /\ IsRecord(t, {"device", "label", "first", "last", "sector", "parts"})
  /\ t.label \in {"gpt", "dos", "other"}
  /\ t.first \in Nat /\ t.last \in Nat /\ t.sector \in Nat
  /\ \A p \in t.parts : p.start \in Nat /\ p.size \in Nat

IsMount(m) == m.opts \subseteq {"rw", "ro", "bind"}

\* One device is one physical volume, one path names one logical volume.
IsLvm(s) ==
  /\ \A S \in {s.pvs, s.vgs, s.lvs} : IsFiniteSet(S)
  /\ \A v \in s.pvs :
       /\ IsRecord(v, {"name", "uuid", "vg", "size", "free", "pe"})
       /\ v.size \in Nat /\ v.free \in Nat /\ v.pe \in Nat
  /\ \A g \in s.vgs :
       /\ IsRecord(g, {"name", "uuid", "size", "free", "extent", "extents", "pvcount",
                       "missing", "writable"})
       /\ g.size \in Nat /\ g.free \in Nat /\ g.extent \in Nat
       /\ g.extents \in Nat /\ g.pvcount \in Nat /\ g.missing \in Nat
  /\ \A l \in s.lvs :
       /\ IsRecord(l, {"path", "name", "uuid", "vg", "size", "linear", "state"})
       /\ l.size \in Nat
  /\ \A v, w \in s.pvs : v.name = w.name => v = w
  /\ \A l, k \in s.lvs : l.path = k.path => l = k

-----------------------------------------------------------------------------
\* "exactly one record": absent and duplicated evidence are both refused.
Unique(S) == Cardinality(S) = 1
The(S) == CHOOSE x \in S : TRUE

Collected(s, components) == components \subseteq s.complete

NodesAt(s, path) == {n \in s.nodes : n.path = path}
ChildrenOf(s, n) == {m \in s.nodes : m.parent = n.path}
MountsAt(s, target) == {m \in s.mounts : m.target = target}
MountsOf(s, path) == {m \in s.mounts : m.source = path}
TablesOf(s, disk) == {t \in s.tables : t.device = disk}
RecordsOf(t, node) == {p \in t.parts : p.node = node}

\* The nodes from the root of the block-device tree down to n.
ChainOf(s, n) ==
  LET up[k \in Nat] ==
        IF k = 0 THEN {n}
        ELSE up[k - 1] \cup
             {m \in s.nodes : \E x \in up[k - 1] : x.parent = m.path}
  IN up[Cardinality(s.nodes)]

Above(s, ancestor, n) == ancestor # n /\ ancestor \in ChainOf(s, n)

\* supported_chain: nothing but disks, partitions and loops above the node.
PlainChain(s, n) ==
  \A m \in ChainOf(s, n) \ {n} : m.kind \in {"disk", "partition", "loop"}

ParentsOf(s, n) ==
  {m \in s.nodes : m.kind \in {"disk", "loop"} /\ m.path = n.parent}

Usable(s, tool) == tool \in s.tools

CeilDiv(value, divisor) ==
  value \div divisor + (IF value % divisor = 0 THEN 0 ELSE 1)

RoundUp(value, unit) == CeilDiv(value, unit) * unit
=============================================================================
