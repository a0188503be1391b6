-------------------------- MODULE CreateActivation --------------------------
(***************************************************************************)
(* What a creation plan is frozen into, the profiles that may be activated *)
(* and what the preflight compares with a fresh snapshot: the blank disk    *)
(* that becomes one partition with one filesystem, and the tail of a GPT    *)
(* disk that takes one more partition.  Nothing beyond the preflight of a   *)
(* tail is written yet.                                                    *)
(***************************************************************************)
EXTENDS CreatePlanner

CONSTANTS
  TailSectors,         \* the powers of two from 512 to 4096
  FirstPartition(_)    \* partition_device: the node of partition 1 of a disk

\* An intent names the disk, the range and the filesystem; a tail's names the
\* table as well, record by record (the digest of its canonical form).
Intent(kind, disk, plan, label, table) ==
  [kind |-> kind, disk |-> disk.path, size |-> disk.size, sector |-> disk.sector,
   label |-> label, start |-> plan.allocation.start, count |-> plan.allocation.count,
   bytes |-> plan.allocation.bytes, fs |-> plan.req.fs, space |-> plan.space, table |-> table]

\* Both intents defer the mount and leave swap to the migration.
PlainFilesystem(plan) ==
  /\ plan.status = "preview"
  /\ plan.req.purpose = "filesystem" /\ plan.req.fs \in GrowableFs /\ plan.req.mount = None

NotSwap(s, path) == \A w \in s.swaps : w.name # path

-----------------------------------------------------------------------------
(* Blank disk *)

\* freeze_blank_disk_filesystem_create_intent.  The allocation is compared
\* with the sector size of the disk, not with its size.
FreezesBlank(s, plan) ==
  /\ PlainFilesystem(plan) /\ plan.space.kind = "blank"
  /\ plan.allocation.label # None
  /\ "partition_tables" \in s.complete
  /\ Unique(NodesAt(s, plan.space.disk))
  /\ LET disk == The(NodesAt(s, plan.space.disk)) IN
       /\ IsBlank(s, disk) /\ disk.mounts = {}
       /\ TablesOf(s, disk.path) = {} /\ NotSwap(s, disk.path)
       /\ disk.sector > 0 /\ plan.allocation.start > 0
       /\ plan.allocation.count * disk.sector = plan.allocation.bytes

BlankIntent(s, plan) ==
  Intent("blank", The(NodesAt(s, plan.space.disk)), plan, plan.allocation.label, None)

BlankProfile(x) ==
  /\ x.size > 0 /\ x.sector \in PlainSectors /\ x.size % x.sector = 0
  /\ x.start > 0 /\ x.count > 0 /\ x.start + x.count <= x.size \div x.sector

\* validate_fresh_blank_disk: only the collector of the tables is asked for.
InUse(s, paths) ==
  \/ \E m \in s.mounts : m.source \in paths
  \/ \E e \in s.fstab : e.source \in paths
  \/ \E w \in s.swaps : w.name \in paths

Roots(s, path) == {n \in NodesAt(s, path) : n.parent = None}

StillBlank(x, s) ==
  /\ "partition_tables" \in s.complete
  /\ Unique(Roots(s, x.disk))
  /\ LET disk == The(Roots(s, x.disk)) IN
       /\ disk.size = x.size /\ disk.sector = x.sector
       /\ IsBlank(s, disk) /\ disk.mounts = {}
       /\ TablesOf(s, disk.path) = {} /\ ~InUse(s, {disk.path})
       /\ x.start + x.count <= x.size \div x.sector

-----------------------------------------------------------------------------
(* The tail of a GPT disk *)

\* validate_existing_gpt_records, validate_partition_records
GptRecordsValid(t) ==
  /\ AdjacentGptProvable(t)
  /\ \A p \in t.parts : Unique(RecordsOf(t, p.node))

\* The start is where the free range starts: it is aligned or it is not.
TailAllocated(x, last) ==
  /\ AlignmentBytes % x.sector = 0
  /\ x.start = x.space.start /\ x.start % (AlignmentBytes \div x.sector) = 0
  /\ x.count > 0 /\ x.count <= x.space.count
  /\ x.count * x.sector = x.bytes /\ x.space.count * x.sector = x.space.bytes
  /\ x.space.start + x.space.count <= last + 1

TailIntent(s, plan) ==
  Intent("tail", The(DisksAt(s, plan.space.disk)), plan, "gpt", The(TablesOf(s, plan.space.disk)))

\* freeze_gpt_tail_filesystem_create_intent
FreezesTail(s, plan) ==
  /\ PlainFilesystem(plan) /\ plan.space.kind = "tail" /\ plan.req.label = None
  /\ Collected(s, {"lsblk", "partition_tables"})
  /\ Unique(DisksAt(s, plan.space.disk)) /\ Unique(TablesOf(s, plan.space.disk))
  /\ LET disk == The(DisksAt(s, plan.space.disk))
         t    == The(TablesOf(s, plan.space.disk)) IN
       /\ disk.size > 0 /\ disk.fs = None /\ disk.mounts = {} /\ disk.label = "gpt"
       /\ NotSwap(s, disk.path)
       /\ t.label = "gpt" /\ t.first > 0 /\ t.last >= t.first /\ t.sector \in Units
       /\ GptRecordsValid(t)
       /\ disk.sector = t.sector /\ disk.size % t.sector = 0
       /\ Resolves(s, plan.space, None)
       /\ TailAllocated(TailIntent(s, plan), t.last)

TailProfile(x) ==
  /\ x.size > 0 /\ x.sector \in TailSectors /\ x.size % x.sector = 0
  /\ x.table.label = "gpt" /\ x.table.first > 0 /\ x.table.last >= x.table.first
  /\ x.table.sector = x.sector /\ x.space.start >= x.table.first
  /\ TailAllocated(x, x.table.last)

\* The kernel has the partitions of the table and no others, and no
\* reconciliation error names one of them.
KernelAgrees(s, disk, t) ==
  LET children == ChildrenOf(s, disk) IN
  /\ Cardinality(children) = Cardinality(t.parts)
  /\ \A n \in children :
       /\ n.kind = "partition" /\ n.sector = t.sector /\ Unique(NodesAt(s, n.path))
       /\ Unique(RecordsOf(t, n.path))
       /\ LET p == The(RecordsOf(t, n.path)) IN
            /\ n.start = p.start * t.sector /\ n.size = p.size * t.sector
            /\ p.uuid \in {None, n.partuuid}
  /\ s.errors \cap ({None} \cup {n.path : n \in {m \in s.nodes : disk \in ChainOf(s, m)}}
                           \cup {p.node : p \in t.parts}) = {}

\* canonical_table_sha256: every field of every record.
SameGpt(t, x) == t = x.table

\* validate_fresh_gpt_tail
StillTail(x, s) ==
  /\ Collected(s, {"lsblk", "partition_tables", "mounts", "fstab", "swap"})
  /\ Unique(DisksAt(s, x.disk)) /\ Unique(TablesOf(s, x.disk))
  /\ LET disk == The(DisksAt(s, x.disk))
         t    == The(TablesOf(s, x.disk)) IN
       /\ disk.size = x.size /\ disk.sector = x.sector
       /\ disk.fs = None /\ disk.mounts = {} /\ disk.parent = None /\ disk.label = "gpt"
       /\ SameGpt(t, x) /\ GptRecordsValid(t)
       /\ KernelAgrees(s, disk, t)
       /\ {y \in Spaces(s) : SpaceId(y) = SpaceId(x.space)} = {x.space}
       /\ TailAllocated(x, t.last)

-----------------------------------------------------------------------------
(* Launch: sfdisk writes the table, partx maps the partition, mkfs formats  *)
(* it.  Neither sfdisk nor partx looks whether the disk is in use.           *)

MkfsTool(fs) == IF fs = "ext4" THEN "mkfs.ext4" ELSE "mkfs.xfs"
CreateTools(x) == {"sfdisk", "partx", MkfsTool(x.fs)}

NewRecord(x) ==
  [node |-> FirstPartition(x.disk), start |-> x.start, size |-> x.count, type |-> "linux",
   uuid |-> "new"]

\* The sectors a label leaves for partitions, as sfdisk counts them.
LabelFirst(x) == IF x.label = "gpt" THEN 2 + CeilDiv(GptEntryBytes, x.sector) ELSE 1
LabelLast(x) ==
  LET sectors == x.size \div x.sector IN
  IF x.label = "gpt" THEN sectors - 2 - CeilDiv(GptEntryBytes, x.sector)
  ELSE Min({sectors, DosLimit}) - 1

SfdiskAccepts(h, x) ==
  /\ \E n \in NodesAt(h, x.disk) : n.size = x.size
  /\ x.start >= LabelFirst(x) /\ x.start + x.count - 1 <= LabelLast(x)

\* The new table takes the place of whatever was on the disk.
TableWritten(h, x) ==
  [h EXCEPT
     !.tables = {t \in @ : t.device # x.disk}
                \cup {[device |-> x.disk, label |-> x.label, first |-> LabelFirst(x),
                       last |-> LabelLast(x), sector |-> x.sector, parts |-> {NewRecord(x)}]},
     !.nodes = {IF n.path = x.disk THEN [n EXCEPT !.label = x.label, !.fs = None] ELSE n : n \in @},
     !.filesystems = {f \in @ : f.device # x.disk}]

\* An old superblock may lie where the new partition starts.
Mapped(h, x, remnant) ==
  [h EXCEPT !.nodes = @ \cup
     {[path |-> FirstPartition(x.disk), kind |-> "partition", parent |-> x.disk,
       size |-> x.bytes, start |-> x.start * x.sector, sector |-> x.sector, fs |-> remnant,
       uuid |-> None, partuuid |-> "new", mounts |-> {}, label |-> None]}]

MkfsAccepts(h, x) ==
  /\ NodesAt(h, FirstPartition(x.disk)) # {}
  /\ \A n \in NodesAt(h, FirstPartition(x.disk)) : n.mounts = {}

Formatted(h, x) ==
  LET at == FirstPartition(x.disk) IN
  [h EXCEPT
     !.nodes = {IF n.path = at THEN [n EXCEPT !.fs = x.fs, !.uuid = "new"] ELSE n : n \in @},
     !.filesystems = {f \in @ : f.device # at} \cup
        {[device |-> at, fs |-> x.fs, block |-> 1, count |-> The(NodesAt(h, at)).size,
          clean |-> TRUE, features |-> TRUE, grows |-> TRUE]}]

-----------------------------------------------------------------------------
(* verify_partition_snapshot: the geometry first, then the use of it.  lsblk *)
(* is not asked where the partition starts; the table is.                    *)

PartitionShown(x, s) ==
  /\ "partition_tables" \in s.complete
  /\ Unique(TablesOf(s, x.disk)) /\ Unique(Roots(s, x.disk))
  /\ LET t    == The(TablesOf(s, x.disk))
         disk == The(Roots(s, x.disk)) IN
       /\ t.label = x.label /\ t.sector = x.sector
       /\ {[p EXCEPT !.uuid = "new"] : p \in t.parts} = {NewRecord(x)} /\ Unique(t.parts)
       /\ disk.kind \in {"disk", "loop"} /\ disk.size = x.size /\ disk.sector = x.sector
       /\ disk.label = x.label /\ Unique(ChildrenOf(s, disk))
       /\ LET n == The(ChildrenOf(s, disk)) IN
            /\ n.path = FirstPartition(x.disk) /\ n.kind = "partition"
            /\ n.size = x.bytes /\ n.sector = x.sector

\* UnexpectedPartitionUse: never retried.  A formatted partition has its
\* filesystem left out of the comparison.
PartitionUsed(x, s) ==
  \/ InUse(s, {x.disk, FirstPartition(x.disk)})
  \/ \E n \in NodesAt(s, FirstPartition(x.disk)) : n.mounts # {}
Signed(x, s) == \E n \in NodesAt(s, FirstPartition(x.disk)) : n.fs # None
FormatShown(x, s) ==
  /\ PartitionShown(x, s)
  /\ \A n \in NodesAt(s, FirstPartition(x.disk)) : n.fs = x.fs
=============================================================================
