------------------------------ MODULE Discovery ------------------------------
(***************************************************************************)
(* discover_snapshot: ten reads of a machine, one after the other, made    *)
(* into one snapshot, and the cross-checks that tell whether the reads fit *)
(* together.                                                               *)
(*                                                                         *)
(* A machine has the fields of a snapshot, with the filesystems as they    *)
(* are in place of the evidence about them, `broken`, the collectors whose *)
(* command fails, and what only a swap migration reads: `resume`, the room *)
(* on the mounts, and the `files` in the way.  Nothing holds the machine   *)
(* still: a reading may take its first parts from the machine before a     *)
(* change and the rest from the machine after it.                          *)
(***************************************************************************)
EXTENDS DiskLayout

IsMachine(h) ==
  /\ IsRecord(h, {"nodes", "tables", "mounts", "swaps", "fstab", "pvs", "vgs", "lvs",
                  "filesystems", "broken", "tools", "resume", "room", "files"})
  /\ IsFiniteSet(h.nodes) /\ IsFiniteSet(h.tables)
  /\ \A n \in h.nodes : IsNode(n)
  /\ \A t \in h.tables : IsTable(t)
  /\ \A m \in h.mounts : IsMount(m)
  /\ IsLvm(h)
  /\ \A f \in h.filesystems :
       f.block \in Nat \ {0} /\ f.count \in Nat /\ {f.clean, f.features, f.grows} \subseteq BOOLEAN
  /\ h.tools \subseteq Tools /\ h.broken \subseteq Components
  /\ h.resume \in BOOLEAN /\ \A r \in h.room : r.bytes \in Nat

-----------------------------------------------------------------------------
(* The collectors *)

\* sfdisk is asked only about the disks lsblk gave a table to.
TablesRead(nodes, h) ==
  {t \in h.tables : \E n \in nodes : /\ n.path = t.device /\ n.parent = None
                                     /\ n.kind \in {"disk", "loop"} /\ n.label # None}

\* first_real_mountpoint
FirstMount(n) ==
  IF n.mounts \ {"[SWAP]"} = {} THEN None ELSE CHOOSE m \in n.mounts \ {"[SWAP]"} : TRUE

Unprobed(n, mountpoint, state) ==
  [device |-> n.path, mount |-> mountpoint, fs |-> n.fs, state |-> state, block |-> None,
   count |-> None, size |-> None, clean |-> FALSE, features |-> FALSE, growcheck |-> None]
Geometry(f) == [block |-> f.block, count |-> f.count, size |-> f.block * f.count]

\* tune2fs -l: a superblock that reads back is "verified", whatever it says.
ProbeExt4(n, h) ==
  LET fs == {f \in h.filesystems : f.device = n.path /\ f.fs = "ext4"} IN
  IF "tune2fs" \notin h.tools THEN Unprobed(n, FirstMount(n), "unavailable")
  ELSE IF ~Unique(fs) THEN Unprobed(n, FirstMount(n), "failed")
  ELSE LET f == The(fs) IN
       Geometry(f) @@ [clean |-> f.clean, features |-> f.features]
       @@ Unprobed(n, FirstMount(n), "verified")

\* xfs_info and xfs_growfs -n, of a mounted filesystem only.
ProbeXfs(n, h) ==
  LET fs == {f \in h.filesystems : f.device = n.path /\ f.fs = "xfs"}
      info == "xfs_info" \in h.tools /\ Unique(fs)
      grow == IF "xfs_growfs" \notin h.tools THEN None ELSE Unique(fs) /\ The(fs).grows
      state == CASE info /\ grow = TRUE -> "verified"
                 [] info \/ grow = TRUE -> "partial"
                 [] grow = None /\ "xfs_info" \notin h.tools -> "unavailable"
                 [] OTHER -> "failed" IN
  IF FirstMount(n) = None THEN Unprobed(n, None, "partial")
  ELSE [growcheck |-> grow]
       @@ (IF info THEN Geometry(The(fs)) @@ [features |-> The(fs).features] ELSE <<>>)
       @@ Unprobed(n, FirstMount(n), state)

Probed(nodes, h) ==
  {ProbeExt4(n, h) : n \in {m \in nodes : m.fs = "ext4"}}
  \cup {ProbeXfs(n, h) : n \in {m \in nodes : m.fs = "xfs"}}

\* The parts of a snapshot in the order they are read: the first `cut` from
\* the machine as it was, the others from the machine as it is now.  The
\* tools come with the capability inventory read behind the snapshot.
Read(was, now, cut) ==
  LET At(i) == IF i <= cut THEN was ELSE now
      Works(i, component) == component \notin At(i).broken
      lvm == Works(6, "lvm") IN
  [nodes    |-> At(1).nodes,
   tables   |-> IF Works(2, "partition_tables") THEN TablesRead(At(1).nodes, At(2)) ELSE {},
   mounts   |-> IF Works(3, "mounts") THEN At(3).mounts ELSE {},
   fstab    |-> IF Works(4, "fstab") THEN At(4).fstab ELSE {},
   swaps    |-> IF Works(5, "swap") THEN At(5).swaps ELSE {},
   lvm      |-> lvm,
   pvs      |-> IF lvm THEN At(6).pvs ELSE {},
   vgs      |-> IF lvm THEN At(7).vgs ELSE {},
   lvs      |-> IF lvm THEN At(8).lvs ELSE {},
   evidence |-> Probed(At(1).nodes, At(9)),
   complete |-> {"lsblk"} \cup {c \in Components : Works(2, c)},
   errors   |-> {},
   tools    |-> At(10).tools]

-----------------------------------------------------------------------------
(* diagnose_storage and reconcile_snapshot: the devices an error names.     *)
(* Warnings and informations change no decision.                            *)

DiskAgrees(s, t) ==
  /\ NodesAt(s, t.device) # {}
  /\ \A d \in NodesAt(s, t.device) :
       d.label \in {None, t.label} /\ d.sector = t.sector

\* An extended container has a size of its own in lsblk.
PartitionAgrees(s, t, p) ==
  /\ NodesAt(s, p.node) # {}
  /\ \A n \in NodesAt(s, p.node) :
       /\ n.start \in {None, p.start * t.sector}
       /\ (t.label = "dos" /\ p.type \in ExtendedTypes) \/ n.size = p.size * t.sector
       /\ n.partuuid \in {None, p.uuid} \/ p.uuid = None

Unlisted(s, t) ==
  {n \in s.nodes : n.parent = t.device /\ n.kind = "partition" /\ RecordsOf(t, n.path) = {}}

OverDisk(s) ==
  {n \in s.nodes : /\ n.kind = "partition"
                   /\ \E d \in s.nodes : d.path = n.parent /\ d.kind = "disk" /\ n.size > d.size}

ErrorsOf(s) ==
  {n.path : n \in OverDisk(s) \cup UNION {Unlisted(s, t) : t \in s.tables}}
  \cup {t.device : t \in {u \in s.tables : ~DiskAgrees(s, u)}}
  \cup UNION {{p.node : p \in {q \in t.parts : ~PartitionAgrees(s, t, q)}} : t \in s.tables}

\* Every snapshot a discovery may return that overlaps with one change of
\* the machine, or with none.
Readings(was, now) ==
  {[r EXCEPT !.errors = ErrorsOf(r)]
   : r \in {Read(was, now, cut) : cut \in IF was = now THEN {0} ELSE 0..10}}

\* What a swap migration reads behind a snapshot, in this order: whether the
\* machine may resume from swap, the room on its mounts, the paths in use.
Aside(was, now, cut) ==
  LET At(i) == IF i <= cut THEN was ELSE now IN
  [resume |-> At(11).resume, room |-> At(12).room, files |-> At(13).files]

Surveys(was, now) ==
  {[snapshot |-> [Read(was, now, cut) EXCEPT !.errors = ErrorsOf(Read(was, now, cut))],
    aside    |-> Aside(was, now, cut)]
   : cut \in IF was = now THEN {0} ELSE 0..13}
=============================================================================
