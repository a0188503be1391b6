--------------------------- MODULE CapacityAnalysis ---------------------------
(***************************************************************************)
(* analyze_extendability: the advisory view of a target, with resolution   *)
(* and geometry of its own, written apart from the planner's and stricter  *)
(* in what it takes for evidence.                                          *)
(***************************************************************************)
EXTENDS Discovery

(* identity.rs *)

SourceResolves(s, source) ==
  LET lvs == {l \in s.lvs : l.path = source} IN
  /\ Unique(NodesAt(s, source))
  /\ \A n \in NodesAt(s, source) :
       /\ lvs # {} => n.kind = "lvm"
       /\ n.kind = "lvm" => "lvm" \in s.complete /\ Unique(lvs)

\* confirm_mounts: lsblk and the mount table tell the same story.
MountsConfirmed(s, n) ==
  /\ "mounts" \in s.complete
  /\ \A at \in n.mounts :
       /\ Unique(MountsAt(s, at))
       /\ {d \in s.nodes : at \in d.mounts} = {n}
       /\ \A m \in MountsAt(s, at) :
            /\ m.source = n.path /\ SourceResolves(s, m.source)
            /\ m.fs = n.fs
            /\ "rw" \in m.opts /\ m.opts \cap {"ro", "bind"} = {}
  /\ \A m \in MountsOf(s, n.path) : SourceResolves(s, m.source) => m.target \in n.mounts

\* resolve_target: the node a target names, in a set of at most one.
TargetNodes(s, target, isDevice) ==
  LET rows == MountsAt(s, target)
      source == IF isDevice THEN target ELSE The(rows).source IN
  IF /\ "lsblk" \in s.complete
     /\ isDevice \/ ("mounts" \in s.complete /\ Unique(rows))
     /\ SourceResolves(s, source)
     /\ \A n \in NodesAt(s, source) : MountsConfirmed(s, n)
  THEN NodesAt(s, source) ELSE {}

-----------------------------------------------------------------------------
(* geometry.rs: what lies behind a partition, None where the evidence does   *)
(* not agree.                                                                *)

Children(s, disk) == {n \in s.nodes : n.parent = disk.path}

\* lsblk and sfdisk give one record the same place.
SamePlace(t, p, n) ==
  /\ n.kind = "partition" /\ n.sector = t.sector
  /\ n.start = p.start * t.sector
  /\ (p.type \in ExtendedTypes /\ t.label = "dos") \/ n.size = p.size * t.sector
  /\ p.size > 0

GptEvidence(s, disk, t) ==
  /\ t.first >= 2 /\ t.first < t.last + 1 /\ t.last + 1 < Sectors(disk, t.sector)
  /\ Cardinality(Children(s, disk)) = Cardinality(t.parts)
  /\ \A p \in t.parts :
       /\ Unique({n \in Children(s, disk) : n.path = p.node})
       /\ \A n \in Children(s, disk) : n.path = p.node =>
            SamePlace(t, p, n) /\ p.uuid # None /\ n.partuuid = p.uuid
       /\ p.start >= t.first /\ EndOf(p) <= t.last + 1
       /\ \A q \in t.parts \ {p} : q.uuid # p.uuid /\ q.node # p.node
  /\ Disjoint(t.parts)

\* Records without a node are not looked at; the container keeps what lies
\* inside it apart.
DosEvidence(s, disk, t, p) ==
  LET parts == {q \in t.parts : \E n \in Children(s, disk) : n.path = q.node} IN
  /\ Cardinality(ExtendedOf(t)) <= 1 /\ p.type \notin ExtendedTypes
  /\ \A n \in Children(s, disk) :
       /\ Unique(RecordsOf(t, n.path))
       /\ \A q \in RecordsOf(t, n.path) :
            /\ q.type \notin UnusableDosTypes \cup {None}
            /\ SamePlace(t, q, n)
            /\ q.start >= 1 /\ EndOf(q) <= Min({Sectors(disk, t.sector), DosLimit})
  /\ Disjoint(parts \cap Primaries(t)) /\ Disjoint(parts \ Primaries(t))
  /\ p \in Primaries(t)

\* Faulty form: last_lba is taken for the first sector that is not usable.
CapacityBehindLast(s, disk, t, p) ==
  LET parts == {q \in t.parts : \E n \in Children(s, disk) : n.path = q.node} IN
  IF t.label = "gpt"
  THEN IF GptEvidence(s, disk, t) THEN GapBehind(t.parts, p, t.last) ELSE None
  ELSE IF DosEvidence(s, disk, t, p)
       THEN GapBehind(parts \cap Primaries(t), p, Min({Sectors(disk, t.sector), DosLimit}))
       ELSE None

CapacityBehind(s, disk, t, p) ==
  LET parts == {q \in t.parts : \E n \in Children(s, disk) : n.path = q.node} IN
  IF t.label = "gpt"
  THEN IF GptEvidence(s, disk, t) THEN GapBehind(t.parts, p, t.last + 1) ELSE None
  ELSE IF DosEvidence(s, disk, t, p)
       THEN GapBehind(parts \cap Primaries(t), p, Min({Sectors(disk, t.sector), DosLimit}))
       ELSE None

\* adjacent_capacity, in bytes.
AdjacentCapacity(s, n) ==
  LET disks == {d \in s.nodes : d.path = n.parent}
      Of(disk, t) ==
        IF /\ t.sector \in PlainSectors /\ disk.sector = t.sector
           /\ disk.size > 0 /\ disk.size % t.sector = 0
           /\ t.label = disk.label /\ t.label \in {"gpt", "dos"}
           /\ Unique(RecordsOf(t, n.path))
        THEN LET gap == CapacityBehind(s, disk, t, The(RecordsOf(t, n.path))) IN
             IF gap = None THEN None ELSE gap * t.sector
        ELSE None IN
  IF /\ Collected(s, {"lsblk", "partition_tables"})
     /\ Unique(disks) /\ The(disks).kind \in {"disk", "loop"}
     /\ Unique(TablesOf(s, The(disks).path))
  THEN Of(The(disks), The(TablesOf(s, The(disks).path)))
  ELSE None

-----------------------------------------------------------------------------
(* analysis.rs *)

Verdict(status, immediate, below) ==
  [status |-> status, now |-> immediate, below |-> below]

\* analyze_vg_underlying_capacity: None where a physical volume of the group
\* cannot be accounted for.
BelowGroup(s, g) ==
  LET pvs == {v \in s.pvs : v.vg = g.name}
      on == {n \in s.nodes : \E v \in pvs : v.name = n.path}
      sizes == {<<n, AdjacentCapacity(s, n)>> : n \in on} IN
  IF /\ pvs # {} /\ Cardinality(pvs) = g.pvcount /\ Cardinality(on) = g.pvcount
     /\ \A v \in pvs :
          /\ v.uuid # None /\ SourceResolves(s, v.name)
          /\ \A n \in NodesAt(s, v.name) : n.kind = "partition" /\ n.uuid = v.uuid
     /\ \A x \in sizes : x[2] # None
  THEN FoldSet(LAMBDA x, sum : x[2] + sum, 0, sizes) ELSE None

AnalyzeLvm(s, n) ==
  LET lvs == {l \in s.lvs : l.path = n.path}
      gs == {g \in s.vgs : \E l \in lvs : g.name = l.vg}
      Below(bytes) == CASE bytes = None -> Verdict("needs_geometry", 0, None)
                        [] bytes > 0    -> Verdict("needs_resize", 0, bytes)
                        [] OTHER        -> Verdict("needs_capacity", 0, 0) IN
  IF ~s.lvm \/ ~Unique(lvs) \/ ~Unique(gs) THEN Verdict("unknown", None, None)
  ELSE IF The(gs).free > 0
  THEN Verdict(IF n.fs = "xfs" /\ n.mounts = {} THEN "requires_mount" ELSE "ready",
               The(gs).free, None)
  ELSE Below(BelowGroup(s, The(gs)))

AnalyzePartition(s, n) ==
  LET Below(bytes) == CASE bytes = None -> Verdict("needs_geometry", None, None)
                        [] bytes > 0    -> Verdict("needs_resize", None, bytes)
                        [] OTHER        -> Verdict("needs_capacity", None, 0) IN
  Below(AdjacentCapacity(s, n))

Analyze(s, target, isDevice) ==
  LET Of(n) ==
        CASE s.errors # {} \/ n.fs = None -> Verdict("unknown", None, None)
          [] n.fs \notin {"ext4", "xfs"}  -> Verdict("unsupported", None, None)
          [] n.kind = "lvm"               -> AnalyzeLvm(s, n)
          [] n.kind = "partition"         -> AnalyzePartition(s, n)
          [] OTHER                        -> Verdict("needs_geometry", None, None) IN
  IF TargetNodes(s, target, isDevice) = {} THEN Verdict("unknown", None, None)
  ELSE Of(The(TargetNodes(s, target, isDevice)))
=============================================================================
