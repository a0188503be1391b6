----------------------------- MODULE DiskLayout -----------------------------
(***************************************************************************)
(* The geometry of a partitioned disk as the planner reads it: the free    *)
(* ranges offered for new partitions, the space behind a partition that it *)
(* may grow into, the usable span of a blank disk, and the tail that a     *)
(* DOS swap partition separates from its neighbour.                        *)
(*                                                                         *)
(* Sectors count from 0.  Checked u64 arithmetic never overflows at the    *)
(* sizes of the model; DosLimit stands for the 2^32 sectors an MBR entry   *)
(* can address.                                                            *)
(***************************************************************************)
EXTENDS HostSnapshot

CONSTANTS
  AlignmentBytes,    \* CREATE_PARTITION_ALIGNMENT_BYTES, 1 MiB
  GptEntryBytes,     \* the 128 * 128 bytes of a GPT entry array
  DosLimit           \* u32::MAX + 1

ASSUME LayoutAssumption ==
  AlignmentBytes \in Nat \ {0} /\ GptEntryBytes \in Nat /\ DosLimit \in Nat

ExtendedTypes == {"extended"}             \* 0x05, 0x0f, 0x85
ProtectedGptTypes == {"esp", "bios", "xbootldr"}
ProtectedDosTypes == {"prep", "esp"}      \* 0xea, 0xef
UnusableDosTypes == {"empty", "protective"}

EndOf(p) == p.start + p.size
Sectors(disk, sector) == disk.size \div sector
Disjoint(parts) ==
  \A p, q \in parts : p # q => EndOf(p) <= q.start \/ EndOf(q) <= p.start
InsideOf(p, container) ==
  p.start >= container.start /\ EndOf(p) <= EndOf(container)
ExtendedOf(t) == {p \in t.parts : p.type \in ExtendedTypes}

AlignUp(value, alignment) ==
  IF value % alignment = 0 THEN value
  ELSE value + (alignment - (value % alignment))

-----------------------------------------------------------------------------
(* partition_free_ranges *)

FirstUsable(t) == IF t.label = "gpt" THEN t.first ELSE 1

\* Faulty form: last_lba is taken for the first sector that is not usable.
FreeLimitShort(disk, t) ==
  IF t.label = "gpt" THEN Min({t.last, Sectors(disk, t.sector)})
  ELSE Sectors(disk, t.sector)

FreeLimit(disk, t) ==
  IF t.label = "gpt"
  THEN Min({t.last + 1, Sectors(disk, t.sector)})
  ELSE Sectors(disk, t.sector)

\* The table describes a geometry that free ranges can be read from.
RangesProven(disk, t) ==
  /\ t.sector \in Units
  /\ disk.size % t.sector = 0
  /\ t.label \in {"gpt", "dos"}
  /\ FirstUsable(t) < FreeLimit(disk, t)
  /\ \A p \in t.parts :
       p.size > 0 /\ p.start >= FirstUsable(t) /\ EndOf(p) <= FreeLimit(disk, t)

\* Touching and overlapping records become one interval.
MergedIntervals(t) ==
  LET sorted == SetToSortSeq({<<p.start, EndOf(p)>> : p \in t.parts},
                             LAMBDA a, b : a[1] < b[1] \/ (a[1] = b[1] /\ a[2] < b[2]))
      Absorb(merged, i) ==
        IF merged # <<>> /\ i[1] <= Last(merged)[2]
        THEN Append(Front(merged), <<Last(merged)[1], Max({Last(merged)[2], i[2]})>>)
        ELSE Append(merged, i)
  IN FoldLeft(Absorb, <<>>, sorted)

\* On DOS the sectors below the first partition may hold a boot loader and
\* are never offered, and a table without partitions offers nothing.
FreeRanges(disk, t) ==
  LET merged == MergedIntervals(t)
      dos    == t.label = "dos"
      scan0  == [cursor |-> IF dos /\ merged # <<>> THEN Head(merged)[2]
                            ELSE FirstUsable(t),
                 found  |-> {}]
      Skip(scan, i) ==
        [cursor |-> Max({scan.cursor, i[2]}),
         found  |-> scan.found \cup
                    (IF i[1] > scan.cursor
                     THEN {[start |-> scan.cursor, count |-> i[1] - scan.cursor,
                            tail |-> FALSE]}
                     ELSE {})]
      rest   == IF dos /\ merged # <<>> THEN Tail(merged) ELSE merged
      scan   == FoldLeft(Skip, scan0, rest)
      limit  == FreeLimit(disk, t)
  IN IF dos /\ merged = <<>> THEN {}
     ELSE scan.found \cup
          (IF scan.cursor < limit
           THEN {[start |-> scan.cursor, count |-> limit - scan.cursor,
                  tail |-> merged # <<>>]}
           ELSE {})

-----------------------------------------------------------------------------
(* adjacent_free_sectors: how far a partition may grow in place *)

\* "Provable": every refusal of the functions below has been passed.
AdjacentGptProvable(t) ==
  /\ \A p \in t.parts :
       p.size > 0 /\ p.start >= t.first /\ EndOf(p) <= t.last + 1
  /\ Disjoint(t.parts)

\* The partitions that bound each other: the container stands for what lies
\* inside it.
Primaries(t) ==
  {p \in t.parts : ~ \E x \in ExtendedOf(t) : p.node # x.node /\ InsideOf(p, x)}

AdjacentDosProvable(disk, t, p) ==
  /\ \A q \in t.parts : q.type \notin UnusableDosTypes \cup {None}
  /\ Cardinality(ExtendedOf(t)) <= 1
  /\ p.type \notin ExtendedTypes
  /\ \A x \in ExtendedOf(t) : ~InsideOf(p, x)
  /\ \A q \in t.parts :
       /\ q.size > 0 /\ q.start >= 1
       /\ EndOf(q) <= Min({Sectors(disk, t.sector), DosLimit})
  /\ Disjoint(Primaries(t))

AdjacentProvable(disk, t, p) ==
  CASE t.label = "gpt" -> AdjacentGptProvable(t)
    [] t.label = "dos" -> AdjacentDosProvable(disk, t, p)
    [] OTHER           -> FALSE

\* adjacent_from_ranges: to the next partition, or to the limit.
GapBehind(parts, p, limit) ==
  Min({q.start : q \in {r \in parts : r.start >= EndOf(p)}} \cup {limit}) - EndOf(p)

AdjacentFree(disk, t, p) ==
  IF t.label = "gpt" THEN GapBehind(t.parts, p, t.last + 1)
  ELSE GapBehind(Primaries(t), p, Min({Sectors(disk, t.sector), DosLimit}))

\* ensure_partition_role_is_growable
Growable(t, p) ==
  CASE t.label = "gpt" -> p.type \notin ProtectedGptTypes \cup {None, "malformed"}
    [] t.label = "dos" -> p.type \notin ProtectedDosTypes \cup {None, "malformed"}
    [] OTHER           -> p.type # None

-----------------------------------------------------------------------------
(* blank_disk_geometry *)

AlignmentSectors(sector) == Max({CeilDiv(AlignmentBytes, sector), 1})

BlankFirst(sector, label) ==
  IF label = "gpt" THEN 2 + CeilDiv(GptEntryBytes, sector) ELSE 1
BlankStart(sector, label) ==
  AlignUp(BlankFirst(sector, label), AlignmentSectors(sector))

\* Faulty form: the backup header behind the entries is forgotten.
BlankEndOverHeader(disk, sector, label) ==
  IF label = "gpt" THEN Sectors(disk, sector) - CeilDiv(GptEntryBytes, sector)
  ELSE Min({Sectors(disk, sector), DosLimit})

BlankEnd(disk, sector, label) ==
  IF label = "gpt"
  THEN Sectors(disk, sector) - (CeilDiv(GptEntryBytes, sector) + 1)
  ELSE Min({Sectors(disk, sector), DosLimit})

\* The disk carries nothing at all and discovery can be trusted to say so.
IsBlank(s, disk) ==
  /\ disk.kind \in {"disk", "loop"}
  /\ ChildrenOf(s, disk) = {}
  /\ disk.fs = None /\ disk.label = None

BlankUsable(s, source, label) ==
  /\ "partition_tables" \in s.complete
  /\ Unique(NodesAt(s, source.disk))
  /\ LET disk == The(NodesAt(s, source.disk)) IN
       /\ IsBlank(s, disk) /\ disk.mounts = {}
       /\ TablesOf(s, disk.path) = {}
       /\ \A w \in s.swaps : w.name # disk.path
       /\ s.errors \cap {disk.path, None} = {}
       /\ disk.sector \in Units /\ disk.size > 0 /\ disk.size % disk.sector = 0
       /\ source.sector = disk.sector /\ source.bytes = disk.size
       /\ BlankStart(disk.sector, label) < BlankEnd(disk, disk.sector, label)
=============================================================================
