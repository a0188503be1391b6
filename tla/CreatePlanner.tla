---------------------------- MODULE CreatePlanner ----------------------------
(***************************************************************************)
(* list_provisioning_opportunities and plan_create: where something new    *)
(* could be put, and the plan to put it there.                             *)
(*                                                                         *)
(* A space is a free range of a partition table ("gap", or "tail" behind   *)
(* the last partition), a blank disk, the free extents of a volume group,  *)
(* or a disk whose table cannot be trusted ("blocked").                    *)
(***************************************************************************)
EXTENDS ExtendPlanner

SpaceKinds == {"blank", "gap", "tail", "group", "blocked"}

Space(kind, disk, vg, range, bytes, sector) ==
  [kind |-> kind, disk |-> disk, vg |-> vg, start |-> range.start, count |-> range.count,
   bytes |-> bytes, sector |-> sector]
NoRange == [start |-> None, count |-> None]

\* provisioning_opportunity_id digests what names the space, not its bytes.
SpaceId(x) == [kind |-> x.kind, disk |-> x.disk, vg |-> x.vg, start |-> x.start, count |-> x.count]

BlockedSpace(disk) == {Space("blocked", disk.path, None, NoRange, 0, disk.sector)}

TableSpaces(disk, t) ==
  IF ~RangesProven(disk, t) THEN BlockedSpace(disk)
  ELSE {Space(IF r.tail THEN "tail" ELSE "gap", disk.path, None, r, r.count * t.sector, t.sector)
        : r \in FreeRanges(disk, t)}

\* A blank disk is offered whether or not the tables could be read.
DiskSpaces(s, disk) ==
  LET ts == TablesOf(s, disk.path) IN
  CASE ts = {} /\ IsBlank(s, disk) ->
         {Space("blank", disk.path, None, NoRange, disk.size, disk.sector)}
    [] ts = {} /\ ~IsBlank(s, disk) -> {}
    [] ts # {} ->
         IF "partition_tables" \in s.complete /\ Unique(ts)
         THEN TableSpaces(disk, The(ts)) ELSE BlockedSpace(disk)

GroupSpaces(s) ==
  IF ~s.lvm THEN {}
  ELSE {Space("group", None, g.name, NoRange, g.free, None) : g \in {v \in s.vgs : v.free # 0}}

Spaces(s) ==
  GroupSpaces(s)
  \cup UNION {DiskSpaces(s, disk) : disk \in {n \in s.nodes : n.kind \in {"disk", "loop"}}}

-----------------------------------------------------------------------------
(* resolve_create_source_adapter: the space again, from the snapshot.       *)

DisksAt(s, path) == {n \in NodesAt(s, path) : n.kind \in {"disk", "loop"}}

GroupResolves(s, x) ==
  LET gs == {g \in s.vgs : g.name = x.vg} IN
  /\ s.lvm /\ Unique(gs)
  /\ The(gs).extent \in Units /\ The(gs).free = x.bytes

RangeResolves(s, x) ==
  /\ x.sector \in Units /\ x.count > 0
  /\ Unique(DisksAt(s, x.disk)) /\ Unique(TablesOf(s, x.disk))
  /\ LET disk == The(DisksAt(s, x.disk))
         t    == The(TablesOf(s, x.disk)) IN
       /\ RangesProven(disk, t) /\ t.sector = x.sector
       /\ [start |-> x.start, count |-> x.count, tail |-> x.kind = "tail"] \in FreeRanges(disk, t)
       /\ x.count * x.sector = x.bytes

Resolves(s, x, label) ==
  CASE x.kind = "blank" -> label # None /\ BlankUsable(s, x, label)
    [] x.kind = "group" -> label = None /\ GroupResolves(s, x)
    [] x.kind \in {"gap", "tail"} -> label = None /\ RangeResolves(s, x)
    [] x.kind = "blocked" -> FALSE

UnitOf(s, x) ==
  IF x.kind = "group" THEN The({g \in s.vgs : g.name = x.vg}).extent ELSE x.sector
StartOf(x, label) == IF x.kind = "blank" THEN BlankStart(x.sector, label) ELSE x.start
AvailableOf(s, x, label) ==
  IF x.kind = "blank"
  THEN (BlankEnd(The(NodesAt(s, x.disk)), x.sector, label) - BlankStart(x.sector, label)) * x.sector
  ELSE x.bytes

-----------------------------------------------------------------------------
(* plan_create *)

\* Nothing is mounted, or listed to be mounted, where the new one shall go.
TargetUnused(s, target) ==
  /\ \A m \in s.mounts : m.target # target
  /\ \A e \in s.fstab : e.target # target

PurposeSound(s, req) ==
  CASE req.purpose = "filesystem" ->
         req.fs \in GrowableFs /\ (req.mount = None \/ TargetUnused(s, req.mount))
    [] req.purpose = "swap" -> req.fs = None /\ req.mount = None

Refusal(req) == [status |-> "blocked", req |-> req, space |-> None, allocation |-> None]

PlanCreate(s, req) ==
  LET found == {x \in Spaces(s) : SpaceId(x) = req.space}
      x == The(found) IN
  IF ~Unique(found) \/ ~Resolves(s, x, req.label) THEN Refusal(req)
  ELSE
  LET unit      == UnitOf(s, x)
      available == AvailableOf(s, x, req.label)
      bytes     == RoundUp(IF req.max THEN available ELSE req.bytes, unit) IN
  IF bytes = 0 \/ bytes > available \/ ~PurposeSound(s, req) THEN Refusal(req)
  ELSE [status |-> "preview", req |-> req, space |-> x,
        allocation |-> [start |-> StartOf(x, req.label), bytes |-> bytes, unit |-> unit,
                        count |-> IF x.kind = "group" THEN None ELSE bytes \div unit,
                        label |-> req.label, vg |-> x.vg]]
=============================================================================
