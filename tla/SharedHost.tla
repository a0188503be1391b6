----------------------------- MODULE SharedHost -----------------------------
(***************************************************************************)
(* The machine under a session, and the other administrators on it.        *)
(*                                                                         *)
(* `host` is the machine itself, `was` what it was before the last change  *)
(* that somebody else made since the session's last step: a discovery may  *)
(* still have read parts of that.  MaxInterference bounds how often the    *)
(* others change something.                                                *)
(*                                                                         *)
(* The storage tools are modelled by what the steps of the code and its    *)
(* verification expect of them.                                            *)
(***************************************************************************)
EXTENDS SealedChain

CONSTANTS
  Hosts,             \* the machines a session may start on
  MaxInterference    \* how often the machine changes under a session

ASSUME HostsAssumption == \A h \in Hosts : IsMachine(h)

VARIABLES host, was, meddled

\* A discovery now: it fails altogether without lsblk, and may be torn.
Discovered ==
  IF "lsblk" \in host.broken THEN {None} ELSE Readings(was, host)

\* The session did something: a later reading starts from here.
Settled == was' = host'

-----------------------------------------------------------------------------
(* What the storage tools do *)

\* sfdisk refuses a partition over its neighbours or past the usable end.
PartitionFits(h, x) ==
  \E t \in h.tables : \E p \in t.parts :
    /\ p.node = x.node
    /\ x.start + x.new <= (IF t.label = "gpt" THEN t.last + 1
                           ELSE Sectors(The(NodesAt(h, t.device)), t.sector))
    /\ \A q \in Primaries(t) \ {p} :
         x.start + x.new <= q.start \/ EndOf(q) <= x.start

Partitioned(h, x) ==
  [h EXCEPT
     !.tables = {[t EXCEPT !.parts =
                    {IF p.node = x.node THEN [p EXCEPT !.start = x.start, !.size = x.new]
                     ELSE p : p \in t.parts}] : t \in h.tables},
     !.nodes = {IF n.path = x.node
                THEN [n EXCEPT !.start = x.start * x.sector, !.size = x.new * x.sector]
                ELSE n : n \in h.nodes}]

\* pvresize --setphysicalvolumesize: the new extents are free ones.
PvFits(h, x) ==
  \E v \in h.pvs : v.uuid = x.pv /\ x.to + v.pe <= The(NodesAt(h, v.name)).size
PvResized(h, x) ==
  LET v == The({w \in h.pvs : w.uuid = x.pv})
      more == x.to - v.size IN
  [h EXCEPT
     !.pvs = {IF w = v THEN [w EXCEPT !.size = x.to, !.free = @ + more] ELSE w : w \in h.pvs},
     !.vgs = {IF g.name = v.vg
              THEN [g EXCEPT !.size = @ + more, !.free = @ + more,
                             !.extents = @ + (more \div g.extent)]
              ELSE g : g \in h.vgs}]

\* lvextend --extents +N: on top of whatever the volume has by now.
LvFitsGroup(h, x) ==
  \E l \in h.lvs : l.uuid = x.lv /\ \E g \in GroupOf(h, l) : x.extents <= g.extents
LvExtended(h, l, extents) ==
  LET g == The(GroupOf(h, l))
      more == extents * g.extent IN
  [h EXCEPT
     !.lvs = {IF k = l THEN [k EXCEPT !.size = @ + more] ELSE k : k \in h.lvs},
     !.nodes = {IF n.path = l.path THEN [n EXCEPT !.size = @ + more] ELSE n : n \in h.nodes},
     !.pvs = {IF v.vg = g.name THEN [v EXCEPT !.free = @ - more] ELSE v : v \in h.pvs},
     !.vgs = {IF f = g THEN [f EXCEPT !.free = @ - more, !.extents = @ - extents] ELSE f
              : f \in h.vgs}]

\* resize2fs and xfs_growfs -d take no size: the filesystem fills its device.
FsFits(h, x, device) ==
  /\ \E f \in h.filesystems : f.device = device /\ f.fs = x.fs
  /\ x.fs = "xfs" => \E m \in h.mounts : m.target = x.mount /\ m.source = device
  /\ x.mount # None => \A m \in MountsAt(h, x.mount) : "ro" \notin m.opts
Filled(h, f) == [f EXCEPT !.count = The(NodesAt(h, f.device)).size \div f.block]
FsGrown(h, device) ==
  [h EXCEPT !.filesystems = {IF f.device = device THEN Filled(h, f) ELSE f
                             : f \in h.filesystems}]

Accepts(h, x, device) ==
  CASE x.op = "extend_partition" -> PartitionFits(h, x)
    [] x.op = "resize_pv" -> PvFits(h, x)
    [] x.op = "extend_lv" -> LvFitsGroup(h, x)
    [] x.op = "grow_fs" -> FsFits(h, x, device)

Effect(h, x, device) ==
  CASE x.op = "extend_partition" -> Partitioned(h, x)
    [] x.op = "resize_pv" -> PvResized(h, x)
    [] x.op = "extend_lv" -> LvExtended(h, The({l \in h.lvs : l.uuid = x.lv}), x.extents)
    [] x.op = "grow_fs" -> FsGrown(h, device)

-----------------------------------------------------------------------------
(* Other administrators *)

\* A partition of one sector behind a partition that could grow there: on
\* every disk, the first or the last such one.
Neighbour(h, last) ==
  LET Pick(starts) == IF last THEN Max(starts) ELSE Min(starts)
      Behind(t) ==
        {p \in t.parts : /\ AdjacentProvable(The(NodesAt(h, t.device)), t, p)
                         /\ AdjacentFree(The(NodesAt(h, t.device)), t, p) > 0}
      Picked(t) == CHOOSE p \in Behind(t) : p.start = Pick({q.start : q \in Behind(t)})
      new == {<<t, Picked(t)>> : t \in {u \in h.tables : Behind(u) # {}}}
  IN
  [h EXCEPT
     !.tables = {[t EXCEPT !.parts = @ \cup
                    {[node |-> "other", start |-> EndOf(x[2]), size |-> 1, type |-> "linux",
                      uuid |-> "other"] : x \in {y \in new : y[1] = t}}] : t \in h.tables},
     !.nodes = @ \cup {[path |-> "other", kind |-> "partition", parent |-> x[1].device,
                        size |-> x[1].sector, start |-> EndOf(x[2]) * x[1].sector,
                        sector |-> x[1].sector, fs |-> None, uuid |-> None,
                        partuuid |-> "other", mounts |-> {}, label |-> None] : x \in new}]

\* Another volume of the group takes an extent, or this one does.
Competitor(h) ==
  [h EXCEPT !.pvs = {IF v.free > 0 /\ GroupsOf(h, v) # {}
                     THEN [v EXCEPT !.free = @ - The(GroupsOf(h, v)).extent] ELSE v
                     : v \in h.pvs},
            !.vgs = {IF g.extents > 0 THEN [g EXCEPT !.free = @ - g.extent, !.extents = @ - 1]
                     ELSE g : g \in h.vgs}]
GrownElsewhere(h) ==
  LET ls == {l \in h.lvs : \E g \in GroupOf(h, l) : g.extents > 0} IN
  IF ls = {} THEN h ELSE LvExtended(h, CHOOSE l \in ls : TRUE, 1)

Remounted(h) == [h EXCEPT !.mounts = {[m EXCEPT !.opts = {"ro"}] : m \in h.mounts}]

\* A new filesystem of the same type where one was that is not mounted.
Reformatted(h) ==
  LET old == {n \in h.nodes : n.fs \in GrowableFs /\ n.mounts = {}}
      at == {n.path : n \in old} IN
  [h EXCEPT !.nodes = (@ \ old) \cup {[n EXCEPT !.uuid = "other"] : n \in old},
            !.filesystems = {IF f.device \in at THEN Filled(h, f) ELSE f
                             : f \in h.filesystems}]

ToolsRemoved(h) == [h EXCEPT !.tools = @ \ {"lvextend", "mkfs.ext4", "swapoff"}]

\* A filesystem where there was nothing, on a whole disk or on a partition,
\* mounted or not.
Claimed(h, mounts) ==
  LET bare == {n \in h.nodes : /\ n.kind \in {"disk", "partition"} /\ ChildrenOf(h, n) = {}
                               /\ n.fs = None /\ n.label = None
                               /\ \A t \in h.tables : \A x \in ExtendedOf(t) : x.node # n.path} IN
  [h EXCEPT
     !.nodes = (@ \ bare) \cup {[n EXCEPT !.fs = "xfs", !.uuid = "other", !.mounts = mounts]
                                : n \in bare},
     !.filesystems = @ \cup {[device |-> n.path, fs |-> "xfs", block |-> 1, count |-> n.size,
                              clean |-> TRUE, features |-> TRUE, grows |-> TRUE] : n \in bare},
     !.mounts = @ \cup {[source |-> x[1].path, target |-> x[2], fs |-> "xfs", opts |-> {"rw"}]
                        : x \in bare \X mounts}]
Faltering(h) == [h EXCEPT !.broken = {"lsblk"}]
Recovered(h) == [h EXCEPT !.broken = {}]

Meddle ==
  /\ meddled < MaxInterference
  /\ meddled' = meddled + 1
  /\ host' \in {Neighbour(host, FALSE), Neighbour(host, TRUE), Competitor(host),
                GrownElsewhere(host), Remounted(host), Reformatted(host),
                ToolsRemoved(host), Faltering(host), Recovered(host),
                Claimed(host, {}), Claimed(host, {"/srv"})}
               \ {host}
  /\ was' = host
=============================================================================
