----------------------------- MODULE SwapPlanner -----------------------------
(***************************************************************************)
(* The migration of a tail swap partition into a swapfile, up to the frozen *)
(* intent (planner/src/swap_migration.rs): whether the layout and the       *)
(* machine allow it, whether the destination can take the file, and what   *)
(* the intent freezes.                                                     *)
(*                                                                         *)
(* An active swap area is [name, kind, size, used, priority], a line of     *)
(* fstab [source, target, fs, opts, dump, pass].                            *)
(***************************************************************************)
EXTENDS ExtendPlanner

CONSTANT SwapfileAt(_)     \* swapfile_path_for_mount

AreasNamed(s, name) == {a \in s.swaps : a.name = name}
SwapLines(s, source) == {e \in s.fstab : e.fs = "swap" /\ e.source = source}

\* analyze_swap_migration_safety: the proven layout, no hibernation set up,
\* and one line of fstab for the swap partition.
MigrationSafe(s, aside, o) ==
  /\ o.found /\ ~aside.resume
  /\ Unique(NodesAt(s, o.swap)) /\ Unique(SwapLines(s, o.swap))

RoomAt(aside, target) ==
  LET rooms == {r \in aside.room : r.mount = target} IN
  IF rooms = {} THEN 0 ELSE The(rooms).bytes

\* One ext4 mount, writable, that is not the swap partition itself.
HoldsSwapfile(s, target, swap) ==
  /\ Unique(MountsAt(s, target))
  /\ \A m \in MountsAt(s, target) :
       m.fs = "ext4" /\ "rw" \in m.opts /\ "ro" \notin m.opts /\ m.source # swap

SwapTools == {"mkswap", "swapon", "swapoff"}

\* analyze_swapfile_destination
DestinationReady(s, aside, o, target) ==
  /\ HoldsSwapfile(s, target, o.swap)
  /\ RoomAt(aside, target) >= o.swapbytes
  /\ SwapTools \subseteq s.tools

\* The one active area on the partition, which may be smaller than it.
AreaWithin(s, swap, bytes) ==
  /\ Unique(AreasNamed(s, swap))
  /\ \A a \in AreasNamed(s, swap) : a.size > 0 /\ a.size <= bytes

\* build_swap_replacement_intent
Migratable(s, aside, order) ==
  LET o == LayoutOpportunity(s, order.target) IN
  /\ MigrationSafe(s, aside, o)
  /\ DestinationReady(s, aside, o, order.destination)
  /\ SwapfileAt(order.destination) \notin aside.files
  /\ AreaWithin(s, o.swap, o.swapbytes)

SwapIntent(s, order) ==
  LET o == LayoutOpportunity(s, order.target)
      a == The(AreasNamed(s, o.swap)) IN
  [target |-> order.target, disk |-> o.disk, swap |-> o.swap, bytes |-> o.swapbytes,
   used |-> a.used, priority |-> a.priority, line |-> The(SwapLines(s, o.swap)),
   mount |-> order.destination, file |-> SwapfileAt(order.destination)]
=============================================================================
