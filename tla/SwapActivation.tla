--------------------------- MODULE SwapActivation ---------------------------
(***************************************************************************)
(* What the executor compares before, between and after the steps of a     *)
(* swap migration, and what the swap tools, sfdisk and partx do to a        *)
(* machine.                                                                *)
(***************************************************************************)
EXTENDS SwapPlanner

CONSTANT PageBytes      \* the header that mkswap writes

\* exact_profile
SwapProfile(x) ==
  /\ x.disk # x.swap /\ x.bytes > 0 /\ x.used <= x.bytes
  /\ x.line.opts # {} /\ x.line.dump <= 1 /\ x.line.pass <= 2

\* Faulty form: the area has to fill the partition, header and all.
StillMigratableFilled(s, aside, x) ==
  /\ ~aside.resume
  /\ AreaWithin(s, x.swap, x.bytes)
  /\ \A a \in AreasNamed(s, x.swap) :
       a.kind = "partition" /\ a.priority = x.priority /\ a.size = x.bytes
  /\ {e \in SwapLines(s, x.line.source) : e.target = x.line.target} = {x.line}
  /\ HoldsSwapfile(s, x.mount, x.swap)
  /\ RoomAt(aside, x.mount) >= x.bytes
  /\ x.file \notin aside.files

\* validate_runtime_evidence: the same fstab line by source and target, the
\* same priority; how much swap is in use is not asked again.
StillMigratable(s, aside, x) ==
  /\ ~aside.resume
  /\ AreaWithin(s, x.swap, x.bytes)
  /\ \A a \in AreasNamed(s, x.swap) : a.kind = "partition" /\ a.priority = x.priority
  /\ {e \in SwapLines(s, x.line.source) : e.target = x.line.target} = {x.line}
  /\ HoldsSwapfile(s, x.mount, x.swap)
  /\ RoomAt(aside, x.mount) >= x.bytes
  /\ x.file \notin aside.files

\* Both areas carry the old priority and report the same size.
BothSwaps(h, x) ==
  /\ Unique(AreasNamed(h, x.swap)) /\ Unique(AreasNamed(h, x.file))
  /\ LET old == The(AreasNamed(h, x.swap))
         new == The(AreasNamed(h, x.file)) IN
     old.priority = x.priority /\ new.priority = x.priority /\ new.size = old.size

\* Faulty form: that the partition is no longer swap is taken for enough.
OldSwapGone(h, x, size) == AreasNamed(h, x.swap) = {}

\* The partition is out of use and the file in use, as it was reported.
SwapStands(h, x, size) ==
  /\ AreasNamed(h, x.swap) = {}
  /\ Unique(AreasNamed(h, x.file))
  /\ \A a \in AreasNamed(h, x.file) : a.priority = x.priority /\ a.size = size

\* rewrite_exact_swap_entry: the frozen line and no other one for it.
NewLine(x) == [x.line EXCEPT !.source = x.file]
Rewritable(h, x) == SwapLines(h, x.line.source) = {x.line}
FstabRewritten(h, x) == [h EXCEPT !.fstab = (@ \ {x.line}) \cup {NewLine(x)}]

\* exact_removal_geometry.  The numbers of the partitions are not modelled:
\* one inside a container is a logical one, numbered from 5.
RemovalTables(s, x) ==
  {t \in TablesOf(s, x.disk) : t.label = "dos" /\ t.sector \in PlainSectors}
Removable(s, x) ==
  /\ Unique(TablesOf(s, x.disk)) /\ RemovalTables(s, x) # {}
  /\ LET t == The(TablesOf(s, x.disk)) IN
     /\ Unique(RecordsOf(t, x.swap))
     /\ \A w \in RecordsOf(t, x.swap) :
          LET around == {c \in ExtendedOf(t) : InsideOf(w, c)} IN
          /\ w.type = "swap" /\ w.size * t.sector = x.bytes
          /\ Unique(around)
          /\ \A c \in around : LogicalsIn(t, c) = {w}
Removal(s, x) ==
  LET t == The(TablesOf(s, x.disk))
      w == The(RecordsOf(t, x.swap)) IN
  [disk |-> x.disk, sector |-> t.sector, swap |-> w,
   extended |-> The({c \in ExtendedOf(t) : InsideOf(w, c)})]

\* verify_post_state: gone from the table and from the kernel.
RemovedIn(s, g) ==
  /\ Unique(TablesOf(s, g.disk))
  /\ \A t \in TablesOf(s, g.disk) :
       /\ t.label = "dos" /\ t.sector = g.sector
       /\ RecordsOf(t, g.swap.node) = {} /\ RecordsOf(t, g.extended.node) = {}
  /\ NodesAt(s, g.swap.node) = {} /\ NodesAt(s, g.extended.node) = {}

-----------------------------------------------------------------------------
(* The tools *)

Roomy(h, x) == x.file \notin h.files /\ RoomAt(h, x.mount) >= x.bytes
SwapfileMade(h, x) ==
  [h EXCEPT !.files = @ \cup {x.file},
            !.room = {IF r.mount = x.mount THEN [r EXCEPT !.bytes = @ - x.bytes] ELSE r : r \in @}]

\* swapon takes a priority from 0 up; the kernel hands out negative ones.
Swappable(h, x) == x.file \in h.files /\ x.priority >= 0
SwapAdded(h, x) ==
  [h EXCEPT !.swaps = @ \cup {[name |-> x.file, kind |-> "file", size |-> x.bytes - PageBytes,
                               used |-> 0, priority |-> x.priority]}]
SwapDropped(h, name) ==
  [h EXCEPT !.swaps = @ \ AreasNamed(h, name),
            !.nodes = {IF n.path = name THEN [n EXCEPT !.mounts = {}] ELSE n : n \in @}]

\* sfdisk --delete of a container takes all that is in it; partx forgets the
\* two partitions it is given, unless one is in use.
Deletable(h, g) ==
  \E t \in TablesOf(h, g.disk) : RecordsOf(t, g.swap.node) # {} /\ RecordsOf(t, g.extended.node) # {}
PartitionsDeleted(h, g) ==
  [h EXCEPT !.tables = {IF t.device = g.disk
                        THEN [t EXCEPT !.parts = {q \in @ : ~InsideOf(q, g.extended)}] ELSE t
                        : t \in @}]
Forgettable(h, g) == AreasNamed(h, g.swap.node) = {}
Forgotten(h, g) ==
  [h EXCEPT !.nodes = {n \in @ : n.path \notin {g.swap.node, g.extended.node}}]
=============================================================================
