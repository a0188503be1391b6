-------------------------- MODULE MCStorageSession --------------------------
(***************************************************************************)
(* Small machines for StorageSession.  One disk of 40 bytes in sectors of 1   *)
(* or 2; a physical extent is 2 bytes, and one byte of a physical volume   *)
(* goes to its header.                                                     *)
(***************************************************************************)
EXTENDS StorageSession

Node(path, kind, parent, size, start, fs, mounts) ==
  [path |-> path, kind |-> kind, parent |-> parent, size |-> size, start |-> start,
   sector |-> 1, fs |-> fs, uuid |-> path, partuuid |-> IF kind = "partition" THEN path ELSE None,
   mounts |-> mounts, label |-> None]
Part(node, start, size, type) ==
  [node |-> node, start |-> start, size |-> size, type |-> type, uuid |-> node]
Table(label, parts) ==
  [device |-> "sda", label |-> label, first |-> 2, last |-> 37, sector |-> 1, parts |-> parts]
Disk(label) == [Node("sda", "disk", None, 40, None, None, {}) EXCEPT !.label = label]
NodesFor(parts) == {Node(p.node, "partition", "sda", p.size, p.start, None, {}) : p \in parts}
Mounted(source, fs) ==
  [source |-> source, target |-> "/data", fs |-> fs, opts |-> {"rw"}]
Fs(device, fs, size) ==
  [device |-> device, fs |-> fs, block |-> 1, count |-> size, clean |-> TRUE,
   features |-> TRUE, grows |-> TRUE]
Machine(nodes, tables, mounts, filesystems) ==
  [nodes |-> nodes, tables |-> tables, mounts |-> mounts, swaps |-> {}, fstab |-> {},
   pvs |-> {}, vgs |-> {}, lvs |-> {}, filesystems |-> filesystems, broken |-> {},
   tools |-> Tools, resume |-> FALSE, room |-> {}, files |-> {}]

(* One volume of a group on `device`, whose physical volume has `size`      *)
(* bytes and leaves `slack` of them and `free` extents unused.              *)
OnLvm(h, device, size, slack, free, fs, mounted) ==
  LET pv == ((size - slack - 1) \div 2) * 2
      lv == pv - free * 2 IN
  [h EXCEPT
     !.nodes = {IF n.path = device THEN [n EXCEPT !.fs = "LVM2_member"] ELSE n : n \in @}
               \cup {[Node("root", "lvm", device, lv, None, fs,
                           IF mounted THEN {"/data"} ELSE {}) EXCEPT !.sector = 1]},
     !.mounts = IF mounted THEN {Mounted("root", fs)} ELSE {},
     !.filesystems = {Fs("root", fs, lv)},
     !.pvs = {[name |-> device, uuid |-> device, vg |-> "vg", size |-> pv, free |-> free * 2,
               pe |-> 1]},
     !.vgs = {[name |-> "vg", uuid |-> "vg", size |-> pv, free |-> free * 2, extent |-> 2,
               extents |-> free, pvcount |-> 1, missing |-> 0, writable |-> TRUE]},
     !.lvs = {[path |-> "root", name |-> "root", uuid |-> "root", vg |-> "vg", size |-> lv,
               linear |-> TRUE, state |-> IF mounted THEN "open" ELSE "active"]}]

Partitioned1(label, parts) ==
  Machine({Disk(label)} \cup NodesFor(parts), {Table(label, parts)}, {}, {})
LvmOnPartition(label, others, size, free, fs, mounted) ==
  OnLvm(Partitioned1(label, {Part("sda1", 4, size, "lvm")} \cup others),
        "sda1", size, 2, free, fs, mounted)

(* A filesystem straight on sda1, 4 bytes short of what lies behind it.      *)
OnPartition(label, others, fs) ==
  LET h == Partitioned1(label, {Part("sda1", 4, 10, "linux")} \cup others) IN
  [h EXCEPT !.nodes = {IF n.path = "sda1" THEN [n EXCEPT !.fs = fs, !.mounts = {"/data"}] ELSE n
                       : n \in @},
            !.mounts = {Mounted("sda1", fs)}, !.filesystems = {Fs("sda1", fs, 10)}]

(* A DOS disk: root on sda1, and a swap partition alone in its container.    *)
Line(source, target, fs) ==
  [source |-> source, target |-> target, fs |-> fs, opts |-> {"sw"}, dump |-> 0, pass |-> 0]
SwapOn(fs) ==
  LET h == OnPartition("dos", {Part("sda2", 16, 8, "extended"), Part("sda5", 16, 6, "swap")}, fs) IN
  [h EXCEPT !.nodes = {IF n.path = "sda5" THEN [n EXCEPT !.fs = "swap", !.mounts = {"[SWAP]"}]
                       ELSE n : n \in @},
            !.swaps = {[name |-> "sda5", kind |-> "partition", size |-> 5, used |-> 1,
                        priority |-> 3]},
            !.room = {[mount |-> "/data", bytes |-> 8]},
            !.fstab = {Line("sda5", "none", "swap")}]
TailSwap == SwapOn("ext4")
WithArea(h, size, priority) ==
  [h EXCEPT !.swaps = {[a EXCEPT !.size = size, !.priority = priority] : a \in @}]

(* The same bytes in sectors of 2.                                           *)
Coarse(h) ==
  [h EXCEPT !.nodes = {[n EXCEPT !.sector = 2] : n \in @},
            !.tables = {[t EXCEPT !.sector = 2, !.last = 18,
                           !.parts = {[p EXCEPT !.start = @ \div 2, !.size = @ \div 2] : p \in @}]
                        : t \in @}]

(* A filesystem on the whole disk that does not fill it.                     *)
WholeDisk ==
  Machine({[Disk(None) EXCEPT !.fs = "xfs", !.mounts = {"/data"}]}, {}, {Mounted("sda", "xfs")},
          {Fs("sda", "xfs", 36)})

Container == {Part("sda2", 30, 8, "extended"), Part("sda5", 31, 6, "linux")}
Neighbours == {Part("sda2", 25, 5, "linux")}
MCHosts ==
  {LvmOnPartition("gpt", {}, 20, 3, "ext4", TRUE), LvmOnPartition("gpt", {}, 20, 0, "xfs", TRUE),
   LvmOnPartition("gpt", Neighbours, 20, 2, "xfs", TRUE),
   LvmOnPartition("dos", Container, 22, 1, "ext4", TRUE),
   LvmOnPartition("gpt", {}, 20, 2, "ext4", FALSE),
   Coarse(LvmOnPartition("gpt", {}, 20, 1, "ext4", TRUE)),
   OnLvm(Machine({Disk(None)}, {}, {}, {}), "sda", 40, 6, 1, "xfs", TRUE),
   [LvmOnPartition("gpt", {}, 20, 1, "ext4", TRUE) EXCEPT !.tools = @ \ {"pvresize"}],
   [LvmOnPartition("gpt", {}, 20, 2, "ext4", FALSE) EXCEPT !.tools = @ \ {"tune2fs"}],
   [LvmOnPartition("gpt", {}, 20, 2, "ext4", TRUE) EXCEPT !.broken = {"mounts"}],
   Coarse(OnPartition("gpt", {}, "ext4")), OnPartition("dos", Container, "xfs"),
   TailSwap, Coarse(TailSwap), WholeDisk}

(* Machines that keep what they have: what only a later gate asks for, and   *)
(* what the analysis does not ask for and the planner does.                  *)
OneVolume(fs) == LvmOnPartition("gpt", {}, 20, 1, fs, TRUE)
NothingFree == LvmOnPartition("gpt", {}, 20, 0, "ext4", TRUE)
Anonymous(h) == [h EXCEPT !.nodes = {IF n.fs \in {"ext4", "xfs"} THEN [n EXCEPT !.uuid = None] ELSE n
                                     : n \in @}]
MountedTwice(h) ==
  [h EXCEPT !.nodes = {IF n.mounts # {} THEN [n EXCEPT !.mounts = @ \cup {"/srv"}] ELSE n : n \in @},
            !.mounts = @ \cup {[m EXCEPT !.target = "/srv"] : m \in @}]
Superblock(h, field) == [h EXCEPT !.filesystems = {[f EXCEPT ![field] = FALSE] : f \in @}]
Volume(h, field) == [h EXCEPT !.lvs = {[l EXCEPT ![field] = FALSE] : l \in @}]
ReadOnlyGroup(h) == [h EXCEPT !.vgs = {[g EXCEPT !.writable = FALSE] : g \in @}]
Boot(h) == [h EXCEPT !.tables = {[t EXCEPT !.parts = {[p EXCEPT !.type = "esp"] : p \in @}] : t \in @}]
(* A neighbour one byte behind the physical volume, which fills its device.  *)
NoExtentBelow ==
  OnLvm(Partitioned1("gpt", {Part("sda1", 4, 21, "lvm"), Part("sda2", 26, 5, "linux")}),
        "sda1", 21, 0, 0, "ext4", TRUE)
(* The group has a second physical volume, all of it free.                   *)
TwoPvs ==
  LET h == LvmOnPartition("gpt", {Part("sda2", 30, 5, "lvm")}, 20, 1, "ext4", TRUE) IN
  [h EXCEPT
     !.nodes = {IF n.path = "sda2" THEN [n EXCEPT !.fs = "LVM2_member"] ELSE n : n \in @},
     !.pvs = @ \cup {[name |-> "sda2", uuid |-> "sda2", vg |-> "vg", size |-> 4, free |-> 4,
                      pe |-> 1]},
     !.vgs = {[g EXCEPT !.size = @ + 4, !.free = @ + 4, !.extents = @ + 2, !.pvcount = 2]
              : g \in @}]
KeptHosts ==
  {[OneVolume("ext4") EXCEPT !.tools = @ \ {tool}]
   : tool \in {"tune2fs", "vgcfgbackup", "lvextend", "resize2fs", "sfdisk"}}
  \cup {Superblock(OneVolume("ext4"), "clean"), Superblock(OneVolume("ext4"), "features"),
        Superblock(OneVolume("xfs"), "grows"), Anonymous(OneVolume("ext4")),
        MountedTwice(OneVolume("ext4")), Volume(OneVolume("ext4"), "linear"),
        ReadOnlyGroup(OneVolume("ext4")), Boot(OnPartition("gpt", {}, "ext4")),
        [NothingFree EXCEPT !.broken = {"fstab"}],
        [NothingFree EXCEPT !.broken = {"lsblk"}], NoExtentBelow,
        LvmOnPartition("gpt", {}, 20, 0, "ext4", FALSE), TwoPvs,
        [LvmOnPartition("gpt", {}, 20, 2, "ext4", FALSE) EXCEPT !.tools = @ \ {"e2fsck"}],
        [OnPartition("gpt", {}, "ext4") EXCEPT !.tools = @ \ {"sfdisk"}],
        Superblock(OnPartition("gpt", {}, "ext4"), "features")}

(* Disks to create something on: nothing at all, a tail that starts on the   *)
(* alignment of 4 bytes or does not, gaps, records that overlap.             *)
Blank == Machine({Disk(None)}, {}, {}, {})
BlankCoarse == Coarse(Blank)
Linux(node, start, size) == Part(node, start, size, "linux")
OneTail(parts) == Partitioned1("gpt", parts)
Sector4(h) ==
  [h EXCEPT !.nodes = {[n EXCEPT !.sector = 4] : n \in @},
            !.tables = {[t EXCEPT !.sector = 4, !.first = 1, !.last = 8,
                           !.parts = {[p EXCEPT !.start = @ \div 4, !.size = @ \div 4] : p \in @}]
                        : t \in @}]
InFstab(h) == [h EXCEPT !.fstab = {Line("sda", "/old", "ext4")}]
Without(h, tools) == [h EXCEPT !.tools = @ \ tools]
CreateHosts ==
  {Blank, BlankCoarse, Sector4(Blank), InFstab(Blank), Without(Blank, {"partx"}),
   Without(Blank, {"mkfs.xfs"}), [Blank EXCEPT !.broken = {"partition_tables"}],
   OneTail({Linux("sda1", 4, 8)}), OneTail({Linux("sda1", 4, 7)}),
   Coarse(OneTail({Linux("sda1", 4, 8), Linux("sda2", 20, 4)})),
   Sector4(OneTail({Linux("sda1", 4, 8)})),
   OneTail({Linux("sda1", 4, 8), Linux("sda2", 10, 6)}),
   InFstab(OneTail({Linux("sda1", 4, 8)})),
   [OneTail({Linux("sda1", 4, 8)}) EXCEPT !.broken = {"swap"}],
   [OneTail({Linux("sda1", 4, 8)}) EXCEPT !.tables = {[t EXCEPT !.label = "other"] : t \in @}],
   Partitioned1("gpt", {}), Partitioned1("dos", {}),
   Partitioned1("dos", Container \cup {Linux("sda1", 4, 8)}),
   OnLvm(Blank, "sda", 40, 6, 3, "xfs", TRUE)}

(* Swap to migrate: what the planner or a later gate turns down, and what    *)
(* only shows when the swapfile is in use.                                  *)
SwapHosts ==
  {SwapOn("xfs"), WithArea(TailSwap, 4, 3), WithArea(TailSwap, 5, -2),
   [TailSwap EXCEPT !.room = {[mount |-> "/data", bytes |-> 5]}],
   [TailSwap EXCEPT !.fstab = {Line("sda5", "none", "swap"), Line("sda5", "swap", "swap")}],
   [TailSwap EXCEPT !.fstab = {[Line("sda5", "none", "swap") EXCEPT !.dump = 2]}],
   [TailSwap EXCEPT !.resume = TRUE], [TailSwap EXCEPT !.files = {"/data.swap"}],
   [TailSwap EXCEPT !.swaps = {}], Without(TailSwap, {"partx"}), Without(TailSwap, {"swapoff"}),
   Without(TailSwap, {"tune2fs"})}
MCMigrations == {[target |-> "/data", destination |-> d] : d \in {"/data", "/srv"}}
MCSwapfileAt(target) == target \o ".swap"

MCOrders ==
  {[label |-> label, max |-> max, bytes |-> 3, purpose |-> "filesystem", fs |-> fs, mount |-> None]
   : label \in {None, "gpt", "dos"}, max \in BOOLEAN, fs \in {"ext4", "xfs"}}
  \cup {[label |-> None, max |-> FALSE, bytes |-> 3, purpose |-> "filesystem", fs |-> "ext4",
         mount |-> mount] : mount \in {"/old", "/srv"}}
  \cup {[label |-> None, max |-> TRUE, bytes |-> 0, purpose |-> "swap", fs |-> None, mount |-> None]}

MCFirstPartition(disk) == "sda1"
MCAllHosts ==
  MCHosts \cup KeptHosts \cup CreateHosts \cup SwapHosts
  \cup {Sector4(LvmOnPartition("gpt", {}, 20, 1, "ext4", TRUE))}
MCRequests ==
  {[target |-> "/data", max |-> TRUE, bytes |-> 0],
   [target |-> "/data", max |-> FALSE, bytes |-> 3],
   [target |-> "/data", max |-> FALSE, bytes |-> 9],
   [target |-> "root", max |-> FALSE, bytes |-> 3]}
MCDevices == {"sda", "sda1", "root"}
MCUnits == {1, 2, 4}
=============================================================================
