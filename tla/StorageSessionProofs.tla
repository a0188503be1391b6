------------------------ MODULE StorageSessionProofs ------------------------
(***************************************************************************)
(* The session with a host, from any machines that are described as        *)
(* IsMachine says, with any number of changes by the others: every layer a *)
(* growth has changed can be put back (BackupRestores).                    *)
(*                                                                         *)
(* A layer can be put back when the artifacts of the backup name the       *)
(* record it had.  The artifacts are taken of the live machine, later than *)
(* the snapshot the plan was made of, and the others change the machine    *)
(* before, between and behind the two.  What settles it is the last        *)
(* comparison: Seal reads the machine once more and accepts it only with   *)
(* the manifest that was handed off, and that the operands of the steps    *)
(* were frozen from.  The argument rests on what the others never do while *)
(* a growth is compared: they take free space of a volume and never give   *)
(* it back, they grow a volume and never shrink it, they add partitions    *)
(* and delete none, and they leave the groups.  A record that was gone     *)
(* when the artifact was taken is then gone for good, and Seal refuses.    *)
(*                                                                         *)
(* SessionInv relates the four: the plan to the snapshot it was made of    *)
(* (PlanInv: every operand is from a record of the snapshot that a backup  *)
(* step covers), the snapshot to what the machine has become (Became), the *)
(* artifacts to both (BackupInv: a record is captured, or lost for good),  *)
(* and behind Seal every mutation to an artifact (RestoreInv).             *)
(***************************************************************************)
EXTENDS StorageSession, FiniteSetTheorems, FunctionTheorems, SequenceTheorems,
        WellFoundedInduction, TLAPS

-----------------------------------------------------------------------------
(* Induction                                                               *)

(* The order of the natural numbers is well-founded.                       *)
LEMMA NaturalOrder ==
  \E R : IsWellFoundedOn(R, Nat) /\ \A m, n \in Nat : <<m, n>> \in R <=> m < n
<1>1. IsWellFoundedOn(OpToRel(<, Nat), Nat)
  BY NatLessThanWellFounded
<1>2. \A m, n \in Nat : <<m, n>> \in OpToRel(<, Nat) <=> m < n
  BY DEF OpToRel
<1>3. QED
  BY <1>1, <1>2, Zenon

(* Every set of natural numbers has a smallest element.                    *)
LEMMA LeastNatural ==
  ASSUME NEW T, T \subseteq Nat, T # {}
  PROVE  \E n \in T : \A m \in T : n <= m
<1>1. ASSUME NEW R, IsWellFoundedOn(R, Nat), \A m, n \in Nat : <<m, n>> \in R <=> m < n
      PROVE  \E n \in T : \A m \in T : n <= m
  <2>1. IsWellFoundedOn(R, Nat)
    BY <1>1
  <2>2. PICK n \in T : \A m \in T : ~ (<<m, n>> \in R)
    BY <2>1, WFMin, Zenon
  <2>3. \A m \in T : ~ (m < n)
    BY <1>1, <2>2
  <2>4. QED
    BY <2>3
<1>2. QED
  BY <1>1, NaturalOrder

(* Induction over the natural numbers, for sets.                           *)
LEMMA NaturalInduction ==
  ASSUME NEW T, 0 \in T, \A n \in Nat : n \in T => n + 1 \in T
  PROVE  Nat \subseteq T
<1>1. SUFFICES ASSUME Nat \ T # {} PROVE FALSE
  OBVIOUS
<1>2. PICK n \in Nat \ T : \A m \in Nat \ T : n <= m
  <2> DEFINE U == Nat \ T
  <2>1. U \subseteq Nat /\ U # {}
    BY <1>1
  <2> HIDE DEF U
  <2>2. \E n \in U : \A m \in U : n <= m
    BY <2>1, LeastNatural
  <2>3. QED
    BY <2>2 DEF U
<1>3. n - 1 \in Nat
  BY <1>2
<1>4. n - 1 \in T
  BY <1>2, <1>3
<1>5. QED
  BY <1>2, <1>3, <1>4

(* A function from a value for 0 and a step.                               *)
Goes(g, n, a, step) ==
  g[0] = a /\ \A k \in 0..(n - 1) : g[k + 1] = step[<<k, g[k]>>]

(* A function of all natural numbers that is made so.                      *)
Iterates(f, S, a, step) ==
  /\ f \in [Nat -> S] /\ f[0] = a
  /\ \A k \in Nat : f[k + 1] = step[<<k, f[k]>>]

(* A value for 0 and a step define a function of the natural numbers.      *)
LEMMA RecursiveFunction ==
  ASSUME NEW S, NEW a, NEW step, a \in S, step \in [Nat \X S -> S]
  PROVE  \E f : Iterates(f, S, a, step)
<1> DEFINE Upto(n) == {g \in [0..n -> S] : Goes(g, n, a, step)}
           T == {n \in Nat : Upto(n) # {}}
<1>1. 0 \in T
  <2>1. [k \in 0..0 |-> a] \in Upto(0)
    BY DEF Goes
  <2>2. QED
    BY <2>1
<1>2. ASSUME NEW n \in Nat, n \in T PROVE n + 1 \in T
  <2>1. PICK g \in [0..n -> S] : Goes(g, n, a, step)
    BY <1>2
  <2> DEFINE h == [k \in 0..(n + 1) |-> IF k = n + 1 THEN step[<<n, g[n]>>] ELSE g[k]]
  <2>2. <<n, g[n]>> \in Nat \X S
    OBVIOUS
  <2>3. h \in [0..(n + 1) -> S]
    BY <2>2
  <2>4. h[0] = a
    BY <2>1 DEF Goes
  <2>5. ASSUME NEW k \in 0..n PROVE h[k + 1] = step[<<k, h[k]>>]
    <3>1. h[k] = g[k]
      OBVIOUS
    <3>2. CASE k = n
      <4>1. h[n + 1] = step[<<n, g[n]>>]
        OBVIOUS
      <4>2. QED
        BY <3>1, <3>2, <4>1
    <3>3. CASE k # n
      <4>1. k \in 0..(n - 1) /\ k + 1 \in 0..n /\ k + 1 # n + 1
        BY <3>3
      <4>2. h[k + 1] = g[k + 1]
        BY <4>1
      <4>3. QED
        BY <2>1, <3>1, <4>1, <4>2 DEF Goes
    <3>4. QED
      BY <3>2, <3>3
  <2>6. h \in Upto(n + 1)
    <3>1. 0..((n + 1) - 1) = 0..n
      OBVIOUS
    <3>2. QED
      BY <2>3, <2>4, <2>5, <3>1 DEF Goes
  <2>7. QED
    BY <2>6
<1>3. Nat \subseteq T
  <2> HIDE DEF T
  <2>1. QED
    BY <1>1, <1>2, NaturalInduction
<1>4. ASSUME NEW m \in Nat, NEW n \in Nat, NEW g, NEW h,
             Goes(g, m, a, step), Goes(h, n, a, step)
      PROVE  \A k \in Nat : k <= m /\ k <= n => g[k] = h[k]
  <2> DEFINE U == {k \in Nat : k <= m /\ k <= n => g[k] = h[k]}
  <2>1. 0 \in U
    BY <1>4 DEF Goes
  <2>2. ASSUME NEW k \in Nat, k \in U PROVE k + 1 \in U
    <3>1. SUFFICES ASSUME k + 1 <= m, k + 1 <= n PROVE g[k + 1] = h[k + 1]
      OBVIOUS
    <3>2. k \in 0..(m - 1) /\ k \in 0..(n - 1)
      BY <3>1
    <3>3. g[k] = h[k]
      BY <2>2, <3>2
    <3>4. QED
      BY <1>4, <3>2, <3>3 DEF Goes
  <2>3. Nat \subseteq U
    <3> HIDE DEF U
    <3>1. QED
      BY <2>1, <2>2, NaturalInduction
  <2>4. QED
    BY <2>3
<1> DEFINE G(n) == CHOOSE g : g \in Upto(n)
           f == [n \in Nat |-> G(n)[n]]
<1>5. ASSUME NEW n \in Nat PROVE G(n) \in [0..n -> S] /\ Goes(G(n), n, a, step)
  <2>1. G(n) \in Upto(n)
    BY <1>3
  <2>2. QED
    BY <2>1
<1>6. f \in [Nat -> S] /\ f[0] = a
  <2> HIDE DEF G
  <2>1. \A n \in Nat : G(n)[n] \in S
    BY <1>5
  <2>2. G(0)[0] = a
    BY <1>5 DEF Goes
  <2>3. QED
    BY <2>1, <2>2
<1>7. ASSUME NEW k \in Nat PROVE f[k + 1] = step[<<k, f[k]>>]
  <2> HIDE DEF G
  <2>1. G(k + 1)[k + 1] = step[<<k, G(k + 1)[k]>>]
    <3>1. k \in 0..((k + 1) - 1)
      OBVIOUS
    <3>2. QED
      BY <1>5, <3>1 DEF Goes
  <2>2. G(k + 1)[k] = G(k)[k]
    BY <1>4, <1>5
  <2>3. QED
    BY <2>1, <2>2
<1>8. QED
  <2> HIDE DEF f
  <2>1. Iterates(f, S, a, step)
    BY <1>6, <1>7 DEF Iterates
  <2>2. QED
    BY <2>1

(* What a function makes of a finite set is finite.                        *)
LEMMA FiniteImage ==
  ASSUME NEW S, IsFiniteSet(S), NEW f, f = [x \in S |-> f[x]]
  PROVE  IsFiniteSet({f[x] : x \in S})
<1> DEFINE T == {f[x] : x \in S}
<1>1. f \in [S -> T]
  OBVIOUS
<1>2. f \in Surjection(S, T)
  <2> HIDE DEF T
  <2>1. \A y \in T : \E x \in S : f[x] = y
    BY DEF T
  <2>2. QED
    BY <1>1, <2>1, Fun_IsSurj
<1>3. IsFiniteSet(T)
  <2> HIDE DEF T
  <2>1. QED
    BY <1>2, FS_Surjection
<1>4. QED
  BY <1>3

(* A sequence of anything.                                                 *)
IsSeq(q) == q \in Seq({q[i] : i \in DOMAIN q})

(* The nodes above a node, function by function (ChainOf), and the         *)
(* mutations up to a step (MutationsOf).                                   *)
Climbs(s, n, f) ==
  f = [k \in Nat |-> IF k = 0 THEN {n}
                     ELSE f[k - 1] \cup
                          {m \in s.nodes : \E x \in f[k - 1] : x.parent = m.path}]
Gathers(q, f) ==
  f = [i \in 0..Len(q) |-> IF i = 0 THEN <<>>
                           ELSE IF q[i].role = "mutation" THEN Append(f[i - 1], q[i])
                           ELSE f[i - 1]]

(* A node is in its own chain.                                             *)
LEMMA OwnChain ==
  ASSUME NEW s, IsFiniteSet(s.nodes), NEW n
  PROVE  n \in ChainOf(s, n)
<1> DEFINE S == SUBSET (s.nodes \cup {n})
           More(T) == T \cup {m \in s.nodes : \E x \in T : x.parent = m.path}
           step == [p \in Nat \X S |-> More(p[2])]
<1>1. step \in [Nat \X S -> S]
  OBVIOUS
<1>2. {n} \in S
  OBVIOUS
<1>3. PICK f : Iterates(f, S, {n}, step)
  <2> HIDE DEF S, step
  <2>1. QED
    BY <1>1, <1>2, RecursiveFunction
<1>4. \A k \in Nat : f[k + 1] = More(f[k])
  <2> TAKE k \in Nat
  <2> HIDE DEF More, S
  <2>1. <<k, f[k]>> \in Nat \X S
    BY <1>3 DEF Iterates
  <2>2. step[<<k, f[k]>>] = More(f[k])
    BY <2>1
  <2>3. QED
    BY <1>3, <2>2 DEF Iterates
<1>5. Climbs(s, n, f)
  <2> HIDE DEF More
  <2>1. \A k \in Nat : f[k] = IF k = 0 THEN {n} ELSE More(f[k - 1])
    <3> TAKE k \in Nat
    <3>1. CASE k = 0
      BY <1>3, <3>1 DEF Iterates
    <3>2. CASE k # 0
      <4>1. k - 1 \in Nat /\ (k - 1) + 1 = k
        BY <3>2
      <4>2. f[(k - 1) + 1] = More(f[k - 1])
        BY <1>4, <4>1
      <4>3. QED
        BY <3>2, <4>1, <4>2
    <3>3. QED
      BY <3>1, <3>2
  <2>2. f = [k \in Nat |-> f[k]]
    BY <1>3 DEF Iterates
  <2>3. f = [k \in Nat |-> IF k = 0 THEN {n} ELSE More(f[k - 1])]
    BY <2>1, <2>2
  <2>4. QED
    BY <2>3 DEF More, Climbs
<1> DEFINE c == CHOOSE g : Climbs(s, n, g)
<1>6. Climbs(s, n, c)
  BY <1>5
<1>7. ChainOf(s, n) = c[Cardinality(s.nodes)]
  BY DEF ChainOf, Climbs
<1> HIDE DEF c
<1>8. c[0] = {n} /\ \A k \in Nat : c[k] \subseteq c[k + 1]
  <2>1. c[0] = {n}
    BY <1>6 DEF Climbs
  <2>2. ASSUME NEW k \in Nat PROVE c[k] \subseteq c[k + 1]
    <3>1. k + 1 \in Nat /\ k + 1 # 0 /\ (k + 1) - 1 = k
      OBVIOUS
    <3>2. c[k + 1] = c[(k + 1) - 1] \cup
                     {m \in s.nodes : \E x \in c[(k + 1) - 1] : x.parent = m.path}
      BY <1>6, <3>1 DEF Climbs
    <3>3. QED
      BY <3>1, <3>2
  <2>3. QED
    BY <2>1, <2>2
<1> DEFINE T == {k \in Nat : n \in c[k]}
<1>9. Nat \subseteq T
  <2>1. 0 \in T /\ \A k \in Nat : k \in T => k + 1 \in T
    BY <1>8
  <2> HIDE DEF T
  <2>2. QED
    BY <2>1, NaturalInduction
<1>10. QED
  BY <1>7, <1>9, FS_CardinalityType

(* A mutation is a step of the intent.                                     *)
LEMMA MutationsAreSteps ==
  ASSUME NEW q, NEW X, q \in Seq(X)
  PROVE  MutationsOf(q) \in Seq(X)
<1> DEFINE N == Len(q)
           S == Seq(X)
           More(k, T) == IF q[k + 1].role = "mutation" THEN Append(T, q[k + 1]) ELSE T
           step == [p \in Nat \X S |-> IF p[1] < N THEN More(p[1], p[2]) ELSE p[2]]
<1>1. N \in Nat /\ \A i \in 1..N : q[i] \in X
  OBVIOUS
<1>2. step \in [Nat \X S -> S]
  <2>1. ASSUME NEW p \in Nat \X S, p[1] < N PROVE More(p[1], p[2]) \in S
    <3>1. q[p[1] + 1] \in X
      <4>1. p[1] + 1 \in 1..N
        BY <1>1, <2>1
      <4>2. QED
        BY <1>1, <4>1
    <3>2. p[2] \in Seq(X)
      BY <2>1
    <3>3. QED
      BY <3>1, <3>2
  <2> HIDE DEF More, S
  <2>2. \A p \in Nat \X S : p[2] \in S
    OBVIOUS
  <2>3. QED
    BY <2>1, <2>2
<1>3. <<>> \in S
  OBVIOUS
<1>4. PICK f : Iterates(f, S, <<>>, step)
  <2> HIDE DEF S, step
  <2>1. QED
    BY <1>2, <1>3, RecursiveFunction
<1>5. \A k \in 0..(N - 1) : f[k + 1] = More(k, f[k])
  <2> TAKE k \in 0..(N - 1)
  <2> HIDE DEF More, S
  <2>1. <<k, f[k]>> \in Nat \X S /\ k < N
    BY <1>1, <1>4 DEF Iterates
  <2>2. step[<<k, f[k]>>] = More(k, f[k])
    BY <2>1
  <2>3. QED
    BY <1>4, <2>1, <2>2 DEF Iterates
<1> DEFINE g == [i \in 0..N |-> f[i]]
<1>6. Gathers(q, g)
  <2> HIDE DEF More
  <2>1. \A i \in 0..N : g[i] = IF i = 0 THEN <<>> ELSE More(i - 1, g[i - 1])
    <3> TAKE i \in 0..N
    <3>1. CASE i = 0
      BY <1>4, <3>1 DEF Iterates
    <3>2. CASE i # 0
      <4>1. i - 1 \in 0..(N - 1) /\ i - 1 \in 0..N /\ (i - 1) + 1 = i
        BY <1>1, <3>2
      <4>2. f[(i - 1) + 1] = More(i - 1, f[i - 1])
        BY <1>5, <4>1
      <4>3. g[i - 1] = f[i - 1] /\ g[i] = f[i]
        BY <4>1
      <4>4. QED
        BY <3>2, <4>1, <4>2, <4>3
    <3>3. QED
      BY <3>1, <3>2
  <2>2. \A i \in 0..N : i # 0 =>
          More(i - 1, g[i - 1])
            = IF q[i].role = "mutation" THEN Append(g[i - 1], q[i]) ELSE g[i - 1]
    <3> HIDE DEF g
    <3> TAKE i \in 0..N
    <3>1. i \in Int /\ (i - 1) + 1 = i
      BY <1>1
    <3>2. QED
      BY <3>1 DEF More
  <2>3. g = [i \in 0..N |-> g[i]]
    OBVIOUS
  <2> HIDE DEF g
  <2>4. QED
    BY <2>1, <2>2, <2>3 DEF Gathers
<1> DEFINE c == CHOOSE h : Gathers(q, h)
<1>7. Gathers(q, c)
  BY <1>6
<1>8. MutationsOf(q) = c[N]
  BY DEF MutationsOf, Gathers
<1> HIDE DEF c
<1> DEFINE T == {k \in Nat : k <= N => c[k] \in S}
<1>9. 0 \in T
  BY <1>1, <1>7 DEF Gathers
<1>10. ASSUME NEW k \in Nat, k \in T PROVE k + 1 \in T
  <2> SUFFICES ASSUME k + 1 <= N PROVE c[k + 1] \in S
    OBVIOUS
  <2>1. k + 1 \in 0..N /\ k + 1 # 0 /\ (k + 1) - 1 = k /\ k + 1 \in 1..N
    BY <1>1
  <2>2. c[k + 1] = IF q[k + 1].role = "mutation" THEN Append(c[k], q[k + 1]) ELSE c[k]
    BY <1>7, <2>1 DEF Gathers
  <2>3. c[k] \in Seq(X) /\ q[k + 1] \in X
    BY <1>1, <1>10, <2>1
  <2>4. QED
    BY <2>2, <2>3
<1>11. Nat \subseteq T
  <2> HIDE DEF T
  <2>1. QED
    BY <1>9, <1>10, NaturalInduction
<1>12. QED
  BY <1>1, <1>8, <1>11

(* The stages of a growth in which the machine is still compared with the  *)
(* plan, and those behind the last comparison.                             *)
Comparing == {"idle", "seen", "planned", "handed", "locked", "backed", "evidenced",
              "approved", "frozen"}
Planning  == Comparing \ {"idle", "seen"}
Handed    == Planning \ {"planned"}
Backed    == Handed \ {"handed", "locked"}
Started   == {"prepared", "applied", "verified", "done", "recovery"}
Compared  == Started \cup {"sealed", "pinned"}

(* The fields of the records a snapshot has of volumes and tables.         *)
PvFields == {"name", "uuid", "vg", "size", "free", "pe"}
VgFields == {"name", "uuid", "size", "free", "extent", "extents", "pvcount", "missing",
             "writable"}
LvFields == {"path", "name", "uuid", "vg", "size", "linear", "state"}
TableFields == {"device", "label", "first", "last", "sector", "parts"}

(* What every machine keeps that starts as IsMachine says: one physical    *)
(* volume to a device, one logical volume to a path, and free space and    *)
(* sizes that can be compared.                                             *)
Sound(h) ==
  /\ {"nodes", "tables", "pvs", "vgs", "lvs"} \subseteq DOMAIN h
  /\ \A S \in {h.nodes, h.tables, h.pvs, h.vgs, h.lvs} : IsFiniteSet(S)
  /\ \A v \in h.pvs : IsRecord(v, PvFields) /\ v.free \in Int
  /\ \A g \in h.vgs : IsRecord(g, VgFields) /\ g.extent \in Nat
  /\ \A l \in h.lvs : IsRecord(l, LvFields) /\ l.size \in Int
  /\ \A t \in h.tables : IsRecord(t, TableFields)
  /\ \A v, w \in h.pvs : v.name = w.name => v = w
  /\ \A l, k \in h.lvs : l.path = k.path => l = k

(* A later state of a record: others take free space of a physical volume, *)
(* they grow a logical volume, and they add to a partition table.          *)
PvAfter(v, w) == w = [v EXCEPT !.free = w.free] /\ w.free <= v.free
LvAfter(l, k) == k = [l EXCEPT !.size = k.size] /\ l.size <= k.size
VgAfter(g, f) == f.name = g.name /\ f.uuid = g.uuid
TableAfter(t, u) == u.device = t.device /\ t.parts \subseteq u.parts

(* k is a later state of h: no volume appeared, no group and no partition  *)
(* disappeared.                                                            *)
Later(h, k) ==
  /\ \A w \in k.pvs : \E v \in h.pvs : PvAfter(v, w)
  /\ \A m \in k.lvs : \E l \in h.lvs : LvAfter(l, m)
  /\ \A g \in h.vgs : \E f \in k.vgs : VgAfter(g, f)
  /\ \A t \in h.tables : \E u \in k.tables : TableAfter(t, u)

(* What the records of s have become on h, as far as they are still there. *)
Became(s, h) ==
  /\ \A v \in s.pvs : \A w \in h.pvs : v.name = w.name => PvAfter(v, w)
  /\ \A l \in s.lvs : \A m \in h.lvs : l.path = m.path => LvAfter(l, m)
  /\ \A g \in s.vgs : \E f \in h.vgs : VgAfter(g, f)
  /\ \A t \in s.tables : \E u \in h.tables : TableAfter(t, u)

(* A reading: what it says of volumes can be told apart and compared.      *)
Readable(s) ==
  /\ \A S \in {s.nodes, s.tables, s.pvs, s.vgs, s.lvs} : IsFiniteSet(S)
  /\ \A v \in s.pvs : IsRecord(v, PvFields) /\ v.free \in Int
  /\ \A l \in s.lvs : IsRecord(l, LvFields) /\ l.size \in Int
  /\ \A l, k \in s.lvs : l.path = k.path => l = k

(* Where a step of a plan has its operand from: records of the snapshot,   *)
(* in the identity of the target, that a backup step of the plan covers.   *)
Sourced(p, x) ==
  LET s == p.basis
      lvm == LvmIdentity(s, ChainOf(s, DeviceOf(s, p.req.target))) IN
  CASE x.op = "extend_partition" ->
         \E t \in s.tables : \E q \in t.parts :
           /\ q.node = x.node /\ q.start = x.start /\ q.size = x.old
           /\ BackupTable(t.device) \in BackupSteps(p)
    [] x.op = "resize_pv" ->
         \E g \in s.vgs : \E v \in lvm.pvs :
           v.uuid = x.pv /\ v.vg = g.name /\ BackupLvm(g.uuid) \in BackupSteps(p)
    [] x.op = "extend_lv" ->
         \E g \in s.vgs : \E l \in lvm.lvs :
           l.uuid = x.lv /\ l.vg = g.name /\ BackupLvm(g.uuid) \in BackupSteps(p)
    [] OTHER -> TRUE

(* Every step of a plan has its operand from there.                        *)
PlanSourced(p) == IsSeq(p.steps) /\ \A i \in DOMAIN p.steps : Sourced(p, p.steps[i])

(* A record of the plan is in an artifact, or the machine has left it      *)
(* behind for good.                                                        *)
PvLost(v, h) == \A w \in h.pvs : w.name = v.name => w.free < v.free
LvLost(l, h) == \A m \in h.lvs : m.path = l.path => l.size < m.size

(* The artifact a keeps the records of the group g.                        *)
GroupKept(a, g) ==
  /\ a.step.op = "backup_lvm"
  /\ \A v \in plan.basis.pvs : v.vg = g.name =>
       v \in a.records \/ (PvLost(v, was) /\ PvLost(v, host))
  /\ \A l \in plan.basis.lvs : l.vg = g.name =>
       l \in a.records \/ (LvLost(l, was) /\ LvLost(l, host))

(* An artifact keeps the record of the partition that x extends.           *)
PartKept(x) ==
  \E a \in backup : /\ a.step.op = "backup_table"
                    /\ \E p \in a.records : p.node = x.node /\ p.start = x.start /\ p.size = x.old

(* Until the last comparison the others only ever add to the machine.      *)
HostInv ==
  stage \in Comparing =>
    migration = None /\ Sound(was) /\ Sound(host) /\ Later(was, host)

(* The snapshot a plan is going to be made of, and the plan with its own.  *)
SeenInv == stage = "seen" => Readable(seen) /\ Became(seen, host)
PlanInv ==
  stage \in Planning =>
    PlanSourced(plan) /\ Readable(plan.basis) /\ Became(plan.basis, host)

(* The manifest is the one of the snapshot the plan was made of.           *)
ManifestInv ==
  stage \in Handed => handoff.manifest = Manifest(plan.basis, plan.req.target)

(* What the backup has of the layers the plan changes.                     *)
BackupInv ==
  stage \in Backed =>
    /\ \A i \in DOMAIN plan.steps :
         plan.steps[i].op = "extend_partition" => PartKept(plan.steps[i])
    /\ \A g \in plan.basis.vgs : BackupLvm(g.uuid) \in BackupSteps(plan) =>
         \E a \in backup : GroupKept(a, g)

(* The frozen steps are the ones of the plan, found in the manifest.       *)
IntentInv ==
  /\ IsSeq(intent)
  /\ stage = "frozen" =>
       /\ intent = Frozen(plan)
       /\ \A i \in DOMAIN plan.steps : Freezes(plan.steps[i], handoff.manifest, decision)

(* Behind the last comparison every mutation can be put back.              *)
RestoreInv ==
  stage \in Compared =>
    \A i \in DOMAIN MutationsOf(intent) : Restorable(MutationsOf(intent)[i].does)

(* No mutation is behind a growth that has not begun to change anything.   *)
NextInv == stage \notin Started => next = 1

(* The inductive invariant.                                                *)
SessionInv ==
  /\ HostInv /\ SeenInv /\ PlanInv /\ ManifestInv /\ BackupInv /\ IntentInv
  /\ RestoreInv /\ NextInv

-----------------------------------------------------------------------------
(* The records of physical and logical volumes, field by field.            *)
LEMMA PvRecord ==
  ASSUME NEW v, IsRecord(v, PvFields), NEW e
  PROVE  /\ v = [name |-> v.name, uuid |-> v.uuid, vg |-> v.vg, size |-> v.size,
                 free |-> v.free, pe |-> v.pe]
         /\ [v EXCEPT !.free = e]
              = [name |-> v.name, uuid |-> v.uuid, vg |-> v.vg, size |-> v.size,
                 free |-> e, pe |-> v.pe]
<1>1. v = [f \in PvFields |-> v[f]]
  BY DEF IsRecord
<1>2. v = [name |-> v.name, uuid |-> v.uuid, vg |-> v.vg, size |-> v.size,
           free |-> v.free, pe |-> v.pe]
  BY <1>1 DEF PvFields
<1>3. QED
  BY <1>2

(* The same of a logical volume.                                           *)
LEMMA LvRecord ==
  ASSUME NEW l, IsRecord(l, LvFields), NEW e
  PROVE  /\ l = [path |-> l.path, name |-> l.name, uuid |-> l.uuid, vg |-> l.vg,
                 size |-> l.size, linear |-> l.linear, state |-> l.state]
         /\ [l EXCEPT !.size = e]
              = [path |-> l.path, name |-> l.name, uuid |-> l.uuid, vg |-> l.vg,
                 size |-> e, linear |-> l.linear, state |-> l.state]
<1>1. l = [f \in LvFields |-> l[f]]
  BY DEF IsRecord
<1>2. l = [path |-> l.path, name |-> l.name, uuid |-> l.uuid, vg |-> l.vg,
           size |-> l.size, linear |-> l.linear, state |-> l.state]
  BY <1>1 DEF LvFields
<1>3. QED
  BY <1>2

(* A change of the one field that may change.                              *)
LEMMA PvChanged ==
  ASSUME NEW v, IsRecord(v, PvFields), NEW e, v.free \in Int, e \in Int
  PROVE  LET w == [v EXCEPT !.free = e] IN
         /\ IsRecord(w, PvFields) /\ w.name = v.name /\ w.free = e
         /\ e <= v.free => PvAfter(v, w)
<1> DEFINE w == [v EXCEPT !.free = e]
<1>1. w = [name |-> v.name, uuid |-> v.uuid, vg |-> v.vg, size |-> v.size,
           free |-> e, pe |-> v.pe]
  BY PvRecord
<1>2. w.name = v.name /\ w.free = e
  BY <1>1
<1>3. IsRecord(w, PvFields)
  BY <1>1 DEF IsRecord, PvFields
<1>4. QED
  BY <1>2, <1>3 DEF PvAfter

(* The same of a logical volume, which may only grow.                      *)
LEMMA LvChanged ==
  ASSUME NEW l, IsRecord(l, LvFields), NEW e, l.size \in Int, e \in Int
  PROVE  LET k == [l EXCEPT !.size = e] IN
         /\ IsRecord(k, LvFields) /\ k.path = l.path /\ k.size = e
         /\ l.size <= e => LvAfter(l, k)
<1> DEFINE k == [l EXCEPT !.size = e]
<1>1. k = [path |-> l.path, name |-> l.name, uuid |-> l.uuid, vg |-> l.vg,
           size |-> e, linear |-> l.linear, state |-> l.state]
  BY LvRecord
<1>2. k.path = l.path /\ k.size = e
  BY <1>1
<1>3. IsRecord(k, LvFields)
  BY <1>1 DEF IsRecord, LvFields
<1>4. QED
  BY <1>2, <1>3 DEF LvAfter

(* A later record is the same one: the same device, and equal as soon as   *)
(* what may change is equal.                                               *)
LEMMA PvAfterIs ==
  ASSUME NEW v, NEW w, IsRecord(v, PvFields), PvAfter(v, w)
  PROVE  w.name = v.name /\ (w.free = v.free => w = v)
<1>1. w = [name |-> v.name, uuid |-> v.uuid, vg |-> v.vg, size |-> v.size,
           free |-> w.free, pe |-> v.pe]
  BY PvRecord DEF PvAfter
<1>2. v = [name |-> v.name, uuid |-> v.uuid, vg |-> v.vg, size |-> v.size,
           free |-> v.free, pe |-> v.pe]
  BY PvRecord
<1>3. w.name = v.name
  BY <1>1
<1>4. QED
  BY <1>1, <1>2, <1>3

(* The same of a logical volume.                                           *)
LEMMA LvAfterIs ==
  ASSUME NEW l, NEW k, IsRecord(l, LvFields), LvAfter(l, k)
  PROVE  k.path = l.path /\ (k.size = l.size => k = l)
<1>1. k = [path |-> l.path, name |-> l.name, uuid |-> l.uuid, vg |-> l.vg,
           size |-> k.size, linear |-> l.linear, state |-> l.state]
  BY LvRecord DEF LvAfter
<1>2. l = [path |-> l.path, name |-> l.name, uuid |-> l.uuid, vg |-> l.vg,
           size |-> l.size, linear |-> l.linear, state |-> l.state]
  BY LvRecord
<1>3. k.path = l.path
  BY <1>1
<1>4. QED
  BY <1>1, <1>2, <1>3

(* A later record of a later record is a later record.                     *)
LEMMA PvAfterAfter ==
  ASSUME NEW u, NEW v, NEW w, IsRecord(u, PvFields), PvAfter(u, v), PvAfter(v, w),
         u.free \in Int, v.free \in Int, w.free \in Int
  PROVE  PvAfter(u, w)
<1>1. v = [name |-> u.name, uuid |-> u.uuid, vg |-> u.vg, size |-> u.size,
           free |-> v.free, pe |-> u.pe]
  BY PvRecord DEF PvAfter
<1>2. w = [name |-> u.name, uuid |-> u.uuid, vg |-> u.vg, size |-> u.size,
           free |-> w.free, pe |-> u.pe]
  <2>1. w = [v EXCEPT !.free = w.free]
    BY DEF PvAfter
  <2>2. QED
    BY <1>1, <2>1
<1>3. [u EXCEPT !.free = w.free]
        = [name |-> u.name, uuid |-> u.uuid, vg |-> u.vg, size |-> u.size,
           free |-> w.free, pe |-> u.pe]
  BY PvRecord
<1>4. w.free <= u.free
  BY DEF PvAfter
<1>5. QED
  BY <1>2, <1>3, <1>4 DEF PvAfter

(* The same of logical volumes.                                            *)
LEMMA LvAfterAfter ==
  ASSUME NEW l, NEW k, NEW m, IsRecord(l, LvFields), LvAfter(l, k), LvAfter(k, m),
         l.size \in Int, k.size \in Int, m.size \in Int
  PROVE  LvAfter(l, m)
<1>1. k = [path |-> l.path, name |-> l.name, uuid |-> l.uuid, vg |-> l.vg,
           size |-> k.size, linear |-> l.linear, state |-> l.state]
  BY LvRecord DEF LvAfter
<1>2. m = [path |-> l.path, name |-> l.name, uuid |-> l.uuid, vg |-> l.vg,
           size |-> m.size, linear |-> l.linear, state |-> l.state]
  <2>1. m = [k EXCEPT !.size = m.size]
    BY DEF LvAfter
  <2>2. QED
    BY <1>1, <2>1
<1>3. [l EXCEPT !.size = m.size]
        = [path |-> l.path, name |-> l.name, uuid |-> l.uuid, vg |-> l.vg,
           size |-> m.size, linear |-> l.linear, state |-> l.state]
  BY LvRecord
<1>4. l.size <= m.size
  BY DEF LvAfter
<1>5. QED
  BY <1>2, <1>3, <1>4 DEF LvAfter

-----------------------------------------------------------------------------
(* What was read of a machine, on a later one.                             *)

(* A machine is a later state of itself.                                   *)
LEMMA LaterSame ==
  ASSUME NEW h, Sound(h)
  PROVE  Later(h, h)
<1>1. \A v \in h.pvs : PvAfter(v, v)
  <2> TAKE v \in h.pvs
  <2>1. IsRecord(v, PvFields) /\ v.free \in Int
    BY DEF Sound
  <2>2. v = [v EXCEPT !.free = v.free]
    BY <2>1, PvRecord
  <2>3. QED
    BY <2>1, <2>2 DEF PvAfter
<1>2. \A l \in h.lvs : LvAfter(l, l)
  <2> TAKE l \in h.lvs
  <2>1. IsRecord(l, LvFields) /\ l.size \in Int
    BY DEF Sound
  <2>2. l = [l EXCEPT !.size = l.size]
    BY <2>1, LvRecord
  <2>3. QED
    BY <2>1, <2>2 DEF LvAfter
<1>3. QED
  BY <1>1, <1>2 DEF Later, VgAfter, TableAfter

(* The records of a machine, on a later state of it.                       *)
LEMMA MachineBecame ==
  ASSUME NEW h, NEW k, Sound(h), Later(h, k)
  PROVE  Became(h, k)
<1>1. ASSUME NEW v \in h.pvs, NEW w \in k.pvs, v.name = w.name PROVE PvAfter(v, w)
  <2>1. PICK u \in h.pvs : PvAfter(u, w)
    BY DEF Later
  <2>2. u.name = w.name
    BY <2>1, PvAfterIs DEF Sound
  <2>3. QED
    BY <1>1, <2>1, <2>2 DEF Sound
<1>2. ASSUME NEW l \in h.lvs, NEW m \in k.lvs, l.path = m.path PROVE LvAfter(l, m)
  <2>1. PICK o \in h.lvs : LvAfter(o, m)
    BY DEF Later
  <2>2. o.path = m.path
    BY <2>1, LvAfterIs DEF Sound
  <2>3. QED
    BY <1>2, <2>1, <2>2 DEF Sound
<1>3. QED
  BY <1>1, <1>2 DEF Became, Later

(* What became of the records on one machine goes on on a later one.       *)
LEMMA BecameLater ==
  ASSUME NEW s, NEW h, NEW k, Readable(s), Sound(h), Sound(k), Became(s, h), Later(h, k)
  PROVE  Became(s, k)
<1>1. ASSUME NEW v \in s.pvs, NEW w \in k.pvs, v.name = w.name PROVE PvAfter(v, w)
  <2>1. PICK u \in h.pvs : PvAfter(u, w)
    BY DEF Later
  <2>2. IsRecord(v, PvFields) /\ v.free \in Int /\ u.free \in Int /\ w.free \in Int
    BY DEF Readable, Sound
  <2>3. u.name = w.name
    BY <2>1, PvAfterIs DEF Sound
  <2>4. PvAfter(v, u)
    BY <1>1, <2>3 DEF Became
  <2>5. QED
    BY <2>1, <2>2, <2>4, PvAfterAfter
<1>2. ASSUME NEW l \in s.lvs, NEW m \in k.lvs, l.path = m.path PROVE LvAfter(l, m)
  <2>1. PICK o \in h.lvs : LvAfter(o, m)
    BY DEF Later
  <2>2. IsRecord(l, LvFields) /\ l.size \in Int /\ o.size \in Int /\ m.size \in Int
    BY DEF Readable, Sound
  <2>3. o.path = m.path
    BY <2>1, LvAfterIs DEF Sound
  <2>4. LvAfter(l, o)
    BY <1>2, <2>3 DEF Became
  <2>5. QED
    BY <2>1, <2>2, <2>4, LvAfterAfter
<1>3. ASSUME NEW g \in s.vgs PROVE \E f \in k.vgs : VgAfter(g, f)
  <2>1. PICK e \in h.vgs : VgAfter(g, e)
    BY DEF Became
  <2>2. PICK f \in k.vgs : VgAfter(e, f)
    BY DEF Later
  <2>3. QED
    BY <2>1, <2>2 DEF VgAfter
<1>4. ASSUME NEW t \in s.tables PROVE \E u \in k.tables : TableAfter(t, u)
  <2>1. PICK e \in h.tables : TableAfter(t, e)
    BY DEF Became
  <2>2. PICK u \in k.tables : TableAfter(e, u)
    BY DEF Later
  <2>3. QED
    BY <2>1, <2>2 DEF TableAfter
<1>5. QED
  BY <1>1, <1>2, <1>3, <1>4 DEF Became

(* A record that was left behind is not met again.                         *)
LEMMA LostForGood ==
  ASSUME NEW h, NEW k, Sound(h), Sound(k), Later(h, k)
  PROVE  /\ \A v : v.free \in Int /\ PvLost(v, h) => PvLost(v, k)
         /\ \A l : l.size \in Int /\ LvLost(l, h) => LvLost(l, k)
<1>1. ASSUME NEW v, v.free \in Int, PvLost(v, h), NEW w \in k.pvs, w.name = v.name
      PROVE  w.free < v.free
  <2>1. PICK u \in h.pvs : PvAfter(u, w)
    BY DEF Later
  <2>2. u.name = w.name /\ u.free \in Int /\ w.free \in Int
    BY <2>1, PvAfterIs DEF Sound
  <2>3. u.free < v.free /\ w.free <= u.free
    BY <1>1, <2>1, <2>2 DEF PvLost, PvAfter
  <2>4. QED
    BY <1>1, <2>2, <2>3
<1>2. ASSUME NEW l, l.size \in Int, LvLost(l, h), NEW m \in k.lvs, m.path = l.path
      PROVE  l.size < m.size
  <2>1. PICK o \in h.lvs : LvAfter(o, m)
    BY DEF Later
  <2>2. o.path = m.path /\ o.size \in Int /\ m.size \in Int
    BY <2>1, LvAfterIs DEF Sound
  <2>3. l.size < o.size /\ o.size <= m.size
    BY <1>2, <2>1, <2>2 DEF LvLost, LvAfter
  <2>4. QED
    BY <1>2, <2>2, <2>3
<1>3. QED
  BY <1>1, <1>2 DEF PvLost, LvLost

(* A discovery takes each of its parts from the machine as it was or as it *)
(* is.                                                                     *)
LEMMA ReadingParts ==
  ASSUME NEW h, NEW k, NEW s \in Readings(h, k)
  PROVE  /\ s.nodes = h.nodes \/ s.nodes = k.nodes
         /\ s.tables \subseteq h.tables \/ s.tables \subseteq k.tables
         /\ s.pvs \subseteq h.pvs \/ s.pvs \subseteq k.pvs
         /\ s.vgs \subseteq h.vgs \/ s.vgs \subseteq k.vgs
         /\ s.lvs \subseteq h.lvs \/ s.lvs \subseteq k.lvs
<1>1. PICK cut : s = [Read(h, k, cut) EXCEPT !.errors = ErrorsOf(Read(h, k, cut))]
  BY DEF Readings
<1> DEFINE r == Read(h, k, cut)
<1>2. /\ r.nodes = h.nodes \/ r.nodes = k.nodes
      /\ r.tables \subseteq h.tables \/ r.tables \subseteq k.tables
      /\ r.pvs \subseteq h.pvs \/ r.pvs \subseteq k.pvs
      /\ r.vgs \subseteq h.vgs \/ r.vgs \subseteq k.vgs
      /\ r.lvs \subseteq h.lvs \/ r.lvs \subseteq k.lvs
  BY DEF Read, TablesRead
<1>3. s.nodes = r.nodes /\ s.tables = r.tables /\ s.pvs = r.pvs /\ s.vgs = r.vgs
      /\ s.lvs = r.lvs
  BY <1>1 DEF Read
<1>4. QED
  BY <1>2, <1>3

(* A reading that spans a change of h to k: its records are of h or of k,  *)
(* and have become those of k.                                             *)
LEMMA ReadingBecame ==
  ASSUME NEW h, NEW k, Sound(h), Sound(k), Later(h, k), NEW s \in Readings(h, k)
  PROVE  Readable(s) /\ Became(s, k)
<1>1. Became(h, k) /\ Became(k, k)
  BY MachineBecame, LaterSame
<1>2. /\ IsFiniteSet(s.nodes) /\ IsFiniteSet(s.tables) /\ IsFiniteSet(s.pvs)
      /\ IsFiniteSet(s.vgs) /\ IsFiniteSet(s.lvs)
  <2>1. \A S \in {h.nodes, h.tables, h.pvs, h.vgs, h.lvs,
                  k.nodes, k.tables, k.pvs, k.vgs, k.lvs} : IsFiniteSet(S)
    BY DEF Sound
  <2>2. QED
    BY <2>1, ReadingParts, FS_Subset
<1>3. Readable(s)
  BY <1>2, ReadingParts DEF Readable, Sound
<1>4. Became(s, k)
  <2>1. \A v \in s.pvs : \A w \in k.pvs : v.name = w.name => PvAfter(v, w)
    BY <1>1, ReadingParts DEF Became
  <2>2. \A l \in s.lvs : \A m \in k.lvs : l.path = m.path => LvAfter(l, m)
    BY <1>1, ReadingParts DEF Became
  <2>3. \A g \in s.vgs : \E f \in k.vgs : VgAfter(g, f)
    BY <1>1, ReadingParts DEF Became
  <2>4. \A t \in s.tables : \E u \in k.tables : TableAfter(t, u)
    BY <1>1, ReadingParts DEF Became
  <2>5. QED
    BY <2>1, <2>2, <2>3, <2>4 DEF Became
<1>5. QED
  BY <1>3, <1>4

-----------------------------------------------------------------------------
(* What the other administrators do.                                       *)

(* Each kind of record, after a change of the machine h.                   *)
PvsKept(h, P) ==
  /\ IsFiniteSet(P)
  /\ \A w \in P : IsRecord(w, PvFields) /\ w.free \in Int
  /\ \A v, w \in P : v.name = w.name => v = w
  /\ \A w \in P : \E v \in h.pvs : PvAfter(v, w)
LvsKept(h, L) ==
  /\ IsFiniteSet(L)
  /\ \A m \in L : IsRecord(m, LvFields) /\ m.size \in Int
  /\ \A l, m \in L : l.path = m.path => l = m
  /\ \A m \in L : \E l \in h.lvs : LvAfter(l, m)
VgsKept(h, G) ==
  /\ IsFiniteSet(G)
  /\ \A f \in G : IsRecord(f, VgFields) /\ f.extent \in Nat
  /\ \A g \in h.vgs : \E f \in G : VgAfter(g, f)
TablesKept(h, T) ==
  /\ IsFiniteSet(T)
  /\ \A u \in T : IsRecord(u, TableFields)
  /\ \A t \in h.tables : \E u \in T : TableAfter(t, u)

(* The machine h may be changed to k.                                      *)
Kept(h, k) ==
  /\ DOMAIN k = DOMAIN h
  /\ IsFiniteSet(k.nodes)
  /\ PvsKept(h, k.pvs) /\ LvsKept(h, k.lvs) /\ VgsKept(h, k.vgs) /\ TablesKept(h, k.tables)

(* A machine changed so is as sound as before, and a later state of it.    *)
LEMMA KeptLater ==
  ASSUME NEW h, NEW k, Sound(h), Kept(h, k)
  PROVE  Sound(k) /\ Later(h, k)
<1>1. {"nodes", "tables", "pvs", "vgs", "lvs"} \subseteq DOMAIN k
  BY DEF Sound, Kept
<1>2. \A S \in {k.nodes, k.tables, k.pvs, k.vgs, k.lvs} : IsFiniteSet(S)
  BY DEF Kept, PvsKept, LvsKept, VgsKept, TablesKept
<1>3. \A v \in k.pvs : IsRecord(v, PvFields) /\ v.free \in Int
  BY DEF Kept, PvsKept
<1>4. \A g \in k.vgs : IsRecord(g, VgFields) /\ g.extent \in Nat
  BY DEF Kept, VgsKept
<1>5. \A l \in k.lvs : IsRecord(l, LvFields) /\ l.size \in Int
  BY DEF Kept, LvsKept
<1>6. \A t \in k.tables : IsRecord(t, TableFields)
  BY DEF Kept, TablesKept
<1>7. \A v, w \in k.pvs : v.name = w.name => v = w
  BY DEF Kept, PvsKept
<1>8. \A l, m \in k.lvs : l.path = m.path => l = m
  BY DEF Kept, LvsKept
<1>9. Sound(k)
  BY <1>1, <1>2, <1>3, <1>4, <1>5, <1>6, <1>7, <1>8 DEF Sound
<1>10. Later(h, k)
  BY DEF Later, Kept, PvsKept, LvsKept, VgsKept, TablesKept
<1>11. QED
  BY <1>9, <1>10

(* What is not changed is kept.                                            *)
LEMMA SameKept ==
  ASSUME NEW h, Sound(h)
  PROVE  /\ PvsKept(h, h.pvs) /\ LvsKept(h, h.lvs) /\ VgsKept(h, h.vgs)
         /\ TablesKept(h, h.tables)
<1>1. Later(h, h)
  BY LaterSame
<1>2. /\ IsFiniteSet(h.tables) /\ IsFiniteSet(h.pvs) /\ IsFiniteSet(h.vgs)
      /\ IsFiniteSet(h.lvs)
  BY DEF Sound
<1>3. PvsKept(h, h.pvs)
  BY <1>1, <1>2 DEF PvsKept, Later, Sound
<1>4. LvsKept(h, h.lvs)
  BY <1>1, <1>2 DEF LvsKept, Later, Sound
<1>5. VgsKept(h, h.vgs)
  BY <1>1, <1>2 DEF VgsKept, Later, Sound
<1>6. TablesKept(h, h.tables)
  BY <1>1, <1>2 DEF TablesKept, Later, Sound
<1>7. QED
  BY <1>3, <1>4, <1>5, <1>6

(* Records that are changed one by one.                                    *)
Image(f, S) == {f[x] : x \in S}
PvsChange(h, f) ==
  /\ f = [v \in h.pvs |-> f[v]]
  /\ \A v \in h.pvs : /\ IsRecord(f[v], PvFields) /\ f[v].free \in Int
                      /\ f[v].name = v.name /\ PvAfter(v, f[v])
LvsChange(h, f) ==
  /\ f = [l \in h.lvs |-> f[l]]
  /\ \A l \in h.lvs : /\ IsRecord(f[l], LvFields) /\ f[l].size \in Int
                      /\ f[l].path = l.path /\ LvAfter(l, f[l])
VgsChange(h, f) ==
  /\ f = [g \in h.vgs |-> f[g]]
  /\ \A g \in h.vgs : /\ IsRecord(f[g], VgFields) /\ f[g].extent \in Nat
                      /\ VgAfter(g, f[g])

(* Physical volumes that only lose free space, one by one.                 *)
LEMMA PvsChanged ==
  ASSUME NEW h, Sound(h), NEW f, PvsChange(h, f)
  PROVE  PvsKept(h, Image(f, h.pvs))
<1> DEFINE S == {f[v] : v \in h.pvs}
<1> USE DEF PvsChange
<1>1. IsFiniteSet(S)
  <2>1. IsFiniteSet(h.pvs)
    BY DEF Sound
  <2>2. QED
    BY <2>1, FiniteImage
<1>2. ASSUME NEW v \in h.pvs, NEW w \in h.pvs, f[v].name = f[w].name
      PROVE  f[v] = f[w]
  <2>1. v.name = w.name
    BY <1>2
  <2>2. v = w
    BY <2>1 DEF Sound
  <2>3. QED
    BY <2>2
<1>3. \A w \in S : IsRecord(w, PvFields) /\ w.free \in Int
  OBVIOUS
<1>4. \A w \in S : \E v \in h.pvs : PvAfter(v, w)
  OBVIOUS
<1>5. \A v, w \in S : v.name = w.name => v = w
  BY <1>2
<1>6. PvsKept(h, S)
  <2> HIDE DEF S
  <2>1. QED
    BY <1>1, <1>3, <1>4, <1>5 DEF PvsKept
<1>7. QED
  BY <1>6 DEF Image

(* Logical volumes that only grow, one by one.                             *)
LEMMA LvsChanged ==
  ASSUME NEW h, Sound(h), NEW f, LvsChange(h, f)
  PROVE  LvsKept(h, Image(f, h.lvs))
<1> DEFINE S == {f[l] : l \in h.lvs}
<1> USE DEF LvsChange
<1>1. IsFiniteSet(S)
  <2>1. IsFiniteSet(h.lvs)
    BY DEF Sound
  <2>2. QED
    BY <2>1, FiniteImage
<1>2. ASSUME NEW l \in h.lvs, NEW m \in h.lvs, f[l].path = f[m].path
      PROVE  f[l] = f[m]
  <2>1. l.path = m.path
    BY <1>2
  <2>2. l = m
    BY <2>1 DEF Sound
  <2>3. QED
    BY <2>2
<1>3. \A m \in S : IsRecord(m, LvFields) /\ m.size \in Int
  OBVIOUS
<1>4. \A m \in S : \E l \in h.lvs : LvAfter(l, m)
  OBVIOUS
<1>5. \A l, m \in S : l.path = m.path => l = m
  BY <1>2
<1>6. LvsKept(h, S)
  <2> HIDE DEF S
  <2>1. QED
    BY <1>1, <1>3, <1>4, <1>5 DEF LvsKept
<1>7. QED
  BY <1>6 DEF Image

(* Groups that keep their names and UUIDs, one by one.                     *)
LEMMA VgsChanged ==
  ASSUME NEW h, Sound(h), NEW f, VgsChange(h, f)
  PROVE  VgsKept(h, Image(f, h.vgs))
<1> DEFINE S == {f[g] : g \in h.vgs}
<1> USE DEF VgsChange
<1>1. IsFiniteSet(S)
  <2>1. IsFiniteSet(h.vgs)
    BY DEF Sound
  <2>2. QED
    BY <2>1, FiniteImage
<1>2. \A f2 \in S : IsRecord(f2, VgFields) /\ f2.extent \in Nat
  OBVIOUS
<1>3. \A g \in h.vgs : \E f2 \in S : VgAfter(g, f2)
  OBVIOUS
<1>4. VgsKept(h, S)
  <2> HIDE DEF S
  <2>1. QED
    BY <1>1, <1>2, <1>3 DEF VgsKept
<1>5. QED
  BY <1>4 DEF Image

(* A group gives extents away: its name, its identity and the size of an   *)
(* extent stay.                                                            *)
LEMMA VgSpent ==
  ASSUME NEW g, IsRecord(g, VgFields), g.extent \in Nat,
         NEW f, f = [x \in DOMAIN g |-> f[x]],
         \A x \in DOMAIN g \ {"free", "extents"} : f[x] = g[x]
  PROVE  IsRecord(f, VgFields) /\ f.extent \in Nat /\ VgAfter(g, f)
<1>1. DOMAIN g = VgFields
  BY DEF IsRecord
<1>2. {"name", "uuid", "extent"} \subseteq VgFields \ {"free", "extents"}
  BY DEF VgFields
<1>3. f.extent = g.extent /\ f.name = g.name /\ f.uuid = g.uuid
  BY <1>1, <1>2
<1>4. IsRecord(f, VgFields)
  BY <1>1 DEF IsRecord
<1>5. QED
  BY <1>3, <1>4 DEF VgAfter

(* Another volume of a group takes an extent.                              *)
LEMMA CompetitorKept ==
  ASSUME NEW h, Sound(h)
  PROVE  Kept(h, Competitor(h))
<1> DEFINE k == Competitor(h)
           fp == [v \in h.pvs |-> IF v.free > 0 /\ GroupsOf(h, v) # {}
                                  THEN [v EXCEPT !.free = @ - The(GroupsOf(h, v)).extent]
                                  ELSE v]
           fg == [g \in h.vgs |-> IF g.extents > 0
                                  THEN [g EXCEPT !.free = @ - g.extent, !.extents = @ - 1]
                                  ELSE g]
<1>1. /\ {"nodes", "tables", "pvs", "vgs", "lvs"} \subseteq DOMAIN h
      /\ IsFiniteSet(h.nodes)
  BY DEF Sound
<1>2. /\ DOMAIN k = DOMAIN h
      /\ k.nodes = h.nodes /\ k.tables = h.tables /\ k.lvs = h.lvs
      /\ k.pvs = {fp[v] : v \in h.pvs} /\ k.vgs = {fg[g] : g \in h.vgs}
  BY <1>1 DEF Competitor
<1>3. PvsKept(h, k.pvs)
  <2>1. ASSUME NEW v \in h.pvs
        PROVE  /\ IsRecord(fp[v], PvFields) /\ fp[v].free \in Int
               /\ fp[v].name = v.name /\ PvAfter(v, fp[v])
    <3>1. IsRecord(v, PvFields) /\ v.free \in Int
      BY DEF Sound
    <3>2. CASE v.free > 0 /\ GroupsOf(h, v) # {}
      <4>1. The(GroupsOf(h, v)) \in h.vgs
        <5>1. The(GroupsOf(h, v)) \in GroupsOf(h, v)
          BY <3>2 DEF The
        <5>2. QED
          BY <5>1 DEF GroupsOf
      <4>2. The(GroupsOf(h, v)).extent \in Nat
        BY <4>1 DEF Sound
      <4> DEFINE e == v.free - The(GroupsOf(h, v)).extent
      <4>3. e \in Int /\ e <= v.free
        BY <3>1, <4>2
      <4>4. fp[v] = [v EXCEPT !.free = e]
        BY <3>2
      <4> HIDE DEF e, fp
      <4>5. QED
        BY <3>1, <4>3, <4>4, PvChanged
    <3>3. CASE ~(v.free > 0 /\ GroupsOf(h, v) # {})
      <4>1. fp[v] = v
        BY <3>3
      <4>2. PvAfter(v, v)
        BY LaterSame, MachineBecame DEF Became
      <4> HIDE DEF fp
      <4>3. QED
        BY <3>1, <4>1, <4>2
    <3>4. QED
      BY <3>2, <3>3
  <2>2. fp = [v \in h.pvs |-> fp[v]]
    OBVIOUS
  <2>3. k.pvs = Image(fp, h.pvs)
    BY <1>2 DEF Image
  <2> HIDE DEF fp, k
  <2>4. PvsChange(h, fp)
    BY <2>1, <2>2 DEF PvsChange
  <2>5. QED
    BY <2>3, <2>4, PvsChanged
<1>4. VgsKept(h, k.vgs)
  <2>1. ASSUME NEW g \in h.vgs
        PROVE  IsRecord(fg[g], VgFields) /\ fg[g].extent \in Nat /\ VgAfter(g, fg[g])
    <3>1. IsRecord(g, VgFields) /\ g.extent \in Nat
      BY DEF Sound
    <3>2. CASE g.extents > 0
      <4>1. /\ fg[g] = [x \in DOMAIN g |-> fg[g][x]]
            /\ \A x \in DOMAIN g \ {"free", "extents"} : fg[g][x] = g[x]
        BY <3>2
      <4> HIDE DEF fg
      <4>2. QED
        BY <3>1, <4>1, VgSpent
    <3>3. CASE ~(g.extents > 0)
      BY <3>1, <3>3 DEF VgAfter
    <3>4. QED
      BY <3>2, <3>3
  <2>2. fg = [g \in h.vgs |-> fg[g]]
    OBVIOUS
  <2>3. k.vgs = Image(fg, h.vgs)
    BY <1>2 DEF Image
  <2> HIDE DEF fg, k
  <2>4. VgsChange(h, fg)
    BY <2>1, <2>2 DEF VgsChange
  <2>5. QED
    BY <2>3, <2>4, VgsChanged
<1>5. LvsKept(h, h.lvs) /\ TablesKept(h, h.tables)
  BY SameKept
<1> HIDE DEF k, fp, fg
<1>6. Kept(h, k)
  BY <1>1, <1>2, <1>3, <1>4, <1>5 DEF Kept
<1>7. QED
  BY <1>6 DEF k

(* A volume grows.                                                         *)
LEMMA LvExtendedKept ==
  ASSUME NEW h, Sound(h), NEW o \in h.lvs, GroupOf(h, o) # {}
  PROVE  Kept(h, LvExtended(h, o, 1))
<1> DEFINE k == LvExtended(h, o, 1)
           g == The(GroupOf(h, o))
           more == 1 * g.extent
           fl == [l \in h.lvs |-> IF l = o THEN [l EXCEPT !.size = @ + more] ELSE l]
           fp == [v \in h.pvs |-> IF v.vg = g.name THEN [v EXCEPT !.free = @ - more] ELSE v]
           fg == [f \in h.vgs |-> IF f = g THEN [f EXCEPT !.free = @ - more, !.extents = @ - 1]
                                  ELSE f]
           fn == [n \in h.nodes |-> IF n.path = o.path THEN [n EXCEPT !.size = @ + more] ELSE n]
<1>1. /\ {"nodes", "tables", "pvs", "vgs", "lvs"} \subseteq DOMAIN h
      /\ IsFiniteSet(h.nodes)
  BY DEF Sound
<1>2. /\ DOMAIN k = DOMAIN h
      /\ k.nodes = {fn[n] : n \in h.nodes} /\ k.tables = h.tables
      /\ k.lvs = {fl[l] : l \in h.lvs}
      /\ k.pvs = {fp[v] : v \in h.pvs} /\ k.vgs = {fg[f] : f \in h.vgs}
  BY <1>1 DEF LvExtended
<1>3. more \in Nat
  <2>1. g \in h.vgs
    BY DEF The, GroupOf
  <2>2. g.extent \in Nat
    BY <2>1 DEF Sound
  <2>3. QED
    BY <2>2
<1>4. IsFiniteSet({fn[n] : n \in h.nodes})
  <2>1. fn = [n \in h.nodes |-> fn[n]]
    OBVIOUS
  <2> HIDE DEF fn
  <2>2. QED
    BY <1>1, <2>1, FiniteImage
<1>5. PvsKept(h, k.pvs)
  <2>1. ASSUME NEW v \in h.pvs
        PROVE  /\ IsRecord(fp[v], PvFields) /\ fp[v].free \in Int
               /\ fp[v].name = v.name /\ PvAfter(v, fp[v])
    <3>1. IsRecord(v, PvFields) /\ v.free \in Int
      BY DEF Sound
    <3>2. CASE v.vg = g.name
      <4> DEFINE e == v.free - more
      <4>1. fp[v] = [v EXCEPT !.free = e]
        BY <3>2
      <4> HIDE DEF more, fp
      <4>2. e \in Int /\ e <= v.free
        BY <1>3, <3>1
      <4> HIDE DEF e
      <4>3. QED
        BY <3>1, <4>1, <4>2, PvChanged
    <3>3. CASE v.vg # g.name
      <4>1. fp[v] = v
        BY <3>3
      <4>2. PvAfter(v, v)
        BY LaterSame, MachineBecame DEF Became
      <4> HIDE DEF fp
      <4>3. QED
        BY <3>1, <4>1, <4>2
    <3>4. QED
      BY <3>2, <3>3
  <2>2. fp = [v \in h.pvs |-> fp[v]]
    OBVIOUS
  <2>3. k.pvs = Image(fp, h.pvs)
    BY <1>2 DEF Image
  <2> HIDE DEF fp, k
  <2>4. PvsChange(h, fp)
    BY <2>1, <2>2 DEF PvsChange
  <2>5. QED
    BY <2>3, <2>4, PvsChanged
<1>6. LvsKept(h, k.lvs)
  <2>1. ASSUME NEW m \in h.lvs
        PROVE  /\ IsRecord(fl[m], LvFields) /\ fl[m].size \in Int
               /\ fl[m].path = m.path /\ LvAfter(m, fl[m])
    <3>1. IsRecord(m, LvFields) /\ m.size \in Int
      BY DEF Sound
    <3>2. CASE m = o
      <4> DEFINE e == m.size + more
      <4>1. fl[m] = [m EXCEPT !.size = e]
        BY <3>2
      <4> HIDE DEF more, fl
      <4>2. e \in Int /\ m.size <= e
        BY <1>3, <3>1
      <4> HIDE DEF e
      <4>3. QED
        BY <3>1, <4>1, <4>2, LvChanged
    <3>3. CASE m # o
      <4>1. fl[m] = m
        BY <3>3
      <4>2. LvAfter(m, m)
        BY LaterSame, MachineBecame DEF Became
      <4> HIDE DEF fl
      <4>3. QED
        BY <3>1, <4>1, <4>2
    <3>4. QED
      BY <3>2, <3>3
  <2>2. fl = [l \in h.lvs |-> fl[l]]
    OBVIOUS
  <2>3. k.lvs = Image(fl, h.lvs)
    BY <1>2 DEF Image
  <2> HIDE DEF fl, k
  <2>4. LvsChange(h, fl)
    BY <2>1, <2>2 DEF LvsChange
  <2>5. QED
    BY <2>3, <2>4, LvsChanged
<1>7. VgsKept(h, k.vgs)
  <2>1. ASSUME NEW f \in h.vgs
        PROVE  IsRecord(fg[f], VgFields) /\ fg[f].extent \in Nat /\ VgAfter(f, fg[f])
    <3>1. IsRecord(f, VgFields) /\ f.extent \in Nat
      BY DEF Sound
    <3>2. CASE f = g
      <4>1. /\ fg[f] = [x \in DOMAIN f |-> fg[f][x]]
            /\ \A x \in DOMAIN f \ {"free", "extents"} : fg[f][x] = f[x]
        BY <3>2
      <4> HIDE DEF fg
      <4>2. QED
        BY <3>1, <4>1, VgSpent
    <3>3. CASE f # g
      BY <3>1, <3>3 DEF VgAfter
    <3>4. QED
      BY <3>2, <3>3
  <2>2. fg = [f \in h.vgs |-> fg[f]]
    OBVIOUS
  <2>3. k.vgs = Image(fg, h.vgs)
    BY <1>2 DEF Image
  <2> HIDE DEF fg, k
  <2>4. VgsChange(h, fg)
    BY <2>1, <2>2 DEF VgsChange
  <2>5. QED
    BY <2>3, <2>4, VgsChanged
<1>8. TablesKept(h, h.tables)
  BY SameKept
<1> HIDE DEF k, fp, fg, fl, fn
<1>9. Kept(h, k)
  BY <1>2, <1>4, <1>5, <1>6, <1>7, <1>8 DEF Kept
<1>10. QED
  BY <1>9 DEF k

(* A change of nothing but the block devices and of what no plan copies.   *)
LEMMA NodesKept ==
  ASSUME NEW h, Sound(h), NEW k, DOMAIN k = DOMAIN h, IsFiniteSet(k.nodes),
         k.tables = h.tables, k.pvs = h.pvs, k.vgs = h.vgs, k.lvs = h.lvs
  PROVE  Kept(h, k)
BY SameKept DEF Kept

(* Changes of mounts, of tools and of what can be read at all (Remounted,  *)
(* ToolsRemoved, Faltering, Recovered).                                    *)
LEMMA PlainKept ==
  ASSUME NEW h, Sound(h)
  PROVE  /\ Kept(h, h) /\ Kept(h, Remounted(h)) /\ Kept(h, ToolsRemoved(h))
         /\ Kept(h, Faltering(h)) /\ Kept(h, Recovered(h))
<1>1. /\ {"nodes", "tables", "pvs", "vgs", "lvs"} \subseteq DOMAIN h
      /\ IsFiniteSet(h.nodes)
  BY DEF Sound
<1>2. Kept(h, h)
  BY <1>1, NodesKept
<1>3. Kept(h, Remounted(h))
  <2> DEFINE k == Remounted(h)
  <2>1. /\ DOMAIN k = DOMAIN h /\ k.nodes = h.nodes /\ k.tables = h.tables
        /\ k.pvs = h.pvs /\ k.vgs = h.vgs /\ k.lvs = h.lvs
    BY <1>1 DEF Remounted
  <2> HIDE DEF k
  <2>2. Kept(h, k)
    BY <1>1, <2>1, NodesKept
  <2>3. QED
    BY <2>2 DEF k
<1>4. Kept(h, ToolsRemoved(h))
  <2> DEFINE k == ToolsRemoved(h)
  <2>1. /\ DOMAIN k = DOMAIN h /\ k.nodes = h.nodes /\ k.tables = h.tables
        /\ k.pvs = h.pvs /\ k.vgs = h.vgs /\ k.lvs = h.lvs
    BY <1>1 DEF ToolsRemoved
  <2> HIDE DEF k
  <2>2. Kept(h, k)
    BY <1>1, <2>1, NodesKept
  <2>3. QED
    BY <2>2 DEF k
<1>5. Kept(h, Faltering(h))
  <2> DEFINE k == Faltering(h)
  <2>1. /\ DOMAIN k = DOMAIN h /\ k.nodes = h.nodes /\ k.tables = h.tables
        /\ k.pvs = h.pvs /\ k.vgs = h.vgs /\ k.lvs = h.lvs
    BY <1>1 DEF Faltering
  <2> HIDE DEF k
  <2>2. Kept(h, k)
    BY <1>1, <2>1, NodesKept
  <2>3. QED
    BY <2>2 DEF k
<1>6. Kept(h, Recovered(h))
  <2> DEFINE k == Recovered(h)
  <2>1. /\ DOMAIN k = DOMAIN h /\ k.nodes = h.nodes /\ k.tables = h.tables
        /\ k.pvs = h.pvs /\ k.vgs = h.vgs /\ k.lvs = h.lvs
    BY <1>1 DEF Recovered
  <2> HIDE DEF k
  <2>2. Kept(h, k)
    BY <1>1, <2>1, NodesKept
  <2>3. QED
    BY <2>2 DEF k
<1>7. QED
  BY <1>2, <1>3, <1>4, <1>5, <1>6

(* Some devices get other records.                                         *)
LEMMA RelabelledFinite ==
  ASSUME NEW N, IsFiniteSet(N), NEW S \in SUBSET N, NEW f, f = [n \in S |-> f[n]]
  PROVE  IsFiniteSet((N \ S) \cup {f[n] : n \in S})
<1>1. IsFiniteSet(S) /\ IsFiniteSet(N \ S)
  BY FS_Subset
<1>2. IsFiniteSet({f[n] : n \in S})
  BY <1>1, FiniteImage
<1>3. QED
  BY <1>1, <1>2, FS_Union

(* Another file system on an unmounted node (Reformatted).                 *)
LEMMA ReformattedKept ==
  ASSUME NEW h, Sound(h)
  PROVE  Kept(h, Reformatted(h))
<1> DEFINE k == Reformatted(h)
           old == {n \in h.nodes : n.fs \in GrowableFs /\ n.mounts = {}}
           f == [n \in old |-> [n EXCEPT !.uuid = "other"]]
<1>1. {"nodes", "tables", "pvs", "vgs", "lvs"} \subseteq DOMAIN h /\ IsFiniteSet(h.nodes)
  BY DEF Sound
<1>2. /\ DOMAIN k = DOMAIN h /\ k.nodes = (h.nodes \ old) \cup {f[n] : n \in old}
      /\ k.tables = h.tables /\ k.pvs = h.pvs /\ k.vgs = h.vgs /\ k.lvs = h.lvs
  BY <1>1 DEF Reformatted
<1>3. f = [n \in old |-> f[n]] /\ old \in SUBSET h.nodes
  OBVIOUS
<1> HIDE DEF k, old, f
<1>4. IsFiniteSet(k.nodes)
  BY <1>1, <1>2, <1>3, RelabelledFinite
<1>5. Kept(h, k)
  BY <1>2, <1>4, NodesKept
<1>6. QED
  BY <1>5 DEF k

(* A file system on a bare node (Claimed).                                 *)
LEMMA ClaimedKept ==
  ASSUME NEW h, Sound(h), NEW mounts
  PROVE  Kept(h, Claimed(h, mounts))
<1> DEFINE k == Claimed(h, mounts)
           bare == {n \in h.nodes :
                      /\ n.kind \in {"disk", "partition"} /\ ChildrenOf(h, n) = {}
                      /\ n.fs = None /\ n.label = None
                      /\ \A t \in h.tables : \A x \in ExtendedOf(t) : x.node # n.path}
           f == [n \in bare |-> [n EXCEPT !.fs = "xfs", !.uuid = "other", !.mounts = mounts]]
<1>1. {"nodes", "tables", "pvs", "vgs", "lvs"} \subseteq DOMAIN h /\ IsFiniteSet(h.nodes)
  BY DEF Sound
<1>2. /\ DOMAIN k = DOMAIN h /\ k.nodes = (h.nodes \ bare) \cup {f[n] : n \in bare}
      /\ k.tables = h.tables /\ k.pvs = h.pvs /\ k.vgs = h.vgs /\ k.lvs = h.lvs
  BY <1>1 DEF Claimed
<1>3. f = [n \in bare |-> f[n]] /\ bare \in SUBSET h.nodes
  OBVIOUS
<1> HIDE DEF k, bare, f
<1>4. IsFiniteSet(k.nodes)
  BY <1>1, <1>2, <1>3, RelabelledFinite
<1>5. Kept(h, k)
  BY <1>2, <1>4, NodesKept
<1>6. QED
  BY <1>5 DEF k

(* Somebody extends a logical volume of the group (GrownElsewhere).        *)
LEMMA GrownKept ==
  ASSUME NEW h, Sound(h)
  PROVE  Kept(h, GrownElsewhere(h))
<1> DEFINE ls == {l \in h.lvs : \E g \in GroupOf(h, l) : g.extents > 0}
           o == CHOOSE l \in ls : TRUE
<1>1. CASE ls = {}
  <2>1. GrownElsewhere(h) = h
    BY <1>1 DEF GrownElsewhere
  <2>2. QED
    BY <2>1, PlainKept
<1>2. CASE ls # {}
  <2>1. GrownElsewhere(h) = LvExtended(h, o, 1)
    BY <1>2 DEF GrownElsewhere
  <2>2. o \in ls
    BY <1>2
  <2> HIDE DEF o
  <2>3. o \in h.lvs /\ GroupOf(h, o) # {}
    BY <2>2
  <2>4. QED
    BY <2>1, <2>3, LvExtendedKept
<1>3. QED
  BY <1>1, <1>2

(* A table with more partitions in it.                                     *)
LEMMA TableFilled ==
  ASSUME NEW t, IsRecord(t, TableFields), NEW Q
  PROVE  LET u == [t EXCEPT !.parts = @ \cup Q] IN
         IsRecord(u, TableFields) /\ TableAfter(t, u)
<1> DEFINE u == [t EXCEPT !.parts = @ \cup Q]
<1>1. t = [device |-> t.device, label |-> t.label, first |-> t.first, last |-> t.last,
           sector |-> t.sector, parts |-> t.parts]
  <2>1. t = [x \in TableFields |-> t[x]]
    BY DEF IsRecord
  <2>2. QED
    BY <2>1 DEF TableFields
<1>2. u = [device |-> t.device, label |-> t.label, first |-> t.first, last |-> t.last,
           sector |-> t.sector, parts |-> t.parts \cup Q]
  BY <1>1
<1>3. IsRecord(u, TableFields)
  BY <1>2 DEF IsRecord, TableFields
<1>4. QED
  BY <1>2, <1>3 DEF TableAfter

(* Somebody adds a partition behind another (Neighbour).                   *)
LEMMA NeighbourKept ==
  ASSUME NEW h, Sound(h), NEW last
  PROVE  Kept(h, Neighbour(h, last))
<1> DEFINE Pick(starts) == IF last THEN Max(starts) ELSE Min(starts)
           Behind(t) ==
             {p \in t.parts : /\ AdjacentProvable(The(NodesAt(h, t.device)), t, p)
                              /\ AdjacentFree(The(NodesAt(h, t.device)), t, p) > 0}
           Picked(t) == CHOOSE p \in Behind(t) : p.start = Pick({q.start : q \in Behind(t)})
           T == {u \in h.tables : Behind(u) # {}}
           new == {<<t, Picked(t)>> : t \in T}
           Q(t) == {[node |-> "other", start |-> EndOf(x[2]), size |-> 1, type |-> "linux",
                     uuid |-> "other"] : x \in {y \in new : y[1] = t}}
           N(x) == [path |-> "other", kind |-> "partition", parent |-> x[1].device,
                    size |-> x[1].sector, start |-> EndOf(x[2]) * x[1].sector,
                    sector |-> x[1].sector, fs |-> None, uuid |-> None,
                    partuuid |-> "other", mounts |-> {}, label |-> None]
           k == Neighbour(h, last)
<1>1. /\ {"nodes", "tables", "pvs", "vgs", "lvs"} \subseteq DOMAIN h
      /\ IsFiniteSet(h.nodes) /\ IsFiniteSet(h.tables)
  BY DEF Sound
<1>2. k = [h EXCEPT !.tables = {[t EXCEPT !.parts = @ \cup Q(t)] : t \in h.tables},
                    !.nodes = @ \cup {N(x) : x \in new}]
  BY DEF Neighbour
<1>3. IsFiniteSet(new)
  <2> HIDE DEF Picked, T
  <2> DEFINE f == [t \in T |-> <<t, Picked(t)>>]
  <2>1. new = {f[t] : t \in T}
    OBVIOUS
  <2>2. f = [t \in T |-> f[t]]
    OBVIOUS
  <2>3. IsFiniteSet(T)
    <3>1. T \in SUBSET h.tables
      BY DEF T
    <3>2. QED
      BY <1>1, <3>1, FS_Subset
  <2> HIDE DEF f, new
  <2>4. QED
    BY <2>1, <2>2, <2>3, FiniteImage
<1> HIDE DEF new, Q, N, k
<1>4. /\ DOMAIN k = DOMAIN h
      /\ k.tables = {[t EXCEPT !.parts = @ \cup Q(t)] : t \in h.tables}
      /\ k.nodes = h.nodes \cup {N(x) : x \in new}
      /\ k.pvs = h.pvs /\ k.vgs = h.vgs /\ k.lvs = h.lvs
  BY <1>1, <1>2
<1>5. IsFiniteSet(k.nodes)
  <2> DEFINE f == [x \in new |-> N(x)]
  <2>1. {N(x) : x \in new} = {f[x] : x \in new}
    OBVIOUS
  <2>2. f = [x \in new |-> f[x]]
    OBVIOUS
  <2> HIDE DEF f
  <2>3. IsFiniteSet({f[x] : x \in new})
    BY <1>3, <2>2, FiniteImage
  <2>4. IsFiniteSet({N(x) : x \in new})
    BY <2>1, <2>3
  <2> DEFINE S == {N(x) : x \in new}
  <2>5. k.nodes = h.nodes \cup S
    BY <1>4
  <2> HIDE DEF S
  <2>6. IsFiniteSet(S)
    BY <2>4 DEF S
  <2>7. QED
    BY <1>1, <2>5, <2>6, FS_Union
<1>6. TablesKept(h, k.tables)
  <2> DEFINE f == [t \in h.tables |-> [t EXCEPT !.parts = @ \cup Q(t)]]
  <2>1. k.tables = {f[t] : t \in h.tables}
    BY <1>4
  <2>2. f = [t \in h.tables |-> f[t]]
    OBVIOUS
  <2>3. ASSUME NEW t \in h.tables
        PROVE  IsRecord(f[t], TableFields) /\ TableAfter(t, f[t])
    <3>1. IsRecord(t, TableFields)
      BY DEF Sound
    <3>2. f[t] = [t EXCEPT !.parts = @ \cup Q(t)]
      OBVIOUS
    <3> HIDE DEF f
    <3>3. QED
      BY <3>1, <3>2, TableFilled
  <2> HIDE DEF f
  <2>4. IsFiniteSet(k.tables)
    BY <1>1, <2>1, <2>2, FiniteImage
  <2>5. \A u \in k.tables : IsRecord(u, TableFields)
    BY <2>1, <2>3
  <2>6. \A t \in h.tables : \E u \in k.tables : TableAfter(t, u)
    BY <2>1, <2>3
  <2>7. QED
    BY <2>4, <2>5, <2>6 DEF TablesKept
<1>7. Kept(h, k)
  BY <1>4, <1>5, <1>6, SameKept DEF Kept
<1>8. QED
  BY <1>7 DEF k

(* Whatever the others do, the machine is a later state of itself.         *)
LEMMA MeddleLater ==
  ASSUME Sound(host), Meddle
  PROVE  Sound(host') /\ Later(host, host') /\ was' = host
<1>1. \/ host' = Neighbour(host, FALSE) \/ host' = Neighbour(host, TRUE)
      \/ host' = Competitor(host) \/ host' = GrownElsewhere(host)
      \/ host' = Remounted(host) \/ host' = Reformatted(host)
      \/ host' = ToolsRemoved(host) \/ host' = Faltering(host)
      \/ host' = Recovered(host) \/ host' = Claimed(host, {})
      \/ host' = Claimed(host, {"/srv"})
  BY DEF Meddle
<1>2. PICK k : host' = k
  OBVIOUS
<1>3. Kept(host, k)
  BY <1>1, <1>2, NeighbourKept, CompetitorKept, GrownKept, PlainKept, ReformattedKept,
     ClaimedKept, Zenon
<1>4. Sound(k) /\ Later(host, k)
  BY <1>3, KeptLater
<1>5. QED
  BY <1>2, <1>4 DEF Meddle

(* A session starts on a sound machine.                                    *)
LEMMA HostsSound ==
  ASSUME NEW h \in Hosts
  PROVE  Sound(h)
<1>1. IsMachine(h)
  BY HostsAssumption
<1>2. /\ {"nodes", "tables", "pvs", "vgs", "lvs"} \subseteq DOMAIN h
      /\ IsFiniteSet(h.nodes) /\ IsFiniteSet(h.tables)
  <2>1. IsRecord(h, {"nodes", "tables", "mounts", "swaps", "fstab", "pvs", "vgs", "lvs",
                     "filesystems", "broken", "tools", "resume", "room", "files"})
    BY <1>1 DEF IsMachine
  <2>2. QED
    BY <1>1, <2>1 DEF IsMachine, IsRecord
<1>3. IsLvm(h) /\ \A t \in h.tables : IsTable(t)
  BY <1>1 DEF IsMachine
<1>4. IsFiniteSet(h.pvs) /\ IsFiniteSet(h.vgs) /\ IsFiniteSet(h.lvs)
  BY <1>3 DEF IsLvm
<1>5. \A v \in h.pvs : IsRecord(v, PvFields) /\ v.free \in Int
  BY <1>3 DEF IsLvm, PvFields
<1>6. \A g \in h.vgs : IsRecord(g, VgFields) /\ g.extent \in Nat
  BY <1>3 DEF IsLvm, VgFields
<1>7. \A l \in h.lvs : IsRecord(l, LvFields) /\ l.size \in Int
  BY <1>3 DEF IsLvm, LvFields
<1>8. \A t \in h.tables : IsRecord(t, TableFields)
  BY <1>3 DEF IsTable, TableFields
<1>9. /\ \A v, w \in h.pvs : v.name = w.name => v = w
      /\ \A l, k \in h.lvs : l.path = k.path => l = k
  BY <1>3 DEF IsLvm
<1>10. QED
  BY <1>2, <1>4, <1>5, <1>6, <1>7, <1>8, <1>9 DEF Sound

-----------------------------------------------------------------------------
(* Where a plan has the operands of its steps from.                        *)

(* "Exactly one record" is the one that was found.                         *)
LEMMA OnlyOne ==
  ASSUME NEW S, IsFiniteSet(S), Unique(S)
  PROVE  The(S) \in S /\ \A x \in S : x = The(S)
<1>1. PICK y : S = {y}
  BY FS_Singleton DEF Unique
<1>2. QED
  BY <1>1 DEF The

(* A function of the numbers up to n is a sequence.                        *)
LEMMA TupleIsSeq ==
  ASSUME NEW q, NEW n \in Nat, q = [i \in 1..n |-> q[i]]
  PROVE  IsSeq(q)
<1> DEFINE S == {q[i] : i \in DOMAIN q}
<1>1. q \in [1..n -> S]
  OBVIOUS
<1> HIDE DEF S
<1>2. q \in Seq(S)
  BY <1>1
<1>3. QED
  BY <1>2 DEF IsSeq, S

(* What a volume stands on is in the identity of the target.               *)
LEMMA StackIs ==
  ASSUME NEW s, Readable(s), NEW n, Unique(LvsOn(s, n)),
         NEW l \in LvsOn(s, n), SinglePvGroup(s, n, l), n.kind = "lvm"
  PROVE  LET k == LvmStack(s, n)
             lvm == LvmIdentity(s, ChainOf(s, n)) IN
         /\ k.g \in s.vgs /\ k.v \in lvm.pvs /\ k.l \in lvm.lvs
         /\ k.v.vg = k.g.name /\ k.l.vg = k.g.name
<1> DEFINE k == LvmStack(s, n)
<1>1. /\ IsFiniteSet(s.nodes) /\ IsFiniteSet(s.pvs) /\ IsFiniteSet(s.vgs)
      /\ IsFiniteSet(s.lvs)
  BY DEF Readable
<1>2. k.l = The(LvsOn(s, n)) /\ k.g = The(GroupOf(s, k.l)) /\ k.v = The(PvsOf(s, k.g))
  BY DEF LvmStack
<1>3. l = k.l
  <2>1. LvsOn(s, n) \in SUBSET s.lvs
    BY DEF LvsOn
  <2>2. IsFiniteSet(LvsOn(s, n))
    BY <1>1, <2>1, FS_Subset
  <2>3. QED
    BY <1>2, <2>2, OnlyOne
<1>4. PICK g \in GroupOf(s, l) :
        /\ Unique(PvsOf(s, g))
        /\ \E v \in PvsOf(s, g) :
             \E b \in BackingOf(s, v) : Above(s, b, n) /\ b.fs = "LVM2_member"
  BY DEF SinglePvGroup
<1>5. g = k.g /\ g \in s.vgs /\ l.vg = g.name
  <2>1. GroupOf(s, l) \in SUBSET s.vgs
    BY DEF GroupOf
  <2>2. IsFiniteSet(GroupOf(s, l))
    BY <1>1, <2>1, FS_Subset
  <2>3. Unique(GroupOf(s, l))
    BY DEF SinglePvGroup
  <2>4. g = The(GroupOf(s, l))
    BY <2>2, <2>3, OnlyOne
  <2>5. QED
    BY <1>2, <1>3, <2>4 DEF GroupOf
<1>6. PICK v \in PvsOf(s, g) :
        \E b \in BackingOf(s, v) : Above(s, b, n) /\ b.fs = "LVM2_member"
  BY <1>4
<1>7. v = k.v /\ v \in s.pvs /\ v.vg = g.name
  <2>1. PvsOf(s, g) \in SUBSET s.pvs
    BY DEF PvsOf
  <2>2. IsFiniteSet(PvsOf(s, g))
    BY <1>1, <2>1, FS_Subset
  <2>3. v = The(PvsOf(s, g))
    BY <1>4, <2>2, OnlyOne
  <2>4. QED
    BY <1>2, <1>5, <2>3 DEF PvsOf
<1>8. PICK b \in BackingOf(s, v) : Above(s, b, n) /\ b.fs = "LVM2_member"
  BY <1>6
<1>9. v \in LvmIdentity(s, ChainOf(s, n)).pvs
  <2>1. b \in ChainOf(s, n) /\ b.fs = "LVM2_member" /\ v.name = b.path
    BY <1>8 DEF Above, BackingOf, NodesAt
  <2>2. QED
    BY <1>7, <2>1 DEF LvmIdentity
<1>10. l \in LvmIdentity(s, ChainOf(s, n)).lvs
  <2>1. n \in ChainOf(s, n)
    BY <1>1, OwnChain
  <2>2. l \in s.lvs /\ l.path = n.path
    BY DEF LvsOn
  <2>3. QED
    BY <2>1, <2>2 DEF LvmIdentity
<1> HIDE DEF k
<1>11. /\ k.g \in s.vgs /\ k.v \in LvmIdentity(s, ChainOf(s, n)).pvs
       /\ k.l \in LvmIdentity(s, ChainOf(s, n)).lvs
       /\ k.v.vg = k.g.name /\ k.l.vg = k.g.name
  BY <1>3, <1>5, <1>7, <1>9, <1>10
<1>12. QED
  BY <1>11 DEF k

(* The record of a partition is in the table of its disk.                  *)
LEMMA RecordIs ==
  ASSUME NEW s, Readable(s), NEW n, RecordAgrees(s, n)
  PROVE  /\ TableOf(s, n) \in s.tables /\ TableOf(s, n).device = DiskOf(s, n).path
         /\ RecordOf(s, n) \in TableOf(s, n).parts
<1>1. IsFiniteSet(s.nodes) /\ IsFiniteSet(s.tables)
  BY DEF Readable
<1>2. PICK disk \in ParentsOf(s, n) :
        /\ Unique(TablesOf(s, disk.path))
        /\ \E t \in TablesOf(s, disk.path) : RecordsOf(t, n.path) # {}
  BY DEF RecordAgrees
<1>3. disk = DiskOf(s, n)
  <2>1. ParentsOf(s, n) \in SUBSET s.nodes
    BY DEF ParentsOf
  <2>2. IsFiniteSet(ParentsOf(s, n)) /\ Unique(ParentsOf(s, n))
    BY <1>1, <2>1, FS_Subset DEF RecordAgrees
  <2>3. QED
    BY <2>2, OnlyOne DEF DiskOf
<1>4. PICK t \in TablesOf(s, disk.path) : RecordsOf(t, n.path) # {}
  BY <1>2
<1>5. t = TableOf(s, n)
  <2>1. TablesOf(s, disk.path) \in SUBSET s.tables
    BY DEF TablesOf
  <2>2. IsFiniteSet(TablesOf(s, disk.path))
    BY <1>1, <2>1, FS_Subset
  <2>3. QED
    BY <1>2, <1>3, <2>2, OnlyOne DEF TableOf
<1>6. t \in s.tables /\ t.device = DiskOf(s, n).path
  BY <1>3, <1>4 DEF TablesOf
<1>7. RecordOf(s, n) \in RecordsOf(t, n.path)
  BY <1>4, <1>5 DEF RecordOf, The
<1>8. QED
  BY <1>5, <1>6, <1>7 DEF RecordsOf

(* A step that changes none of the layers has no operand.                  *)
LEMMA NoOperand ==
  ASSUME NEW p, NEW x, x.op \notin {"extend_partition", "resize_pv", "extend_lv"}
  PROVE  Sourced(p, x)
  BY DEF Sourced

(* A growth of a partition names the record in the table of its disk.      *)
LEMMA PartitionSourced ==
  ASSUME NEW s, Readable(s), NEW req, PartitionCandidate(s, req).answer = "ok"
  PROVE  PlanSourced(Preview(s, req, PartitionCandidate(s, req)))
<1> DEFINE n == DeviceOf(s, req.target)
           t == TableOf(s, n)
           q == RecordOf(s, n)
           o == PartitionCandidate(s, req)
           p == Preview(s, req, o)
<1>1. /\ RecordAgrees(s, n)
      /\ o = PartitionOffer(req, n, MountpointOf(s, req.target), DiskOf(s, n), t, q)
  BY DEF PartitionCandidate, PartitionReady, Refused
<1>2. PICK sectors, fs, at :
        o.steps = <<Revalidate, BackupTable(t.device), ExtendPartition(q, sectors, t.sector),
                    GrowFs(fs, at), Verify>>
  <2> HIDE DEF n, t, q, o
  <2>1. QED
    BY <1>1 DEF PartitionOffer, Offer, Refused, Short, o
<1>3. t \in s.tables /\ q \in t.parts
  BY <1>1, RecordIs
<1> HIDE DEF n, t, q, o
<1>4. p.basis = s /\ p.steps = o.steps
  BY DEF Preview
<1> HIDE DEF p
<1>5. /\ DOMAIN p.steps = 1..5 /\ p.steps = [i \in 1..5 |-> p.steps[i]]
      /\ p.steps[1].op = "revalidate" /\ p.steps[2] = BackupTable(t.device)
      /\ p.steps[3] = ExtendPartition(q, sectors, t.sector)
      /\ p.steps[4].op = "grow_fs" /\ p.steps[5].op = "verify"
  BY <1>2, <1>4 DEF Revalidate, Verify, GrowFs
<1>6. IsSeq(p.steps)
  BY <1>5, TupleIsSeq
<1>7. BackupTable(t.device) \in BackupSteps(p)
  BY <1>5 DEF BackupSteps, BackupTable
<1>8. Sourced(p, p.steps[3])
  <2>1. /\ p.steps[3].op = "extend_partition" /\ p.steps[3].node = q.node
        /\ p.steps[3].start = q.start /\ p.steps[3].old = q.size
    BY <1>5 DEF ExtendPartition
  <2>2. QED
    BY <1>3, <1>4, <1>7, <2>1 DEF Sourced
<1>9. \A i \in {1, 2, 4, 5} : Sourced(p, p.steps[i])
  <2>1. \A i \in {1, 2, 4, 5} :
        p.steps[i].op \notin {"extend_partition", "resize_pv", "extend_lv"}
    BY <1>5 DEF BackupTable
  <2>2. QED
    BY <2>1, NoOperand
<1>10. \A i \in 1..5 : Sourced(p, p.steps[i])
  <2>1. \A i \in 1..5 : i = 3 \/ i \in {1, 2, 4, 5}
    OBVIOUS
  <2>2. QED
    BY <1>8, <1>9, <2>1
<1>11. QED
  BY <1>5, <1>6, <1>10 DEF PlanSourced, p, o

(* A growth of a filesystem alone changes nothing a backup could restore.  *)
LEMMA WholeSourced ==
  ASSUME NEW s, NEW req, WholeCandidate(s, req).answer = "ok"
  PROVE  PlanSourced(Preview(s, req, WholeCandidate(s, req)))
<1> DEFINE o == WholeCandidate(s, req)
           p == Preview(s, req, o)
<1>1. PICK fs, at : o.steps = <<Revalidate, GrowFs(fs, at), Verify>>
  <2>1. PICK n, at, e : o = WholeOffer(req, n, at, e)
    BY DEF WholeCandidate, Refused
  <2> HIDE DEF o
  <2>2. QED
    BY <2>1 DEF WholeOffer, Offer, Refused, o
<1> HIDE DEF o
<1>2. p.steps = o.steps
  BY DEF Preview
<1> HIDE DEF p
<1>3. /\ DOMAIN p.steps = 1..3 /\ p.steps = [i \in 1..3 |-> p.steps[i]]
      /\ p.steps[1].op = "revalidate" /\ p.steps[2].op = "grow_fs" /\ p.steps[3].op = "verify"
  BY <1>1, <1>2 DEF Revalidate, Verify, GrowFs
<1>4. IsSeq(p.steps)
  BY <1>3, TupleIsSeq
<1>5. \A i \in {1, 2, 3} : Sourced(p, p.steps[i])
  <2>1. \A i \in {1, 2, 3} :
        p.steps[i].op \notin {"extend_partition", "resize_pv", "extend_lv"}
    BY <1>3
  <2>2. QED
    BY <2>1, NoOperand
<1>6. 1..3 = {1, 2, 3}
  OBVIOUS
<1>7. QED
  BY <1>3, <1>4, <1>5, <1>6 DEF PlanSourced, p, o

(* A growth of a volume names the volume of the target and its group.      *)
LEMMA LvmSourced ==
  ASSUME NEW s, Readable(s), NEW req, LvmCandidate(s, req).answer = "ok"
  PROVE  PlanSourced(Preview(s, req, LvmCandidate(s, req)))
<1> DEFINE n == DeviceOf(s, req.target)
           k == LvmStack(s, n)
           o == LvmCandidate(s, req)
           p == Preview(s, req, o)
           lvm == LvmIdentity(s, ChainOf(s, n))
<1>1. /\ ProfileOf(s, req.target) = "lvm"
      /\ LvmReady(s, n, MountpointOf(s, req.target))
      /\ o = LvmOffer(req, n, MountpointOf(s, req.target), k.l, k.g)
  BY DEF LvmCandidate, Refused
<1>2. n.kind = "lvm"
  BY <1>1 DEF ProfileOf
<1>3. k.g \in s.vgs /\ k.l \in lvm.lvs /\ k.l.vg = k.g.name
  <2>1. PICK l \in LvsOn(s, n) : SinglePvGroup(s, n, l)
    BY <1>1 DEF LvmReady
  <2>2. Unique(LvsOn(s, n))
    BY <1>1 DEF LvmReady
  <2> HIDE DEF n
  <2>3. QED
    BY <1>2, <2>1, <2>2, StackIs
<1>4. PICK extents, fs, at :
        o.steps = <<Revalidate, BackupLvm(k.g.uuid), ExtendLv(k.l, extents, k.g.extent),
                    GrowFs(fs, at), Verify>>
  <2> HIDE DEF n, k, o
  <2>1. QED
    BY <1>1 DEF LvmOffer, Offer, Short, o
<1>5. p.basis = s /\ p.req = req /\ p.steps = o.steps
  BY DEF Preview
<1> HIDE DEF k, o, p
<1>6. /\ DOMAIN p.steps = 1..5 /\ p.steps = [i \in 1..5 |-> p.steps[i]]
      /\ p.steps[1].op = "revalidate" /\ p.steps[2] = BackupLvm(k.g.uuid)
      /\ p.steps[3].op = "extend_lv" /\ p.steps[3].lv = k.l.uuid
      /\ p.steps[4].op = "grow_fs" /\ p.steps[5].op = "verify"
  BY <1>4, <1>5 DEF Revalidate, Verify, GrowFs, ExtendLv
<1>7. IsSeq(p.steps)
  BY <1>6, TupleIsSeq
<1>8. BackupLvm(k.g.uuid) \in BackupSteps(p)
  BY <1>6 DEF BackupSteps, BackupLvm
<1>9. Sourced(p, p.steps[3])
  BY <1>3, <1>5, <1>6, <1>8 DEF Sourced
<1>10. \A i \in {1, 2, 4, 5} : Sourced(p, p.steps[i])
  <2>1. \A i \in {1, 2, 4, 5} :
        p.steps[i].op \notin {"extend_partition", "resize_pv", "extend_lv"}
    BY <1>6 DEF BackupLvm
  <2>2. QED
    BY <2>1, NoOperand
<1>11. \A i \in 1..5 : i = 3 \/ i \in {1, 2, 4, 5}
  OBVIOUS
<1>12. QED
  BY <1>6, <1>7, <1>9, <1>10, <1>11 DEF PlanSourced, p, o

(* Steps that are put together from parts.                                 *)
LEMMA Joined ==
  ASSUME NEW a, NEW b, NEW c, NEW d, NEW e, NEW f, NEW g, NEW h
  PROVE  /\ <<a, b>> \o <<c, d>> \o <<e, f, g, h>> = <<a, b, c, d, e, f, g, h>>
         /\ <<a, b>> \o <<>> \o <<e, f, g, h>> = <<a, b, e, f, g, h>>
<1> DEFINE X == {a, b, c, d, e, f, g, h}
           p == <<a, b>>
           q == <<c, d>>
           r == <<e, f, g, h>>
<1>1. p \in Seq(X) /\ q \in Seq(X) /\ r \in Seq(X) /\ <<>> \in Seq(X)
  OBVIOUS
<1>2. /\ Len(p) = 2 /\ p[1] = a /\ p[2] = b /\ Len(q) = 2 /\ q[1] = c /\ q[2] = d
      /\ Len(r) = 4 /\ r[1] = e /\ r[2] = f /\ r[3] = g /\ r[4] = h
  OBVIOUS
<1> HIDE DEF X, p, q, r
<1> DEFINE u == p \o q
           v == u \o r
           w == p \o r
<1>3. /\ u \in Seq(X) /\ Len(u) = 4
      /\ \A i \in 1..4 : u[i] = IF i <= 2 THEN p[i] ELSE q[i - 2]
  <2>1. /\ u \in Seq(X) /\ Len(u) = Len(p) + Len(q)
        /\ \A i \in 1..(Len(p) + Len(q)) :
             u[i] = IF i <= Len(p) THEN p[i] ELSE q[i - Len(p)]
    BY <1>1, ConcatProperties
  <2>2. Len(p) = 2 /\ Len(q) = 2 /\ Len(p) + Len(q) = 4
    BY <1>2
  <2>3. QED
    BY <2>1, <2>2
<1>4. /\ w \in Seq(X) /\ Len(w) = 6
      /\ \A i \in 1..6 : w[i] = IF i <= 2 THEN p[i] ELSE r[i - 2]
  <2>1. /\ w \in Seq(X) /\ Len(w) = Len(p) + Len(r)
        /\ \A i \in 1..(Len(p) + Len(r)) :
             w[i] = IF i <= Len(p) THEN p[i] ELSE r[i - Len(p)]
    BY <1>1, ConcatProperties
  <2>2. Len(p) = 2 /\ Len(r) = 4 /\ Len(p) + Len(r) = 6
    BY <1>2
  <2>3. QED
    BY <2>1, <2>2
<1> HIDE DEF u, w
<1>5. /\ v \in Seq(X) /\ Len(v) = 8
      /\ \A i \in 1..8 : v[i] = IF i <= 4 THEN u[i] ELSE r[i - 4]
  <2>1. /\ v \in Seq(X) /\ Len(v) = Len(u) + Len(r)
        /\ \A i \in 1..(Len(u) + Len(r)) :
             v[i] = IF i <= Len(u) THEN u[i] ELSE r[i - Len(u)]
    BY <1>1, ConcatProperties, <1>3
  <2>2. Len(u) = 4 /\ Len(r) = 4 /\ Len(u) + Len(r) = 8
    BY <1>2, <1>3
  <2>3. QED
    BY <2>1, <2>2
<1> HIDE DEF v
<1>6. u[1] = a /\ u[2] = b /\ u[3] = c /\ u[4] = d
  BY <1>2, <1>3
<1>7. /\ v[1] = a /\ v[2] = b /\ v[3] = c /\ v[4] = d
      /\ v[5] = e /\ v[6] = f /\ v[7] = g /\ v[8] = h
  BY <1>2, <1>5, <1>6
<1>8. w[1] = a /\ w[2] = b /\ w[3] = e /\ w[4] = f /\ w[5] = g /\ w[6] = h
  BY <1>2, <1>4
<1>9. v = <<a, b, c, d, e, f, g, h>>
  <2>1. v = [i \in 1..8 |-> v[i]]
    BY <1>5
  <2>2. QED
    BY <1>7, <2>1
<1>10. w = <<a, b, e, f, g, h>>
  <2>1. w = [i \in 1..6 |-> w[i]]
    BY <1>4
  <2>2. QED
    BY <1>8, <2>1
<1>11. p \o <<>> = p
  BY <1>1, ConcatEmptySeq
<1>12. QED
  BY <1>9, <1>10, <1>11 DEF u, v, w, p, q, r

(* A route from underneath names the volume, its group, its physical       *)
(* volume and, where it grows it, the partition under that one.            *)
LEMMA UnderlyingSourced ==
  ASSUME NEW s, Readable(s), NEW req, UnderlyingCandidate(s, req).answer = "ok"
  PROVE  PlanSourced(Preview(s, req, UnderlyingCandidate(s, req)))
<1> DEFINE n == DeviceOf(s, req.target)
           at == MountpointOf(s, req.target)
           k == LvmStack(s, n)
           o == UnderlyingCandidate(s, req)
           p == Preview(s, req, o)
           lvm == LvmIdentity(s, ChainOf(s, n))
           extents == UnderlyingExtents(s, req)
           need == PartitionNeed(k, extents - k.g.extents)
           t == TableOf(s, k.b)
           q == RecordOf(s, k.b)
<1>1. extents # 0 /\ o = UnderlyingOffer(s, n, at, k, extents, need)
  BY DEF UnderlyingCandidate, Refused
<1>2. ProfileOf(s, req.target) = "lvm" /\ UnderlyingReady(s, n, at)
  BY <1>1 DEF UnderlyingExtents
<1>3. n.kind = "lvm"
  BY <1>2 DEF ProfileOf
<1>4. k.g \in s.vgs /\ k.v \in lvm.pvs /\ k.l \in lvm.lvs /\ k.v.vg = k.g.name
      /\ k.l.vg = k.g.name
  <2>1. PICK l \in LvsOn(s, n) : SinglePvGroup(s, n, l)
    BY <1>2 DEF UnderlyingReady
  <2>2. Unique(LvsOn(s, n))
    BY <1>2 DEF UnderlyingReady
  <2> HIDE DEF n
  <2>3. QED
    BY <1>3, <2>1, <2>2, StackIs
<1>5. ASSUME need > 0
      PROVE  t \in s.tables /\ t.device = DiskOf(s, k.b).path /\ q \in t.parts
  <2>1. k.b.kind = "partition"
    <3> HIDE DEF n, at, k, extents, need
    <3>1. QED
      BY <1>1, <1>5 DEF UnderlyingOffer, Refused, o
  <2>2. RecordAgrees(s, k.b)
    <3> HIDE DEF n, at
    <3>1. QED
      BY <1>2, <2>1 DEF UnderlyingReady
  <2> HIDE DEF k
  <2>3. QED
    BY <2>2, RecordIs
<1> DEFINE first == <<Revalidate, BackupLvm(k.g.uuid)>>
           middle == IF need > 0
                     THEN <<BackupTable(DiskOf(s, k.b).path),
                            ExtendPartition(q, need \div k.b.sector, k.b.sector)>>
                     ELSE <<>>
           rest == <<ResizePv(k.v, (extents - k.g.extents) * k.g.extent),
                     ExtendLv(k.l, extents, k.g.extent), GrowFs(n.fs, at), Verify>>
<1>6. o.steps = first \o middle \o rest
  <2> HIDE DEF n, at, k, extents, need
  <2>1. QED
    BY <1>1 DEF UnderlyingOffer, Offer, Refused, o
<1>7. p.basis = s /\ p.req = req /\ p.steps = o.steps
  BY DEF Preview
<1> HIDE DEF k, o, p, t, q, extents, need, n, at
<1>8. CASE need > 0
  <2>1. /\ p.steps = <<Revalidate, BackupLvm(k.g.uuid), BackupTable(DiskOf(s, k.b).path),
                       ExtendPartition(q, need \div k.b.sector, k.b.sector),
                       ResizePv(k.v, (extents - k.g.extents) * k.g.extent),
                       ExtendLv(k.l, extents, k.g.extent), GrowFs(n.fs, at), Verify>>
    BY <1>6, <1>7, <1>8, Joined
  <2>2. /\ DOMAIN p.steps = 1..8 /\ p.steps = [i \in 1..8 |-> p.steps[i]]
        /\ p.steps[1].op = "revalidate" /\ p.steps[2] = BackupLvm(k.g.uuid)
        /\ p.steps[3] = BackupTable(DiskOf(s, k.b).path)
        /\ p.steps[4].op = "extend_partition" /\ p.steps[4].node = q.node
        /\ p.steps[4].start = q.start /\ p.steps[4].old = q.size
        /\ p.steps[5].op = "resize_pv" /\ p.steps[5].pv = k.v.uuid
        /\ p.steps[6].op = "extend_lv" /\ p.steps[6].lv = k.l.uuid
        /\ p.steps[7].op = "grow_fs" /\ p.steps[8].op = "verify"
    BY <2>1 DEF Revalidate, Verify, GrowFs, ExtendLv, ResizePv, ExtendPartition
  <2>3. IsSeq(p.steps)
    BY <2>2, TupleIsSeq
  <2>4. BackupLvm(k.g.uuid) \in BackupSteps(p)
    BY <2>2 DEF BackupSteps, BackupLvm
  <2>5. BackupTable(DiskOf(s, k.b).path) \in BackupSteps(p)
    BY <2>2 DEF BackupSteps, BackupTable
  <2>6. Sourced(p, p.steps[4])
    BY <1>5, <1>7, <1>8, <2>2, <2>5 DEF Sourced
  <2>7. Sourced(p, p.steps[5])
    BY <1>4, <1>7, <2>2, <2>4 DEF Sourced, n
  <2>8. Sourced(p, p.steps[6])
    BY <1>4, <1>7, <2>2, <2>4 DEF Sourced, n
  <2>9. \A i \in {1, 2, 3, 7, 8} : Sourced(p, p.steps[i])
    <3>1. \A i \in {1, 2, 3, 7, 8} :
          p.steps[i].op \notin {"extend_partition", "resize_pv", "extend_lv"}
      BY <2>2 DEF BackupLvm, BackupTable
    <3>2. QED
      BY <3>1, NoOperand
  <2>10. \A i \in 1..8 : i = 4 \/ i = 5 \/ i = 6 \/ i \in {1, 2, 3, 7, 8}
    OBVIOUS
  <2>11. QED
    BY <2>2, <2>3, <2>6, <2>7, <2>8, <2>9, <2>10 DEF PlanSourced, p, o
<1>9. CASE ~(need > 0)
  <2>1. /\ p.steps = <<Revalidate, BackupLvm(k.g.uuid),
                       ResizePv(k.v, (extents - k.g.extents) * k.g.extent),
                       ExtendLv(k.l, extents, k.g.extent), GrowFs(n.fs, at), Verify>>
    BY <1>6, <1>7, <1>9, Joined
  <2>2. /\ DOMAIN p.steps = 1..6 /\ p.steps = [i \in 1..6 |-> p.steps[i]]
        /\ p.steps[1].op = "revalidate" /\ p.steps[2] = BackupLvm(k.g.uuid)
        /\ p.steps[3].op = "resize_pv" /\ p.steps[3].pv = k.v.uuid
        /\ p.steps[4].op = "extend_lv" /\ p.steps[4].lv = k.l.uuid
        /\ p.steps[5].op = "grow_fs" /\ p.steps[6].op = "verify"
    BY <2>1 DEF Revalidate, Verify, GrowFs, ExtendLv, ResizePv
  <2>3. IsSeq(p.steps)
    BY <2>2, TupleIsSeq
  <2>4. BackupLvm(k.g.uuid) \in BackupSteps(p)
    BY <2>2 DEF BackupSteps, BackupLvm
  <2>5. Sourced(p, p.steps[3])
    BY <1>4, <1>7, <2>2, <2>4 DEF Sourced, n
  <2>6. Sourced(p, p.steps[4])
    BY <1>4, <1>7, <2>2, <2>4 DEF Sourced, n
  <2>7. \A i \in {1, 2, 5, 6} : Sourced(p, p.steps[i])
    <3>1. \A i \in {1, 2, 5, 6} :
          p.steps[i].op \notin {"extend_partition", "resize_pv", "extend_lv"}
      BY <2>2 DEF BackupLvm
    <3>2. QED
      BY <3>1, NoOperand
  <2>8. \A i \in 1..6 : i = 3 \/ i = 4 \/ i \in {1, 2, 5, 6}
    OBVIOUS
  <2>9. QED
    BY <2>2, <2>3, <2>5, <2>6, <2>7, <2>8 DEF PlanSourced, p, o
<1>10. QED
  BY <1>8, <1>9

(* Every preview is sourced from the snapshot it was made of.              *)
LEMMA PreviewSourced ==
  ASSUME NEW s, Readable(s), NEW req, PlanExtend(s, req).status = "preview"
  PROVE  LET p == PlanExtend(s, req) IN p.basis = s /\ PlanSourced(p)
<1>1. ASSUME NEW o, NEW advice, Settle(s, req, o, advice).status = "preview"
      PROVE  o.answer = "ok" /\ Settle(s, req, o, advice) = Preview(s, req, o)
  BY <1>1 DEF Settle, Blocked
<1>2. ASSUME NEW o PROVE Preview(s, req, o).basis = s
  BY DEF Preview
<1>3. CASE ProfileOf(s, req.target) = "partition"
  <2>1. PICK advice : PlanExtend(s, req) = Settle(s, req, PartitionCandidate(s, req), advice)
    BY <1>3 DEF PlanExtend, PartitionPlan
  <2>2. QED
    BY <1>1, <1>2, <2>1, PartitionSourced
<1>4. CASE ProfileOf(s, req.target) = "lvm"
  <2>1. PlanExtend(s, req) = LvmPlan(s, req, UnderlyingCandidate(s, req))
    BY <1>4 DEF PlanExtend
  <2>2. \/ /\ UnderlyingCandidate(s, req).answer = "ok"
           /\ PlanExtend(s, req) = Preview(s, req, UnderlyingCandidate(s, req))
        \/ \E advice : \/ PlanExtend(s, req)
                            = Settle(s, req, UnderlyingCandidate(s, req), advice)
                       \/ PlanExtend(s, req) = Settle(s, req, LvmCandidate(s, req), advice)
    BY <2>1 DEF LvmPlan, LvmOutcome
  <2>3. QED
    BY <1>1, <1>2, <2>2, LvmSourced, UnderlyingSourced
<1>5. CASE ProfileOf(s, req.target) = "whole"
  <2>1. PlanExtend(s, req) = Settle(s, req, WholeCandidate(s, req), FALSE)
    BY <1>5 DEF PlanExtend
  <2>2. QED
    BY <1>1, <1>2, <2>1, WholeSourced
<1>6. CASE ProfileOf(s, req.target) \notin {"partition", "lvm", "whole"}
  BY <1>6 DEF PlanExtend, Blocked
<1>7. QED
  BY <1>3, <1>4, <1>5, <1>6

-----------------------------------------------------------------------------
(* The steps of a session.                                                 *)

(* What a step of the system is a step of.                                 *)
allVars == <<hostVars, sessionVars, growVars, createVars, swapVars>>

(* A run that is over, or is none of a growth.                             *)
LEMMA Elsewhere ==
  ASSUME stage' \notin Comparing, stage' \notin Compared, IsSeq(intent'), next' = 1
  PROVE  SessionInv'
<1>1. /\ stage' \notin Planning /\ stage' \notin Handed /\ stage' \notin Backed
      /\ stage' # "seen" /\ stage' # "frozen"
  BY DEF Comparing, Planning, Handed, Backed
<1>2. HostInv' /\ SeenInv' /\ PlanInv' /\ ManifestInv' /\ BackupInv' /\ RestoreInv' /\ NextInv'
  BY <1>1 DEF HostInv, SeenInv, PlanInv, ManifestInv, BackupInv, RestoreInv, NextInv
<1>3. IntentInv'
  BY <1>1 DEF IntentInv
<1>4. QED
  BY <1>2, <1>3 DEF SessionInv

(* A step that only looks at the machine.                                  *)
LEMMA LooksKeeps ==
  ASSUME SessionInv, stage \in Comparing, Looks, migration' = migration
  PROVE  /\ HostInv'
         /\ stage \in Planning /\ plan' = plan => PlanInv'
         /\ stage \in Handed /\ plan' = plan /\ handoff' = handoff => ManifestInv'
         /\ stage \in Backed /\ plan' = plan /\ backup' = backup => BackupInv'
<1>1. host' = host /\ was' = host
  BY DEF Looks, Settled
<1>2. Sound(host) /\ Later(host, host) /\ migration = None
  BY LaterSame DEF SessionInv, HostInv
<1>3. HostInv'
  BY <1>1, <1>2 DEF HostInv
<1>4. ASSUME stage \in Planning, plan' = plan PROVE PlanInv'
  BY <1>1, <1>4 DEF SessionInv, PlanInv
<1>5. ASSUME stage \in Handed, plan' = plan, handoff' = handoff PROVE ManifestInv'
  BY <1>5 DEF SessionInv, ManifestInv
<1>6. ASSUME stage \in Backed, plan' = plan, backup' = backup PROVE BackupInv'
  <2>1. BackupInv
    BY DEF SessionInv
  <2>2. ASSUME NEW a, NEW g, GroupKept(a, g) PROVE GroupKept(a, g)'
    BY <1>1, <1>6, <2>2 DEF GroupKept
  <2>3. ASSUME NEW x, PartKept(x) PROVE PartKept(x)'
    BY <1>6, <2>3 DEF PartKept
  <2>4. QED
    BY <1>6, <2>1, <2>2, <2>3 DEF BackupInv
<1>7. QED
  BY <1>3, <1>4, <1>5, <1>6

(* A discovery reads a sound machine.                                      *)
LEMMA DiscoveredBecame ==
  ASSUME SessionInv, stage \in Comparing, NEW s \in Discovered, s # None
  PROVE  s \in Readings(was, host) /\ Readable(s) /\ Became(s, host)
<1>1. s \in Readings(was, host)
  BY DEF Discovered
<1>2. Sound(was) /\ Sound(host) /\ Later(was, host)
  BY DEF SessionInv, HostInv
<1>3. QED
  BY <1>1, <1>2, ReadingBecame

(* The first reading of the machine (Discover).                            *)
LEMMA DiscoverKeeps ==
  ASSUME SessionInv, Discover, migration' = migration
  PROVE  SessionInv'
<1>1. /\ stage = "idle" /\ Looks /\ seen' \in Discovered /\ host' = host
      /\ intent' = intent /\ next' = next
      /\ \/ stage' = "seen" /\ seen' # None
         \/ stage' = "stopped"
  BY DEF Discover, Gate, Advanced, Ended, sealed, Looks
<1>2. stage \in Comparing /\ stage \notin Started /\ IsSeq(intent) /\ next = 1
  BY <1>1 DEF Comparing, Started, SessionInv, IntentInv, NextInv
<1>3. CASE stage' = "stopped"
  BY <1>1, <1>2, <1>3, Elsewhere DEF Comparing, Compared, Started
<1>4. CASE stage' = "seen" /\ seen' # None
  <2>1. HostInv'
    BY <1>1, <1>2, LooksKeeps
  <2>2. SeenInv'
    BY <1>1, <1>2, <1>4, DiscoveredBecame DEF SeenInv
  <2>3. /\ stage' \notin Planning /\ stage' \notin Handed /\ stage' \notin Backed
        /\ stage' # "frozen" /\ stage' \notin Compared
    BY <1>4 DEF Planning, Handed, Backed, Compared, Started
  <2>4. PlanInv' /\ ManifestInv' /\ BackupInv' /\ RestoreInv'
    BY <2>3 DEF PlanInv, ManifestInv, BackupInv, RestoreInv
  <2>5. IntentInv' /\ NextInv'
    BY <1>1, <1>2, <2>3 DEF IntentInv, NextInv
  <2>6. QED
    BY <2>1, <2>2, <2>4, <2>5 DEF SessionInv
<1>5. QED
  BY <1>1, <1>3, <1>4

(* The plan is made of the snapshot (PlanGrowth).                          *)
LEMMA PlanGrowthKeeps ==
  ASSUME SessionInv, PlanGrowth, migration' = migration
  PROVE  SessionInv'
<1>1. /\ stage = "seen" /\ Looks /\ host' = host
      /\ intent' = intent /\ next' = next
      /\ \E req : plan' = PlanExtend(seen, req)
      /\ \/ stage' = "planned" /\ plan'.status = "preview"
         \/ stage' = "stopped"
  BY DEF PlanGrowth, Gate, Advanced, Ended, sealed, Looks
<1>2. stage \in Comparing /\ stage \notin Started /\ IsSeq(intent) /\ next = 1
  BY <1>1 DEF Comparing, Started, SessionInv, IntentInv, NextInv
<1>3. CASE stage' = "stopped"
  BY <1>1, <1>2, <1>3, Elsewhere DEF Comparing, Compared, Started
<1>4. CASE stage' = "planned" /\ plan'.status = "preview"
  <2>1. HostInv'
    BY <1>1, <1>2, LooksKeeps
  <2>2. PlanInv'
    <3>1. Readable(seen) /\ Became(seen, host)
      BY <1>1 DEF SessionInv, SeenInv
    <3>2. PICK req : plan' = PlanExtend(seen, req)
      BY <1>1
    <3>3. plan'.basis = seen /\ PlanSourced(plan')
      BY <1>4, <3>1, <3>2, PreviewSourced
    <3>4. QED
      BY <1>1, <3>1, <3>3 DEF PlanInv
  <2>3. /\ stage' # "seen" /\ stage' \notin Handed /\ stage' \notin Backed
        /\ stage' # "frozen" /\ stage' \notin Compared
    BY <1>4 DEF Planning, Handed, Backed, Compared, Started
  <2>4. SeenInv' /\ ManifestInv' /\ BackupInv' /\ RestoreInv'
    BY <2>3 DEF SeenInv, ManifestInv, BackupInv, RestoreInv
  <2>5. IntentInv' /\ NextInv'
    BY <1>1, <1>2, <2>3 DEF IntentInv, NextInv
  <2>6. QED
    BY <2>1, <2>2, <2>4, <2>5 DEF SessionInv
<1>5. QED
  BY <1>1, <1>3, <1>4

(* The machine is read again and the manifest is made (HandOff).           *)
LEMMA HandOffKeeps ==
  ASSUME SessionInv, HandOff, migration' = migration
  PROVE  SessionInv'
<1>1. /\ stage = "planned" /\ Looks /\ plan' = plan
      /\ intent' = intent /\ next' = next
      /\ \/ /\ stage' = "handed" /\ MatchesBasis(plan, seen)
            /\ handoff' = [manifest |-> Manifest(seen, Target), tools |-> seen.tools]
         \/ stage' = "stopped"
  BY DEF HandOff, Gate, Advanced, Ended, HandoffReady
<1>2. /\ stage \in Comparing /\ stage \in Planning /\ stage \notin Started
      /\ IsSeq(intent) /\ next = 1
  BY <1>1 DEF Comparing, Planning, Started, SessionInv, IntentInv, NextInv
<1>3. CASE stage' = "stopped"
  BY <1>1, <1>2, <1>3, Elsewhere DEF Comparing, Compared, Started
<1>4. CASE /\ stage' = "handed" /\ MatchesBasis(plan, seen)
           /\ handoff' = [manifest |-> Manifest(seen, Target), tools |-> seen.tools]
  <2>1. HostInv' /\ PlanInv'
    BY <1>1, <1>2, LooksKeeps
  <2>2. ManifestInv'
    <3>1. handoff'.manifest = Manifest(plan.basis, plan.req.target)
      BY <1>4 DEF MatchesBasis, Target
    <3>2. QED
      BY <1>1, <3>1 DEF ManifestInv
  <2>3. stage' # "seen" /\ stage' \notin Backed /\ stage' # "frozen" /\ stage' \notin Compared
    BY <1>4 DEF Planning, Handed, Backed, Compared, Started
  <2>4. SeenInv' /\ BackupInv' /\ RestoreInv'
    BY <2>3 DEF SeenInv, BackupInv, RestoreInv
  <2>5. IntentInv' /\ NextInv'
    BY <1>1, <1>2, <2>3 DEF IntentInv, NextInv
  <2>6. QED
    BY <2>1, <2>2, <2>4, <2>5 DEF SessionInv
<1>5. QED
  BY <1>1, <1>3, <1>4

(* The reading under the host lock (Revalidated).                          *)
LEMMA RevalidatedKeeps ==
  ASSUME SessionInv, Revalidated, migration' = migration
  PROVE  SessionInv'
<1>1. /\ stage = "handed" /\ Looks /\ plan' = plan /\ handoff' = handoff
      /\ intent' = intent /\ next' = next
      /\ stage' \in {"locked", "stopped"}
  BY DEF Revalidated, Gate, Advanced, Ended, sealed
<1>2. /\ stage \in Comparing /\ stage \in Planning /\ stage \in Handed
      /\ stage \notin Started /\ IsSeq(intent) /\ next = 1
  BY <1>1 DEF Comparing, Planning, Handed, Started, SessionInv, IntentInv, NextInv
<1>3. CASE stage' = "stopped"
  BY <1>1, <1>2, <1>3, Elsewhere DEF Comparing, Compared, Started
<1>4. CASE stage' = "locked"
  <2>1. HostInv' /\ PlanInv' /\ ManifestInv'
    BY <1>1, <1>2, LooksKeeps
  <2>2. stage' # "seen" /\ stage' \notin Backed /\ stage' # "frozen" /\ stage' \notin Compared
    BY <1>4 DEF Planning, Handed, Backed, Compared, Started
  <2>3. SeenInv' /\ BackupInv' /\ RestoreInv'
    BY <2>2 DEF SeenInv, BackupInv, RestoreInv
  <2>4. IntentInv' /\ NextInv'
    BY <1>1, <1>2, <2>2 DEF IntentInv, NextInv
  <2>5. QED
    BY <2>1, <2>3, <2>4 DEF SessionInv
<1>5. QED
  BY <1>1, <1>3, <1>4

(* The artifacts taken of the live machine hold what the plan was made of, *)
(* or it is lost for good.                                                 *)
LEMMA PartCaptured ==
  ASSUME SessionInv, stage \in Planning, NEW i \in DOMAIN plan.steps,
         plan.steps[i].op = "extend_partition", NEW B,
         B = {Artifact(host, x) : x \in BackupSteps(plan)}
  PROVE  \E a \in B : /\ a.step.op = "backup_table"
                      /\ \E p \in a.records : /\ p.node = plan.steps[i].node
                                              /\ p.start = plan.steps[i].start
                                              /\ p.size = plan.steps[i].old
<1> DEFINE x == plan.steps[i]
           s == plan.basis
<1>1. Sourced(plan, x) /\ Became(s, host)
  BY DEF SessionInv, PlanInv, PlanSourced
<1>2. PICK t \in s.tables : \E q \in t.parts :
        /\ q.node = x.node /\ q.start = x.start /\ q.size = x.old
        /\ BackupTable(t.device) \in BackupSteps(plan)
  BY <1>1 DEF Sourced
<1>3. PICK q \in t.parts :
      /\ q.node = x.node /\ q.start = x.start /\ q.size = x.old
      /\ BackupTable(t.device) \in BackupSteps(plan)
  BY <1>2
<1>4. PICK u \in host.tables : TableAfter(t, u)
  BY <1>1 DEF Became
<1> DEFINE y == BackupTable(t.device)
           a == Artifact(host, y)
<1>5. y.op = "backup_table" /\ y.disk = t.device
  BY DEF BackupTable
<1> HIDE DEF y
<1>6. a.step = y /\ a.records = UNION {v.parts : v \in TablesOf(host, t.device)}
  BY <1>5 DEF Artifact
<1>7. q \in a.records
  BY <1>4, <1>6 DEF TableAfter, TablesOf
<1>8. a \in B
  BY <1>3 DEF y
<1> HIDE DEF a, x
<1>9. a.step.op = "backup_table" /\ q \in a.records
  BY <1>5, <1>6, <1>7
<1>10. QED
  BY <1>3, <1>8, <1>9 DEF x

(* The same of the volumes of a group: a record the artifact does not hold *)
(* is one the machine no longer has and never gets back.                   *)
LEMMA GroupCaptured ==
  ASSUME SessionInv, stage \in Planning, NEW g \in plan.basis.vgs,
         BackupLvm(g.uuid) \in BackupSteps(plan)
  PROVE  LET a == Artifact(host, BackupLvm(g.uuid)) IN
         /\ a.step.op = "backup_lvm"
         /\ \A v \in plan.basis.pvs : v.vg = g.name => v \in a.records \/ PvLost(v, host)
         /\ \A l \in plan.basis.lvs : l.vg = g.name => l \in a.records \/ LvLost(l, host)
<1> DEFINE s == plan.basis
           y == BackupLvm(g.uuid)
           a == Artifact(host, y)
           names == {f.name : f \in {e \in host.vgs : e.uuid = g.uuid}}
<1>1. Readable(s) /\ Became(s, host)
  BY DEF SessionInv, PlanInv
<1>2. Sound(host)
  BY DEF SessionInv, HostInv, Planning, Comparing
<1>3. PICK f \in host.vgs : VgAfter(g, f)
  BY <1>1 DEF Became
<1>4. g.name \in names
  BY <1>3 DEF VgAfter
<1>5. y.op = "backup_lvm" /\ y.vg = g.uuid
  BY DEF BackupLvm
<1> HIDE DEF y
<1>6. /\ a.step = y
      /\ a.records = {v \in host.pvs : v.vg \in names} \cup {l \in host.lvs : l.vg \in names}
  BY <1>5 DEF Artifact
<1> HIDE DEF a, names
<1>7. ASSUME NEW v \in s.pvs, v.vg = g.name PROVE v \in a.records \/ PvLost(v, host)
  <2>1. CASE v \in host.pvs
    BY <1>4, <1>6, <1>7, <2>1
  <2>2. CASE v \notin host.pvs
    <3>1. ASSUME NEW w \in host.pvs, w.name = v.name PROVE w.free < v.free
      <4>1. PvAfter(v, w) /\ IsRecord(v, PvFields) /\ v.free \in Int /\ w.free \in Int
        BY <1>1, <1>2, <3>1 DEF Became, Readable, Sound
      <4>2. w.free = v.free => w = v
        BY <4>1, PvAfterIs
      <4>3. w.free <= v.free /\ w.free # v.free
        BY <2>2, <4>1, <4>2 DEF PvAfter
      <4>4. QED
        BY <4>1, <4>3
    <3>2. QED
      BY <3>1 DEF PvLost
  <2>3. QED
    BY <2>1, <2>2
<1>8. ASSUME NEW l \in s.lvs, l.vg = g.name PROVE l \in a.records \/ LvLost(l, host)
  <2>1. CASE l \in host.lvs
    BY <1>4, <1>6, <1>8, <2>1
  <2>2. CASE l \notin host.lvs
    <3>1. ASSUME NEW m \in host.lvs, m.path = l.path PROVE l.size < m.size
      <4>1. LvAfter(l, m) /\ IsRecord(l, LvFields) /\ l.size \in Int /\ m.size \in Int
        BY <1>1, <1>2, <3>1 DEF Became, Readable, Sound
      <4>2. m.size = l.size => m = l
        BY <4>1, LvAfterIs
      <4>3. l.size <= m.size /\ m.size # l.size
        BY <2>2, <4>1, <4>2 DEF LvAfter
      <4>4. QED
        BY <4>1, <4>3
    <3>2. QED
      BY <3>1 DEF LvLost
  <2>3. QED
    BY <2>1, <2>2
<1>9. a.step.op = "backup_lvm"
  BY <1>5, <1>6
<1>10. QED
  BY <1>7, <1>8, <1>9 DEF a, y

(* The artifacts are taken of the live machine (BackUp).                   *)
LEMMA BackUpKeeps ==
  ASSUME SessionInv, BackUp, migration' = migration
  PROVE  SessionInv'
<1>1. /\ stage = "locked" /\ Looks /\ host' = host /\ was' = host
      /\ plan' = plan /\ handoff' = handoff
      /\ intent' = intent /\ next' = next
      /\ \/ /\ stage' = "backed"
            /\ backup' = {Artifact(host, x) : x \in BackupSteps(plan)}
         \/ stage' = "stopped"
  BY DEF BackUp, Gate, Advanced, Ended, Looks, Settled
<1>2. /\ stage \in Comparing /\ stage \in Planning /\ stage \in Handed
      /\ stage \notin Started /\ IsSeq(intent) /\ next = 1
  BY <1>1 DEF Comparing, Planning, Handed, Started, SessionInv, IntentInv, NextInv
<1>3. CASE stage' = "stopped"
  BY <1>1, <1>2, <1>3, Elsewhere DEF Comparing, Compared, Started
<1>4. CASE /\ stage' = "backed"
           /\ backup' = {Artifact(host, x) : x \in BackupSteps(plan)}
  <2>1. HostInv' /\ PlanInv' /\ ManifestInv'
    BY <1>1, <1>2, LooksKeeps
  <2>2. ASSUME NEW i \in DOMAIN plan.steps, plan.steps[i].op = "extend_partition"
        PROVE  PartKept(plan.steps[i])'
    <3>1. PICK B : B = backup'
      OBVIOUS
    <3>2. \E a \in B : /\ a.step.op = "backup_table"
                       /\ \E p \in a.records : /\ p.node = plan.steps[i].node
                                               /\ p.start = plan.steps[i].start
                                               /\ p.size = plan.steps[i].old
      BY <1>2, <1>4, <2>2, <3>1, PartCaptured
    <3>3. QED
      BY <1>1, <3>1, <3>2 DEF PartKept
  <2>3. ASSUME NEW g \in plan.basis.vgs, BackupLvm(g.uuid) \in BackupSteps(plan)
        PROVE  \E a \in backup' : GroupKept(a, g)'
    <3> DEFINE a == Artifact(host, BackupLvm(g.uuid))
    <3>1. a \in backup'
      BY <1>4, <2>3
    <3>2. /\ a.step.op = "backup_lvm"
          /\ \A v \in plan.basis.pvs : v.vg = g.name => v \in a.records \/ PvLost(v, host)
          /\ \A l \in plan.basis.lvs : l.vg = g.name => l \in a.records \/ LvLost(l, host)
      BY <1>2, <2>3, GroupCaptured
    <3> HIDE DEF a
    <3>3. PICK c : c = a
      OBVIOUS
    <3>4. GroupKept(c, g)'
      BY <1>1, <3>2, <3>3 DEF GroupKept
    <3>5. QED
      BY <3>1, <3>3, <3>4
  <2>4. BackupInv'
    BY <1>1, <2>2, <2>3 DEF BackupInv
  <2>5. stage' # "seen" /\ stage' # "frozen" /\ stage' \notin Compared
    BY <1>4 DEF Compared, Started
  <2>6. SeenInv' /\ RestoreInv'
    BY <2>5 DEF SeenInv, RestoreInv
  <2>7. IntentInv' /\ NextInv'
    BY <1>1, <1>2, <2>5 DEF IntentInv, NextInv, Compared
  <2>8. QED
    BY <2>1, <2>4, <2>6, <2>7 DEF SessionInv
<1>5. QED
  BY <1>1, <1>3, <1>4

(* The evidence and the decision of the operator change none of it         *)
(* (GatherEvidence, Approve).                                              *)
LEMMA GatherEvidenceKeeps ==
  ASSUME SessionInv, GatherEvidence \/ Approve, migration' = migration
  PROVE  SessionInv'
<1>1. /\ stage \in {"backed", "evidenced"} /\ Looks /\ plan' = plan /\ handoff' = handoff
      /\ backup' = backup /\ intent' = intent /\ next' = next
      /\ stage' \in {"evidenced", "approved", "stopped"}
  BY DEF GatherEvidence, Approve, Gate, Advanced, Ended, sealed
<1>2. /\ stage \in Comparing /\ stage \in Planning /\ stage \in Handed /\ stage \in Backed
      /\ stage \notin Started /\ IsSeq(intent) /\ next = 1
  BY <1>1 DEF Comparing, Planning, Handed, Backed, Started, SessionInv, IntentInv, NextInv
<1>3. CASE stage' = "stopped"
  BY <1>1, <1>2, <1>3, Elsewhere DEF Comparing, Compared, Started
<1>4. CASE stage' \in {"evidenced", "approved"}
  <2>1. HostInv' /\ PlanInv' /\ ManifestInv' /\ BackupInv'
    BY <1>1, <1>2, LooksKeeps
  <2>2. stage' # "seen" /\ stage' # "frozen" /\ stage' \notin Compared
    BY <1>4 DEF Compared, Started
  <2>3. SeenInv' /\ RestoreInv'
    BY <2>2 DEF SeenInv, RestoreInv
  <2>4. IntentInv' /\ NextInv'
    BY <1>1, <1>2, <2>2 DEF IntentInv, NextInv, Compared
  <2>5. QED
    BY <2>1, <2>3, <2>4 DEF SessionInv
<1>5. QED
  BY <1>1, <1>3, <1>4

(* The operands are found in the manifest (FreezeIntent).                  *)
LEMMA FreezeIntentKeeps ==
  ASSUME SessionInv, FreezeIntent, migration' = migration
  PROVE  SessionInv'
<1>1. /\ stage = "approved" /\ Looks /\ plan' = plan /\ handoff' = handoff
      /\ backup' = backup /\ decision' = decision /\ intent' = Frozen(plan) /\ next' = next
      /\ \/ /\ stage' = "frozen"
            /\ \A i \in DOMAIN plan.steps :
                 Freezes(plan.steps[i], handoff.manifest, decision)
         \/ stage' = "stopped"
  BY DEF FreezeIntent, Gate, Advanced, Ended
<1>2. /\ stage \in Comparing /\ stage \in Planning /\ stage \in Handed /\ stage \in Backed
      /\ stage \notin Started /\ next = 1
  BY <1>1 DEF Comparing, Planning, Handed, Backed, Started, SessionInv, NextInv
<1>3. IsSeq(Frozen(plan))
  <2>1. PlanSourced(plan)
    BY <1>2 DEF SessionInv, PlanInv
  <2>2. plan.steps \in Seq({plan.steps[i] : i \in DOMAIN plan.steps})
    BY <2>1 DEF PlanSourced, IsSeq
  <2>3. Len(plan.steps) \in Nat /\ DOMAIN plan.steps = 1..Len(plan.steps)
    BY <2>2
  <2> DEFINE q == Frozen(plan)
             n == Len(plan.steps)
  <2>4. q = [i \in DOMAIN plan.steps |-> q[i]]
    BY DEF Frozen
  <2> HIDE DEF q, n
  <2>5. n \in Nat /\ q = [i \in 1..n |-> q[i]]
    BY <2>3, <2>4 DEF n
  <2>6. IsSeq(q)
    BY <2>5, TupleIsSeq
  <2>7. QED
    BY <2>6 DEF q
<1>4. CASE stage' = "stopped"
  BY <1>1, <1>2, <1>3, <1>4, Elsewhere DEF Comparing, Compared, Started
<1>5. CASE /\ stage' = "frozen"
           /\ \A i \in DOMAIN plan.steps : Freezes(plan.steps[i], handoff.manifest, decision)
  <2>1. HostInv' /\ PlanInv' /\ ManifestInv' /\ BackupInv'
    BY <1>1, <1>2, LooksKeeps
  <2>2. stage' # "seen" /\ stage' \notin Compared
    BY <1>5 DEF Compared, Started
  <2>3. SeenInv' /\ RestoreInv'
    BY <2>2 DEF SeenInv, RestoreInv
  <2>4. IntentInv'
    BY <1>1, <1>3, <1>5 DEF IntentInv
  <2>5. NextInv'
    BY <1>1, <1>2 DEF NextInv
  <2>6. QED
    BY <2>1, <2>3, <2>4, <2>5 DEF SessionInv
<1>6. QED
  BY <1>1, <1>4, <1>5

(* What a manifest says of volumes.                                        *)
LEMMA ManifestLvm ==
  ASSUME NEW s, NEW target
  PROVE  Manifest(s, target).lvm = LvmIdentity(s, ChainOf(s, DeviceOf(s, target)))
<1> DEFINE m == Manifest(s, target)
<1>1. PICK device, status, devices, partitions, fsize, mounts :
        m = [device |-> device, status |-> status, devices |-> devices,
             partitions |-> partitions,
             lvm |-> LvmIdentity(s, ChainOf(s, DeviceOf(s, target))),
             fsize |-> fsize, mounts |-> mounts]
  BY Zenon DEF Manifest
<1> HIDE DEF m
<1>2. m.lvm = LvmIdentity(s, ChainOf(s, DeviceOf(s, target)))
  BY <1>1
<1>3. QED
  BY <1>2 DEF m

(* A manifest that a later reading of the machine gives again: the record  *)
(* a step names in it is the one the plan was made of, and the machine has *)
(* not left it behind.                                                     *)
LEMMA PvHeld ==
  ASSUME SessionInv, stage = "frozen", NEW s \in Readings(was, host),
         Manifest(s, plan.req.target) = handoff.manifest,
         NEW i \in DOMAIN plan.steps, plan.steps[i].op = "resize_pv"
  PROVE  Restorable(plan.steps[i])
<1> DEFINE x == plan.steps[i]
           m == handoff.manifest
           b == plan.basis
           P == {v \in m.lvm.pvs : v.uuid = x.pv}
<1>1. /\ stage \in Comparing /\ stage \in Planning /\ stage \in Handed /\ stage \in Backed
  BY DEF Comparing, Planning, Handed, Backed
<1>2. Sourced(plan, x) /\ Readable(b) /\ m = Manifest(b, plan.req.target)
  BY <1>1 DEF SessionInv, PlanInv, PlanSourced, ManifestInv
<1>3. m.lvm = LvmIdentity(b, ChainOf(b, DeviceOf(b, plan.req.target)))
  BY <1>2, ManifestLvm
<1>4. PICK g \in b.vgs : \E v \in m.lvm.pvs :
        v.uuid = x.pv /\ v.vg = g.name /\ BackupLvm(g.uuid) \in BackupSteps(plan)
  BY <1>2, <1>3 DEF Sourced
<1>5. PICK v \in m.lvm.pvs :
        v.uuid = x.pv /\ v.vg = g.name /\ BackupLvm(g.uuid) \in BackupSteps(plan)
  BY <1>4
<1>6. v \in b.pvs /\ P \in SUBSET b.pvs
  BY <1>3 DEF LvmIdentity
<1>7. v \in s.pvs
  <2>1. m.lvm = LvmIdentity(s, ChainOf(s, DeviceOf(s, plan.req.target)))
    BY ManifestLvm
  <2>2. QED
    BY <2>1 DEF LvmIdentity
<1>8. P = {v}
  <2>1. Unique(P)
    <3>1. Freezes(x, m, decision)
      BY DEF SessionInv, IntentInv
    <3>2. QED
      BY <3>1 DEF Freezes, CompilesPv
  <2>2. IsFiniteSet(P)
    <3>1. IsFiniteSet(b.pvs)
      BY <1>2 DEF Readable
    <3>2. QED
      BY <1>6, <3>1, FS_Subset
  <2>3. v \in P
    BY <1>5
  <2> HIDE DEF P
  <2>4. QED
    BY <2>1, <2>2, <2>3, OnlyOne
<1>9. v \in was.pvs \/ v \in host.pvs
  BY <1>7, ReadingParts
<1>10. PICK a \in backup : GroupKept(a, g)
  BY <1>1, <1>5 DEF SessionInv, BackupInv
<1>11. v.free \in Int
  BY <1>2, <1>6 DEF Readable
<1>12. v \in a.records
  <2>1. v \in a.records \/ (PvLost(v, was) /\ PvLost(v, host))
    BY <1>5, <1>6, <1>10 DEF GroupKept
  <2>2. ~(PvLost(v, was) /\ PvLost(v, host))
    BY <1>9, <1>11 DEF PvLost
  <2>3. QED
    BY <2>1, <2>2
<1>13. a.step.op = "backup_lvm"
  BY <1>10 DEF GroupKept
<1>14. P \subseteq a.records
  BY <1>8, <1>12
<1>15. QED
  BY <1>13, <1>14 DEF Restorable

(* The same of a logical volume.                                           *)
LEMMA LvHeld ==
  ASSUME SessionInv, stage = "frozen", NEW s \in Readings(was, host),
         Manifest(s, plan.req.target) = handoff.manifest,
         NEW i \in DOMAIN plan.steps, plan.steps[i].op = "extend_lv"
  PROVE  Restorable(plan.steps[i])
<1> DEFINE x == plan.steps[i]
           m == handoff.manifest
           b == plan.basis
           P == {l \in m.lvm.lvs : l.uuid = x.lv}
<1>1. /\ stage \in Comparing /\ stage \in Planning /\ stage \in Handed /\ stage \in Backed
  BY DEF Comparing, Planning, Handed, Backed
<1>2. Sourced(plan, x) /\ Readable(b) /\ m = Manifest(b, plan.req.target)
  BY <1>1 DEF SessionInv, PlanInv, PlanSourced, ManifestInv
<1>3. m.lvm = LvmIdentity(b, ChainOf(b, DeviceOf(b, plan.req.target)))
  BY <1>2, ManifestLvm
<1>4. PICK g \in b.vgs : \E l \in m.lvm.lvs :
        l.uuid = x.lv /\ l.vg = g.name /\ BackupLvm(g.uuid) \in BackupSteps(plan)
  BY <1>2, <1>3 DEF Sourced
<1>5. PICK l \in m.lvm.lvs :
        l.uuid = x.lv /\ l.vg = g.name /\ BackupLvm(g.uuid) \in BackupSteps(plan)
  BY <1>4
<1>6. l \in b.lvs /\ P \in SUBSET b.lvs
  BY <1>3 DEF LvmIdentity
<1>7. l \in s.lvs
  <2>1. m.lvm = LvmIdentity(s, ChainOf(s, DeviceOf(s, plan.req.target)))
    BY ManifestLvm
  <2>2. QED
    BY <2>1 DEF LvmIdentity
<1>8. P = {l}
  <2>1. Unique(P)
    <3>1. Freezes(x, m, decision)
      BY DEF SessionInv, IntentInv
    <3>2. QED
      BY <3>1 DEF Freezes, CompilesLv
  <2>2. IsFiniteSet(P)
    <3>1. IsFiniteSet(b.lvs)
      BY <1>2 DEF Readable
    <3>2. QED
      BY <1>6, <3>1, FS_Subset
  <2>3. l \in P
    BY <1>5
  <2> HIDE DEF P
  <2>4. QED
    BY <2>1, <2>2, <2>3, OnlyOne
<1>9. l \in was.lvs \/ l \in host.lvs
  BY <1>7, ReadingParts
<1>10. PICK a \in backup : GroupKept(a, g)
  BY <1>1, <1>5 DEF SessionInv, BackupInv
<1>11. l.size \in Int
  BY <1>2, <1>6 DEF Readable
<1>12. l \in a.records
  <2>1. l \in a.records \/ (LvLost(l, was) /\ LvLost(l, host))
    BY <1>5, <1>6, <1>10 DEF GroupKept
  <2>2. ~(LvLost(l, was) /\ LvLost(l, host))
    BY <1>9, <1>11 DEF LvLost
  <2>3. QED
    BY <2>1, <2>2
<1>13. a.step.op = "backup_lvm"
  BY <1>10 DEF GroupKept
<1>14. P \subseteq a.records
  BY <1>8, <1>12
<1>15. QED
  BY <1>13, <1>14 DEF Restorable

(* The last comparison makes sure of every step of the plan.               *)
LEMMA SealKeeps ==
  ASSUME SessionInv, Seal, migration' = migration
  PROVE  SessionInv'
<1>1. /\ stage = "frozen" /\ Looks /\ handoff' = handoff
      /\ backup' = backup /\ intent' = intent /\ next' = next
      /\ \/ /\ stage' = "sealed" /\ seen' \in Discovered /\ seen' # None
            /\ Manifest(seen', plan.req.target) = handoff.manifest
         \/ stage' = "stopped"
  BY DEF Seal, Gate, Advanced, Ended, sealed, Target
<1>2. stage \in Comparing /\ stage \notin Started /\ IsSeq(intent) /\ next = 1
  BY <1>1 DEF Comparing, Started, SessionInv, IntentInv, NextInv
<1>3. CASE stage' = "stopped"
  BY <1>1, <1>2, <1>3, Elsewhere DEF Comparing, Compared, Started
<1>4. CASE /\ stage' = "sealed" /\ seen' \in Discovered /\ seen' # None
           /\ Manifest(seen', plan.req.target) = handoff.manifest
  <2>1. PICK s : s = seen'
    OBVIOUS
  <2>2. s \in Readings(was, host)
    BY <1>2, <1>4, <2>1, DiscoveredBecame
  <2>3. ASSUME NEW i \in DOMAIN plan.steps PROVE Restorable(plan.steps[i])
    <3>1. CASE plan.steps[i].op = "resize_pv"
      BY <1>1, <1>4, <2>1, <2>2, <3>1, PvHeld
    <3>2. CASE plan.steps[i].op = "extend_lv"
      BY <1>1, <1>4, <2>1, <2>2, <3>2, LvHeld
    <3>3. CASE plan.steps[i].op = "extend_partition"
      <4>1. PartKept(plan.steps[i])
        BY <1>1, <3>3 DEF SessionInv, BackupInv, Comparing, Planning, Handed, Backed
      <4>2. QED
        BY <3>3, <4>1 DEF PartKept, Restorable
    <3>4. CASE plan.steps[i].op \notin {"resize_pv", "extend_lv", "extend_partition"}
      BY <3>4 DEF Restorable
    <3>5. QED
      BY <3>1, <3>2, <3>3, <3>4
  <2>4. \A i \in DOMAIN MutationsOf(intent) : Restorable(MutationsOf(intent)[i].does)
    <3> DEFINE X == {intent[j] : j \in DOMAIN intent}
               ms == MutationsOf(intent)
    <3>1. ms \in Seq(X)
      BY <1>2, MutationsAreSteps DEF IsSeq
    <3>2. \A y \in X : Restorable(y.does)
      <4>1. intent = Frozen(plan)
        BY <1>1 DEF SessionInv, IntentInv
      <4>2. DOMAIN intent = DOMAIN plan.steps
            /\ \A j \in DOMAIN plan.steps : intent[j].does = plan.steps[j]
        BY <4>1 DEF Frozen
      <4>3. QED
        BY <2>3, <4>2
    <3> HIDE DEF X, ms
    <3>3. \A i \in DOMAIN ms : ms[i] \in X
      BY <3>1
    <3>4. \A i \in DOMAIN ms : Restorable(ms[i].does)
      BY <3>2, <3>3
    <3>5. QED
      BY <3>4 DEF ms
  <2>5. RestoreInv'
    <3>1. \A x : Restorable(x) <=> Restorable(x)'
      BY <1>1 DEF Restorable
    <3>2. QED
      BY <1>1, <2>4, <3>1 DEF RestoreInv
  <2>6. /\ stage' \notin Comparing /\ stage' \notin Planning /\ stage' \notin Handed
        /\ stage' \notin Backed /\ stage' # "seen" /\ stage' # "frozen"
    BY <1>4 DEF Comparing, Planning, Handed, Backed
  <2>7. HostInv' /\ SeenInv' /\ PlanInv' /\ ManifestInv' /\ BackupInv' /\ IntentInv'
    BY <1>1, <1>2, <2>6 DEF HostInv, SeenInv, PlanInv, ManifestInv, BackupInv, IntentInv
  <2>8. NextInv'
    BY <1>1, <1>2 DEF NextInv
  <2>9. QED
    BY <2>5, <2>7, <2>8 DEF SessionInv
<1>5. QED
  BY <1>1, <1>3, <1>4

(* Behind the last comparison nothing touches what was backed up.          *)
LEMMA ComparedKeeps ==
  ASSUME SessionInv, stage \in Compared, stage' \in Compared \cup {"stopped"},
         handoff' = handoff, backup' = backup, intent' = intent,
         stage' \notin Started => next' = 1
  PROVE  SessionInv'
<1>1. /\ stage' \notin Comparing /\ stage' \notin Planning /\ stage' \notin Handed
      /\ stage' \notin Backed /\ stage' # "seen" /\ stage' # "frozen"
  BY DEF Comparing, Planning, Handed, Backed, Compared, Started
<1>2. HostInv' /\ SeenInv' /\ PlanInv' /\ ManifestInv' /\ BackupInv'
  BY <1>1 DEF HostInv, SeenInv, PlanInv, ManifestInv, BackupInv
<1>3. IntentInv'
  BY <1>1 DEF SessionInv, IntentInv
<1>4. RestoreInv'
  <2>1. \A x : Restorable(x) <=> Restorable(x)'
    BY DEF Restorable
  <2>2. QED
    BY <2>1 DEF SessionInv, RestoreInv
<1>5. NextInv'
  BY DEF NextInv
<1>6. QED
  BY <1>2, <1>3, <1>4, <1>5 DEF SessionInv

(* What follows the last comparison adds no artifact and no mutation       *)
(* (PinConsent, Prepare, Spawn, VerifyLayer).                              *)
LEMMA LaterStepsKeep ==
  ASSUME SessionInv, PinConsent \/ Prepare \/ Spawn \/ VerifyLayer
  PROVE  SessionInv'
<1>1. stage \notin Started => next = 1
  BY DEF SessionInv, NextInv
<1>2. CASE PinConsent
  <2>1. /\ stage = "sealed" /\ stage' \in {"pinned", "stopped"} /\ handoff' = handoff
        /\ backup' = backup /\ intent' = intent /\ next' = next
    BY <1>2 DEF PinConsent, Gate, Advanced, Ended, sealed
  <2>2. QED
    BY <1>1, <2>1, ComparedKeeps DEF Compared, Started
<1>3. CASE Prepare
  <2>1. /\ stage \in {"pinned", "verified"} /\ handoff' = handoff
        /\ backup' = backup /\ intent' = intent /\ next' = next
        /\ \/ stage' = "prepared"
           \/ stage = "pinned" /\ stage' = "stopped"
           \/ stage' = "recovery"
    BY <1>3 DEF Prepare, Gate, Advanced, Ended, sealed
  <2>2. QED
    BY <1>1, <2>1, ComparedKeeps DEF Compared, Started
<1>4. CASE Spawn
  <2>1. /\ stage = "prepared" /\ stage' \in {"applied", "recovery"} /\ handoff' = handoff
        /\ backup' = backup /\ intent' = intent /\ next' = next
    BY <1>4 DEF Spawn, Advanced, Ended, sealed
  <2>2. QED
    BY <1>1, <2>1, ComparedKeeps DEF Compared, Started
<1>5. CASE VerifyLayer
  <2>1. /\ stage = "applied" /\ handoff' = handoff
        /\ backup' = backup /\ intent' = intent
        /\ stage' \in {"applied", "recovery", "done", "verified"}
    BY <1>5 DEF VerifyLayer, Advanced, Ended, sealed
  <2>2. QED
    BY <2>1, ComparedKeeps DEF Compared, Started
<1>6. QED
  BY <1>2, <1>3, <1>4, <1>5

(* What the others do in between keeps what the next comparison needs.     *)
LEMMA MeddleKeeps ==
  ASSUME SessionInv, Meddle, UNCHANGED <<sessionVars, growVars, swapVars>>
  PROVE  SessionInv'
<1>1. /\ stage' = stage /\ seen' = seen /\ plan' = plan /\ handoff' = handoff
      /\ backup' = backup /\ decision' = decision /\ intent' = intent /\ next' = next
      /\ migration' = migration
  BY DEF sessionVars, growVars, sealed, swapVars
<1>2. ASSUME stage \in Comparing
      PROVE  /\ migration = None /\ Sound(host) /\ Sound(host') /\ Later(host, host')
             /\ was' = host
  <2>1. migration = None /\ Sound(host)
    BY <1>2 DEF SessionInv, HostInv
  <2>2. QED
    BY <2>1, MeddleLater
<1>3. HostInv'
  BY <1>1, <1>2 DEF HostInv
<1>4. ASSUME stage \in Comparing, NEW s, Readable(s), Became(s, host)
      PROVE  Became(s, host')
  <2>1. PICK k : k = host'
    OBVIOUS
  <2>2. Sound(host) /\ Sound(k) /\ Later(host, k)
    BY <1>2, <1>4, <2>1
  <2>3. Became(s, k)
    BY <1>4, <2>2, BecameLater
  <2>4. QED
    BY <2>1, <2>3
<1>5. SeenInv'
  BY <1>1, <1>4 DEF SessionInv, SeenInv, Comparing
<1>6. PlanInv'
  BY <1>1, <1>4 DEF SessionInv, PlanInv, Planning
<1>7. ManifestInv'
  BY <1>1 DEF SessionInv, ManifestInv
<1>8. BackupInv'
  <2>1. SUFFICES ASSUME stage \in Backed PROVE BackupInv'
    BY <1>1 DEF BackupInv
  <2>2. stage \in Comparing /\ stage \in Planning
    BY <2>1 DEF Backed, Handed, Planning
  <2>3. Readable(plan.basis)
    BY <2>2 DEF SessionInv, PlanInv
  <2>4. PICK k : k = host'
    OBVIOUS
  <2>5. /\ \A v : v.free \in Int /\ PvLost(v, host) => PvLost(v, k)
        /\ \A l : l.size \in Int /\ LvLost(l, host) => LvLost(l, k)
    BY <1>2, <2>2, <2>4, LostForGood
  <2>6. ASSUME NEW a, NEW g, GroupKept(a, g) PROVE GroupKept(a, g)'
    <3>1. \A v \in plan.basis.pvs : v.vg = g.name =>
            v \in a.records \/ (PvLost(v, host) /\ PvLost(v, k))
      <4>1. \A v \in plan.basis.pvs : v.free \in Int
        BY <2>3 DEF Readable
      <4>2. QED
        BY <2>5, <2>6, <4>1 DEF GroupKept
    <3>2. \A l \in plan.basis.lvs : l.vg = g.name =>
            l \in a.records \/ (LvLost(l, host) /\ LvLost(l, k))
      <4>1. \A l \in plan.basis.lvs : l.size \in Int
        BY <2>3 DEF Readable
      <4>2. QED
        BY <2>5, <2>6, <4>1 DEF GroupKept
    <3>3. a.step.op = "backup_lvm"
      BY <2>6 DEF GroupKept
    <3>4. QED
      BY <1>1, <1>2, <2>2, <2>4, <3>1, <3>2, <3>3 DEF GroupKept
  <2>7. ASSUME NEW x, PartKept(x) PROVE PartKept(x)'
    BY <1>1, <2>7 DEF PartKept
  <2>8. QED
    BY <1>1, <2>1, <2>6, <2>7 DEF SessionInv, BackupInv
<1>9. IntentInv'
  BY <1>1 DEF SessionInv, IntentInv
<1>10. RestoreInv'
  <2>1. \A x : Restorable(x) <=> Restorable(x)'
    BY <1>1 DEF Restorable
  <2>2. QED
    BY <1>1, <2>1 DEF SessionInv, RestoreInv
<1>11. NextInv'
  BY <1>1 DEF SessionInv, NextInv
<1>12. QED
  BY <1>3, <1>5, <1>6, <1>7, <1>8, <1>9, <1>10, <1>11 DEF SessionInv

(* A step that leaves all of it alone.                                     *)
LEMMA StutterKeeps ==
  ASSUME SessionInv, stage' = stage, seen' = seen, plan' = plan,
         UNCHANGED <<growVars, swapVars>>, host' = host, was' = was
  PROVE  SessionInv'
<1>1. /\ handoff' = handoff /\ backup' = backup /\ decision' = decision
      /\ intent' = intent /\ next' = next /\ migration' = migration
  BY DEF growVars, sealed, swapVars
<1>2. HostInv' /\ SeenInv' /\ PlanInv' /\ ManifestInv' /\ NextInv'
  BY <1>1 DEF SessionInv, HostInv, SeenInv, PlanInv, ManifestInv, NextInv
<1>3. IntentInv'
  BY <1>1 DEF SessionInv, IntentInv
<1>4. BackupInv'
  <2>1. ASSUME NEW a, NEW g, GroupKept(a, g) PROVE GroupKept(a, g)'
    BY <2>1 DEF GroupKept
  <2>2. ASSUME NEW x, PartKept(x) PROVE PartKept(x)'
    BY <1>1, <2>2 DEF PartKept
  <2>3. QED
    BY <1>1, <2>1, <2>2 DEF SessionInv, BackupInv
<1>5. RestoreInv'
  <2>1. \A x : Restorable(x) <=> Restorable(x)'
    BY <1>1 DEF Restorable
  <2>2. QED
    BY <1>1, <2>1 DEF SessionInv, RestoreInv
<1>6. QED
  BY <1>2, <1>3, <1>4, <1>5 DEF SessionInv

(* Interference is a change of the machine, or of the consent alone.       *)
LEMMA InterfereKeeps ==
  ASSUME SessionInv, Interfere, UNCHANGED <<growVars, createVars, swapVars>>
  PROVE  SessionInv'
<1>1. CASE Meddle /\ UNCHANGED sessionVars
  BY <1>1, MeddleKeeps
<1>2. CASE UNCHANGED <<host, was, seen, plan, lease, stage, why>>
  BY <1>2, StutterKeeps
<1>3. QED
  BY <1>1, <1>2 DEF Interfere

(* The stages of a creation and of a migration.                            *)
Creating == {"creating", "listed", "drafted", "drawn", "bound", "leased", "permitted",
             "tail_ready", "cleared", "launched", "partitioned", "mapped", "rechecked",
             "formatted", "created", "refused", "lost"}
Moving == {"migrating", "meant", "swap_sealed", "swap_permitted", "swap_ready",
           "swap_launched", "allocated", "activated", "both", "retired", "swapped",
           "recorded", "removal_frozen", "removable", "deleted", "removed", "migrated",
           "kept", "astray"}

(* A step of a creation or of a migration concerns no growth.              *)
LEMMA OthersKeep ==
  ASSUME SessionInv, stage \in Creating \cup Moving, stage' \in Creating \cup Moving,
         UNCHANGED growVars
  PROVE  SessionInv'
<1>1. stage' \notin Comparing /\ stage' \notin Compared /\ stage \notin Started
  BY DEF Creating, Moving, Comparing, Compared, Started
<1>2. IsSeq(intent') /\ next' = 1
  BY <1>1 DEF SessionInv, IntentInv, NextInv, growVars, sealed
<1>3. QED
  BY <1>1, <1>2, Elsewhere

(* A creation stays one.                                                   *)
LEMMA CreateKeeps ==
  ASSUME SessionInv, Create, UNCHANGED growVars
  PROVE  SessionInv'
<1>1. stage \in Creating /\ stage' \in Creating
  <2>1. CASE ListSources
    BY <2>1 DEF ListSources, Gate, Advanced, Ended, Creating
  <2>2. CASE PlanCreation
    BY <2>2 DEF PlanCreation, Gate, Advanced, Ended, Creating
  <2>3. CASE FreezeCreation
    BY <2>3 DEF FreezeCreation, Gate, Advanced, Ended, Creating
  <2>4. CASE SealCreation
    BY <2>4 DEF SealCreation, Gate, Advanced, Ended, Creating
  <2>5. CASE ConsentCreation
    BY <2>5 DEF ConsentCreation, Gate, Advanced, Ended, Creating
  <2>6. CASE PermitCreation
    BY <2>6 DEF PermitCreation, Gate, Advanced, Ended, Creating
  <2>7. CASE PreflightCreation
    BY <2>7 DEF PreflightCreation, Gate, Advanced, Ended, Creating
  <2>8. CASE LaunchCreation
    BY <2>8 DEF LaunchCreation, Gate, Advanced, Ended, Creating
  <2>9. CASE Partition
    BY <2>9 DEF Partition, Advanced, Ended, Creating
  <2>10. CASE VerifyPartition
    BY <2>10 DEF VerifyPartition, Exact, Rediscovered, Advanced, Ended, Creating
  <2>11. CASE RecheckPartition
    BY <2>11 DEF RecheckPartition, Exact, Rediscovered, Advanced, Ended, Creating
  <2>12. CASE Format
    BY <2>12 DEF Format, Advanced, Ended, Creating
  <2>13. CASE VerifyFilesystem
    BY <2>13 DEF VerifyFilesystem, Rediscovered, Advanced, Ended, Creating
  <2>14. QED
    BY <2>1, <2>2, <2>3, <2>4, <2>5, <2>6, <2>7, <2>8, <2>9, <2>10, <2>11, <2>12, <2>13
    DEF Create
<1>2. QED
  BY <1>1, OthersKeep

(* A migration stays one, and what somebody does to the swap in use        *)
(* happens to nothing that is still compared.                              *)
LEMMA MigrateKeeps ==
  ASSUME SessionInv, Migrate, UNCHANGED growVars
  PROVE  SessionInv'
<1>1. ASSUME Migrate, ~MeddleSwap PROVE stage \in Moving /\ stage' \in Moving
  <2>1. CASE FreezeMigration
    BY <2>1 DEF FreezeMigration, Gate, Advanced, Ended, Moving
  <2>2. CASE SealMigration
    BY <2>2 DEF SealMigration, Gate, Advanced, Ended, Moving
  <2>3. CASE ConsentMigration
    BY <2>3 DEF ConsentMigration, Gate, Advanced, Ended, Moving
  <2>4. CASE PreflightMigration
    BY <2>4 DEF PreflightMigration, Gate, Advanced, Ended, Moving
  <2>5. CASE LaunchMigration
    BY <2>5 DEF LaunchMigration, Gate, Advanced, Ended, Moving
  <2>6. CASE CreateSwapfile
    BY <2>6 DEF CreateSwapfile, Tool, Advanced, Ended, Moving
  <2>7. CASE ActivateSwapfile
    BY <2>7 DEF ActivateSwapfile, Tool, Advanced, Ended, Moving
  <2>8. CASE VerifyBoth
    BY <2>8 DEF VerifyBoth, Gate, Advanced, Ended, Moving
  <2>9. CASE RetireSwap
    BY <2>9 DEF RetireSwap, Tool, Advanced, Ended, Moving
  <2>10. CASE VerifyRetired
    BY <2>10 DEF VerifyRetired, Gate, Advanced, Ended, Moving
  <2>11. CASE UpdateFstab
    BY <2>11 DEF UpdateFstab, Advanced, Ended, Moving
  <2>12. CASE PrepareRemoval
    BY <2>12 DEF PrepareRemoval, Gate, Advanced, Ended, Moving
  <2>13. CASE RecheckRemoval
    BY <2>13 DEF RecheckRemoval, Gate, Advanced, Ended, Moving
  <2>14. CASE DeletePartitions
    BY <2>14 DEF DeletePartitions, Tool, Advanced, Ended, Moving
  <2>15. CASE ForgetPartitions
    BY <2>15 DEF ForgetPartitions, Tool, Advanced, Ended, Moving
  <2>16. CASE VerifyRemoval
    BY <2>16 DEF VerifyRemoval, Gate, Advanced, Ended, Moving
  <2>17. QED
    BY <1>1, <2>1, <2>2, <2>3, <2>4, <2>5, <2>6, <2>7, <2>8, <2>9, <2>10, <2>11, <2>12,
       <2>13, <2>14, <2>15, <2>16
    DEF Migrate
<1>2. CASE MeddleSwap
  <2>1. /\ stage' = stage /\ stage \notin Comparing
        /\ handoff' = handoff /\ backup' = backup /\ intent' = intent /\ next' = next
    <3>1. stage = "migrating" \/ migration # None
      BY <1>2 DEF MeddleSwap, Migrating
    <3>2. stage \notin Comparing
      BY <3>1 DEF SessionInv, HostInv, Comparing
    <3>3. QED
      BY <1>2, <3>2 DEF MeddleSwap, sessionVars, growVars, sealed
  <2>2. CASE stage \in Compared
    BY <2>1, <2>2, ComparedKeeps DEF SessionInv, NextInv
  <2>3. CASE stage \notin Compared
    <3>1. IsSeq(intent') /\ next' = 1
      BY <2>1, <2>3 DEF SessionInv, IntentInv, NextInv, Compared
    <3>2. QED
      BY <2>1, <2>3, <3>1, Elsewhere
  <2>4. QED
    BY <2>2, <2>3
<1>3. CASE ~MeddleSwap
  BY <1>1, <1>3, OthersKeep
<1>4. QED
  BY <1>2, <1>3

(* The initial states.                                                     *)
LEMMA SessionStarts ==
  Init => SessionInv
<1>1. SUFFICES ASSUME Init PROVE SessionInv
  OBVIOUS
<1>2. /\ host \in Hosts /\ was = host /\ stage \in {"idle", "creating", "migrating"}
      /\ intent = <<>> /\ next = 1 /\ migration = None
  BY <1>1 DEF Init, HostInit, SessionInit, GrowInit, MigrateInit
<1>3. Sound(host) /\ Sound(was) /\ Later(was, host)
  BY <1>2, HostsSound, LaterSame
<1>4. /\ stage \notin Planning /\ stage \notin Handed /\ stage \notin Backed
      /\ stage # "seen" /\ stage # "frozen" /\ stage \notin Compared
  BY <1>2 DEF Comparing, Planning, Handed, Backed, Compared, Started
<1>5. IsSeq(intent)
  BY <1>2 DEF IsSeq
<1>6. HostInv /\ SeenInv /\ PlanInv /\ ManifestInv /\ BackupInv /\ IntentInv
      /\ RestoreInv /\ NextInv
  BY <1>2, <1>3, <1>4, <1>5
  DEF HostInv, SeenInv, PlanInv, ManifestInv, BackupInv, IntentInv, RestoreInv, NextInv
<1>7. QED
  BY <1>6 DEF SessionInv

(* Every step of the system keeps the invariant.                           *)
LEMMA SessionStep ==
  SessionInv /\ [Next]_allVars => SessionInv'
<1>1. SUFFICES ASSUME SessionInv, [Next]_allVars PROVE SessionInv'
  OBVIOUS
<1>2. CASE Grow /\ UNCHANGED <<createVars, swapVars>>
  <2>1. migration' = migration
    BY <1>2 DEF swapVars
  <2>2. QED
    BY <1>1, <1>2, <2>1, DiscoverKeeps, PlanGrowthKeeps, HandOffKeeps, RevalidatedKeeps,
       BackUpKeeps, GatherEvidenceKeeps, FreezeIntentKeeps, SealKeeps, LaterStepsKeep
    DEF Grow
<1>3. CASE Create /\ UNCHANGED <<growVars, swapVars>>
  BY <1>1, <1>3, CreateKeeps
<1>4. CASE Migrate /\ UNCHANGED <<growVars, createVars>>
  BY <1>1, <1>4, MigrateKeeps
<1>5. CASE Interfere /\ UNCHANGED <<growVars, createVars, swapVars>>
  BY <1>1, <1>5, InterfereKeeps
<1>6. CASE UNCHANGED allVars
  BY <1>1, <1>6, StutterKeeps DEF allVars, hostVars, sessionVars
<1>7. QED
  BY <1>1, <1>2, <1>3, <1>4, <1>5, <1>6 DEF Next

(* Of every change that was made the invariant says what is to be shown.   *)
LEMMA SessionRestores ==
  SessionInv => BackupRestores
<1>1. SUFFICES ASSUME SessionInv, NEW x \in Changed PROVE Restorable(x)
  BY DEF BackupRestores
<1> DEFINE ms == MutationsOf(intent)
<1>2. PICK j \in DOMAIN ms :
        x = ms[j].does /\ (j < next \/ (j = next /\ stage \in {"applied", "done"}))
  BY DEF Changed
<1>3. CASE stage \in Compared
  BY <1>1, <1>2, <1>3 DEF SessionInv, RestoreInv
<1>4. CASE stage \notin Compared
  <2>1. next = 1 /\ j < next
    BY <1>1, <1>2, <1>4 DEF SessionInv, NextInv, Compared, Started
  <2>2. ms \in Seq({intent[i] : i \in DOMAIN intent})
    BY <1>1, MutationsAreSteps DEF SessionInv, IntentInv, IsSeq
  <2> HIDE DEF ms
  <2>3. j \in Nat /\ j >= 1
    BY <2>2
  <2>4. QED
    BY <2>1, <2>3
<1>5. QED
  BY <1>3, <1>4

(* The plan, its snapshot, the machine and the artifacts are related so in *)
(* every state of every session.                                           *)
THEOREM SessionInductive == Spec => []SessionInv
<1>1. Init => SessionInv
  BY SessionStarts
<1>2. SessionInv /\ [Next]_<<hostVars, sessionVars, growVars, createVars, swapVars>>
        => SessionInv'
  BY SessionStep DEF allVars
<1>3. QED
  BY <1>1, <1>2, PTL DEF Spec

(* Whatever the others change meanwhile, every layer a growth has changed  *)
(* can be put back: Seal compares a manifest that is read again with the   *)
(* frozen one, behind the artifacts that were taken of the live machine.   *)
THEOREM ChangesCanBeRestored == Spec => []BackupRestores
<1>1. SessionInv => BackupRestores
  BY SessionRestores
<1>2. QED
  BY <1>1, SessionInductive, PTL
=============================================================================
