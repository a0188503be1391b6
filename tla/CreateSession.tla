---------------------------- MODULE CreateSession ----------------------------
(***************************************************************************)
(* One creation, from the list of free spaces to a verified filesystem, on *)
(* a host that other administrators share.  CreateRuntime has the journal, *)
(* the lock and the crashes of the same run with its data left out.        *)
(*                                                                         *)
(* A run ends "created", "tail_ready" (the preflight of a GPT tail: nothing *)
(* is written behind it yet), "refused" (the disk is as it was) or "lost"   *)
(* (the disk may have been written).                                       *)
(***************************************************************************)
EXTENDS Session, CreateActivation

CONSTANT Orders     \* what an operator may ask of a space

VARIABLE activation \* the sealed intent

CreateInit == activation = None

CreateConsent == ActivationOf(activation, None)

\* Each tool of the launch is found in one of the trusted places.
ToolsPresent == CreateTools(activation) \subseteq host.tools

ListSources ==
  /\ stage = "creating" /\ Looks
  /\ seen' \in Discovered
  /\ Gate(seen' # None, "listed", "refused", "discovery")
  /\ UNCHANGED <<plan, activation, consent, lease>>

PlanCreation ==
  /\ stage = "listed" /\ Looks
  /\ \E x \in Spaces(seen), order \in Orders :
       plan' = PlanCreate(seen, order @@ [space |-> SpaceId(x)])
  /\ Gate(plan'.status = "preview", "drafted", "refused", "plan")
  /\ UNCHANGED <<seen, activation, consent, lease>>

\* The caller hands in the snapshot of the plan or a fresh one.
FreezeCreation ==
  /\ stage = "drafted" /\ Looks
  /\ seen' \in ({seen} \cup Discovered) \ {None}
  /\ IF plan.space.kind = "tail"
     THEN /\ activation' = IF FreezesTail(seen', plan) THEN TailIntent(seen', plan) ELSE None
     ELSE /\ activation' = IF FreezesBlank(seen', plan) THEN BlankIntent(seen', plan) ELSE None
  /\ Gate(activation' # None, "drawn", "refused", "freeze")
  /\ UNCHANGED <<plan, consent, lease>>

SealCreation ==
  /\ stage = "drawn" /\ Looks
  /\ Gate(IF activation.kind = "tail" THEN TailProfile(activation) ELSE BlankProfile(activation),
          "bound", "refused", "profile")
  /\ UNCHANGED <<seen, plan, activation, consent, lease>>

\* The file at the fixed path, held open from here.
ConsentCreation ==
  /\ stage = "bound" /\ Looks
  /\ consent' \in ConsentDrafts(CreateConsent)
  /\ lease' = IF ConsentVerified(consent', CreateConsent) THEN consent' ELSE None
  /\ Gate(lease' # None, "leased", "refused", "consent")
  /\ UNCHANGED <<seen, plan, activation>>

PermitCreation ==
  /\ stage = "leased" /\ Looks
  /\ Gate(LeaseHolds(lease, consent, CreateConsent), "permitted", "refused", "consent")
  /\ UNCHANGED <<seen, plan, activation, consent, lease>>

\* The last look at the disk before it is written, then the consent, then
\* the tools.
PreflightCreation ==
  /\ stage = "permitted" /\ UNCHANGED <<host, was, meddled>>
  /\ seen' \in Discovered
  /\ CASE seen' = None -> Ended("refused", "discovery")
       [] seen' # None
          /\ ~(IF activation.kind = "tail" THEN StillTail(activation, seen')
               ELSE StillBlank(activation, seen')) -> Ended("refused", "changed")
       [] OTHER ->
            IF ~LeaseHolds(lease, consent, CreateConsent) THEN Ended("refused", "consent")
            ELSE Gate(ToolsPresent,
                      IF activation.kind = "tail" THEN "tail_ready" ELSE "cleared",
                      "refused", "missing")
  /\ UNCHANGED <<plan, activation, consent, lease>>

\* The tools are opened by path and stay pinned by their descriptors.
LaunchCreation ==
  /\ stage = "cleared" /\ Looks
  /\ Gate(ToolsPresent, "launched", "refused", "missing")
  /\ UNCHANGED <<seen, plan, activation, consent, lease>>

\* sfdisk and partx.  A partx that fails where the kernel has mapped the
\* partition already is as good as one that succeeds: the verification that
\* follows is the one that reconciles it.
Partition ==
  /\ stage = "launched" /\ UNCHANGED meddled
  /\ IF ~LeaseHolds(lease, consent, CreateConsent)
     THEN Ended("refused", "consent") /\ UNCHANGED host
     ELSE \/ /\ Ended("lost", IF SfdiskAccepts(host, activation) THEN "failed" ELSE "turned_down")
             /\ UNCHANGED host
          \/ /\ SfdiskAccepts(host, activation)
             /\ \/ /\ host' = TableWritten(host, activation)
                   /\ Ended("lost", "failed")
                \/ /\ \E remnant \in {None, "xfs"} :
                        host' = Mapped(TableWritten(host, activation), activation, remnant)
                   /\ Advanced("partitioned")
  /\ Settled
  /\ UNCHANGED <<seen, plan, activation, consent, lease>>

\* Rediscovery until the outcome shows; a use of the disk ends it at once.
\* The attempts are counted, and used up where the outcome does not show.
Rediscovered(shown, used, to) ==
  IF shown
  THEN IF used THEN Ended("lost", "used") ELSE Advanced(to)
  ELSE Ended("lost", "verify") \/ UNCHANGED <<stage, why>>

Exact(s) ==
  Rediscovered(s # None /\ PartitionShown(activation, s),
               s # None /\ (PartitionUsed(activation, s) \/ Signed(activation, s)),
               IF stage = "partitioned" THEN "mapped" ELSE "rechecked")

VerifyPartition ==
  /\ stage = "partitioned" /\ Looks
  /\ seen' \in Discovered /\ Exact(seen')
  /\ UNCHANGED <<plan, activation, consent, lease>>

\* The second crossing starts with the consent and the same discovery.
RecheckPartition ==
  /\ stage = "mapped" /\ Looks
  /\ seen' \in Discovered
  /\ IF LeaseHolds(lease, consent, CreateConsent) THEN Exact(seen') ELSE Ended("lost", "consent")
  /\ UNCHANGED <<plan, activation, consent, lease>>

Format ==
  /\ stage = "rechecked" /\ UNCHANGED meddled
  /\ IF ~LeaseHolds(lease, consent, CreateConsent)
     THEN Ended("lost", "consent") /\ UNCHANGED host
     ELSE \/ /\ Ended("lost", IF MkfsAccepts(host, activation) THEN "failed" ELSE "turned_down")
             /\ UNCHANGED host
          \/ /\ MkfsAccepts(host, activation)
             /\ host' = Formatted(host, activation) /\ Advanced("formatted")
  /\ Settled
  /\ UNCHANGED <<seen, plan, activation, consent, lease>>

VerifyFilesystem ==
  /\ stage = "formatted" /\ UNCHANGED <<host, meddled>>
  /\ seen' \in Discovered
  /\ Rediscovered(seen' # None /\ FormatShown(activation, seen'),
                  seen' # None /\ PartitionUsed(activation, seen'), "created")
  /\ IF stage' = "created" THEN UNCHANGED was ELSE Settled
  /\ UNCHANGED <<plan, activation, consent, lease>>

Create ==
  \/ ListSources \/ PlanCreation \/ FreezeCreation \/ SealCreation \/ ConsentCreation
  \/ PermitCreation \/ PreflightCreation \/ LaunchCreation \/ Partition \/ VerifyPartition
  \/ RecheckPartition \/ Format \/ VerifyFilesystem

-----------------------------------------------------------------------------
\* What plan_create offers and no creation can be activated for.
NotFreezable(s) ==
  \/ plan.req.purpose # "filesystem" \/ plan.req.mount # None
  \/ plan.space.kind \in {"gap", "group"}
  \/ /\ plan.space.kind = "tail"
     /\ \A t \in TablesOf(s, plan.space.disk) :
          \/ t.label = "dos" \/ ~Disjoint(t.parts)
          \/ (plan.space.start * t.sector) % AlignmentBytes # 0

(* A creation that was planned is carried out: on a host nobody else         *)
(* touches, no later gate turns down what plan_create computed, sfdisk and   *)
(* mkfs accept it and verification finds it.  The exceptions are named: the  *)
(* spaces and purposes without an activation, an unaligned tail, a sector    *)
(* size outside the profile, a disk that fstab or a mount names, a kernel    *)
(* that does not show the table, a tool that is missing, and an old          *)
(* superblock where the new partition starts.                                *)
CreatePlansHonoured ==
  meddled = 0 =>
    /\ stage = "refused" =>
         CASE why = "freeze"  -> NotFreezable(seen)
           [] why = "profile" -> activation.sector \notin (IF activation.kind = "tail" THEN TailSectors
                                                           ELSE PlainSectors)
           [] why = "changed" -> \/ InUse(seen, {activation.disk})
                                 \/ activation.kind = "tail" /\ (seen.errors # {} \/ host.broken # {})
           [] why = "missing" -> ~ToolsPresent
           [] OTHER -> TRUE
    /\ stage = "lost" =>
         \/ why = "failed"
         \/ why = "used" /\ Signed(activation, seen)

\* What each outcome promises of a machine.
BareOn(h) ==
  /\ TablesOf(h, activation.disk) = {}
  /\ \A n \in NodesAt(h, activation.disk) :
       n.size = activation.size /\ n.fs = None /\ n.mounts = {} /\ ChildrenOf(h, n) = {}
TailFreeOn(h) ==
  /\ TablesOf(h, activation.disk) = {activation.table}
  /\ \A n \in h.nodes : n.parent = activation.disk /\ n.start # None =>
       \/ n.start + n.size <= activation.start * activation.sector
       \/ n.start >= activation.start * activation.sector + activation.bytes
CreatedOn(h) ==
  LET at == FirstPartition(activation.disk) IN
  /\ \E t \in TablesOf(h, activation.disk) :
       \E p \in t.parts : /\ t.parts = {p} /\ p.node = at
                          /\ p.start = activation.start /\ p.size = activation.count
  /\ \E f \in h.filesystems : /\ f.device = at /\ f.fs = activation.fs
                              /\ f.block * f.count = activation.bytes
  /\ \A m \in h.mounts : m.source \notin {activation.disk, at}

(* What others did to the host meanwhile never makes an outcome untrue: a    *)
(* preflight clears a disk only if it was bare, or a tail only if its table  *)
(* is the frozen one and nothing lies in it, and a creation that completes   *)
(* left one partition at the frozen sectors with a filesystem that fills it. *)
AllocationHeld ==
  /\ stage = "cleared" => \E h \in {was, host} : BareOn(h)
  /\ stage = "tail_ready" => \E h \in {was, host} : TailFreeOn(h)
  /\ stage = "created" => \E h \in {was, host} : CreatedOn(h)

\* The free sectors of a table, one by one.
Taken(t, sector) == \E p \in t.parts : p.start <= sector /\ sector < EndOf(p)
FreeSectors(disk, t) ==
  LET sectors == Sectors(disk, t.sector) IN
  {i \in 1..(sectors - 1) :
     /\ ~Taken(t, i)
     /\ IF t.label = "gpt" THEN i \in t.first..t.last
        ELSE \E j \in 1..(i - 1) : Taken(t, j)}
SectorsOf(x) == x.start..(x.start + x.count - 1)
LastUsable(disk, t) ==
  IF t.label = "gpt" THEN Min({t.last, Sectors(disk, t.sector) - 1})
  ELSE Sectors(disk, t.sector) - 1

(* list_provisioning_opportunities offers every free sector of a table once, *)
(* in ranges that do not touch, and calls a range a tail exactly when the    *)
(* last free sector of the disk is in it and partitions lie before it.       *)
SourcesExact ==
  stage = "listed" =>
    \A disk \in seen.nodes : \A t \in TablesOf(seen, disk.path) :
      LET offers == {x \in Spaces(seen) : x.disk = disk.path} IN
      offers \cap BlockedSpace(disk) = {} =>
        /\ UNION {SectorsOf(x) : x \in offers} = FreeSectors(disk, t)
        /\ \A x, y \in offers : x # y => x.start > y.start + y.count \/ y.start > x.start + x.count
        /\ \A x \in offers :
             x.kind = "tail" <=> t.parts # {} /\ LastUsable(disk, t) \in SectorsOf(x)
=============================================================================
