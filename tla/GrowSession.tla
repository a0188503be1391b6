----------------------------- MODULE GrowSession -----------------------------
(***************************************************************************)
(* One growth, from discovery to the last verified layer, on a host that   *)
(* other administrators share.  ApplyExtend has the journal, the lock and  *)
(* the crashes of the same run with its data left out; here the data is    *)
(* kept: what the planner computed from the snapshot, what each gate       *)
(* compares, what the storage tools do to the host, and what verification  *)
(* reads back.                                                             *)
(*                                                                         *)
(* Any step of the others may come between two steps of the session.  A    *)
(* run ends "done", "stopped" (nothing was started) or in "recovery"       *)
(* (RecoveryRequired: a mutation may have happened).                       *)
(***************************************************************************)
EXTENDS Session

CONSTANT Requests    \* the requests an operator may type

VARIABLES
  cli,       \* TRUE: `apply extend`; FALSE: the chained profile's caller
  handoff,   \* the frozen manifest and tools
  backup,    \* the metadata artifacts captured
  decision,  \* the filesystem decision the evidence records
  intent,    \* the frozen intent, then the native manifest
  baseline,  \* the manifest the next step is compared with
  next       \* the mutation step to run

sealed == <<handoff, backup, decision, intent>>
growVars == <<cli, sealed, baseline, next>>

GrowInit ==
  /\ cli \in IF stage = "idle" THEN BOOLEAN ELSE {FALSE}
  /\ handoff = None /\ backup = None /\ decision = None /\ intent = <<>>
  /\ baseline = None /\ next = 1

Target == plan.req.target
Step == MutationsOf(intent)[next].does
Activation == ActivationOf(intent, handoff.manifest)

-----------------------------------------------------------------------------
(* The session *)

Discover ==
  /\ stage = "idle" /\ Looks
  /\ seen' \in Discovered
  /\ Gate(seen' # None, "seen", "stopped", "discovery")
  /\ UNCHANGED <<plan, cli, sealed, baseline, next, consent, lease>>

\* `apply extend` asks for all the extents there are: a probe for one byte
\* tells which group, and a probe without a volume to grow ends the run.
OneByte(req) == [req EXCEPT !.max = FALSE, !.bytes = 1]
Narrowed(s, req, probe) ==
  LET grown == {l \in s.lvs : \E i \in DOMAIN probe.steps :
                  probe.steps[i].op = "extend_lv" /\ probe.steps[i].lv = l.uuid} IN
  IF ~req.max THEN req
  ELSE [req EXCEPT
          !.max = FALSE,
          !.bytes = CASE grown = {} -> 0
                      [] "resize_pv" \in StepKinds(probe) -> probe.growth
                      [] OTHER -> The(GroupOf(s, The(grown))).free]

PlanGrowth ==
  /\ stage = "seen" /\ Looks
  /\ \E req \in Requests :
       plan' = PlanExtend(seen, IF cli THEN Narrowed(seen, req, PlanExtend(seen, OneByte(req)))
                                ELSE req)
  /\ Gate(/\ plan'.status = "preview"
          /\ cli => Ops(Frozen(plan')) = <<"extend_lv", "grow_fs">>,
          "planned", "stopped", "plan")
  /\ UNCHANGED <<seen, cli, sealed, baseline, next, consent, lease>>

\* build_frozen_execution_handoff
HandOff ==
  /\ stage = "planned" /\ Looks
  /\ handoff' = IF HandoffReady(plan, seen)
                THEN [manifest |-> Manifest(seen, Target), tools |-> seen.tools]
                ELSE None
  /\ Gate(HandoffReady(plan, seen), "handed", "stopped", "blocked")
  /\ UNCHANGED <<seen, plan, cli, backup, decision, intent, baseline, next, consent, lease>>

\* The lock is held from here; a fresh snapshot must show the same target.
Revalidated ==
  /\ stage = "handed" /\ Looks
  /\ seen' \in Discovered
  /\ Gate(/\ seen' # None
          /\ SameTarget(handoff.manifest, seen', Target)
          /\ seen'.tools = handoff.tools,
          "locked", "stopped", "changed")
  /\ UNCHANGED <<plan, cli, sealed, baseline, next, consent, lease>>

\* The tools read the machine as it is now, not the snapshot.
BackUp ==
  /\ stage = "locked" /\ Looks
  /\ LET possible == /\ BackupPossible(plan, handoff.manifest)
                     /\ \A x \in BackupSteps(plan) : CaptureTool(x) \in host.tools IN
     /\ backup' = IF possible THEN {Artifact(host, x) : x \in BackupSteps(plan)} ELSE None
     /\ Gate(possible, "backed", "stopped", "backup")
  /\ UNCHANGED <<seen, plan, cli, handoff, decision, intent, baseline, next, consent, lease>>

\* Judged from the snapshot of Revalidated; a check of an ext4 that is not
\* mounted reads the device itself.
GatherEvidence ==
  /\ stage = "backed" /\ Looks
  /\ \E passed \in BOOLEAN : decision' = DecidedWith(seen, Target, passed)
  /\ Gate(EvidenceComplete(handoff, seen, Target, decision'), "evidenced", "stopped",
          "evidence")
  /\ UNCHANGED <<seen, plan, cli, handoff, backup, intent, baseline, next, consent, lease>>

Approve ==
  /\ stage = "evidenced" /\ Looks
  /\ \E phrase \in BOOLEAN : Gate(phrase, "approved", "stopped", "declined")
  /\ UNCHANGED <<seen, plan, cli, sealed, baseline, next, consent, lease>>

FreezeIntent ==
  /\ stage = "approved" /\ Looks
  /\ intent' = Frozen(plan)
  /\ Gate(/\ \A i \in DOMAIN plan.steps : Freezes(plan.steps[i], handoff.manifest, decision)
          /\ NativeValid(intent'),
          "frozen", "stopped", "intent")
  /\ UNCHANGED <<seen, plan, cli, handoff, backup, decision, baseline, next, consent, lease>>

\* The last look at the machine before it is changed, and the profile.
Seal ==
  /\ stage = "frozen" /\ Looks
  /\ seen' \in Discovered
  /\ baseline' = IF seen' # None /\ Captured(seen', Target)
                 THEN Manifest(seen', Target) ELSE None
  /\ Gate(/\ seen' # None /\ Captured(seen', Target)
          /\ baseline' = handoff.manifest /\ seen'.tools = handoff.tools
          /\ IF cli THEN LvProfile(intent) /\ LvBinding(intent, baseline')
             ELSE Activates(intent, baseline'),
          "sealed", "stopped", "unsupported")
  /\ UNCHANGED <<plan, cli, sealed, next, consent, lease>>

\* The CLI records the consent itself; the chained profile reads the one at
\* the fixed path.  Either way the file is held open from here.
PinConsent ==
  /\ stage = "sealed" /\ Looks
  /\ consent' \in IF cli THEN {ConsentRecord(Activation)} ELSE ConsentDrafts(Activation)
  /\ lease' = IF ConsentVerified(consent', Activation) THEN consent' ELSE None
  /\ Gate(lease' # None, "pinned", "stopped", "consent")
  /\ UNCHANGED <<seen, plan, cli, sealed, baseline, next>>

\* The request for one step: compiled against the last verified manifest,
\* its tool found and pinned, then the durable start.  A continuation has a
\* started journal behind it.
Prepare ==
  /\ stage \in {"pinned", "verified"} /\ Looks
  /\ LET end == IF stage = "pinned" THEN "stopped" ELSE "recovery" IN
     IF ~Compiles(Step, baseline) THEN Ended(end, "compile")
     ELSE Gate(ProgramOf(Step) \in host.tools, "prepared", end, "missing")
  /\ UNCHANGED <<seen, plan, cli, sealed, baseline, next, consent, lease>>

\* One process.  The consent is looked at again, the machine is not.  The
\* tool may also fail for reasons of its own.
Spawn ==
  /\ stage = "prepared" /\ UNCHANGED meddled
  /\ \/ /\ ~LeaseHolds(lease, consent, Activation)
        /\ Ended("recovery", "consent") /\ UNCHANGED host
     \/ /\ LeaseHolds(lease, consent, Activation)
        /\ \/ /\ Accepts(host, Step, baseline.device) /\ Advanced("applied")
              /\ host' = Effect(host, Step, baseline.device)
           \/ /\ ~Accepts(host, Step, baseline.device) /\ Ended("recovery", "refused")
              /\ UNCHANGED host
           \/ Ended("recovery", "failed") /\ UNCHANGED host
  /\ Settled
  /\ UNCHANGED <<seen, plan, cli, sealed, baseline, next, consent, lease>>

\* Rediscovery until the layer shows its new state; what it shows becomes
\* the baseline of the next step.  A discovery that fails or does not show
\* it may be repeated, a different set of tools may not.
VerifyLayer ==
  /\ stage = "applied" /\ UNCHANGED <<host, meddled>>
  /\ seen' \in Discovered
  /\ IF seen' # None /\ seen'.tools # handoff.tools
     THEN Ended("recovery", "changed") /\ Settled /\ UNCHANGED <<baseline, next>>
     ELSE \E fresh \in {IF seen' # None /\ Captured(seen', Target)
                        THEN Manifest(seen', Target) ELSE None} :
     IF fresh = None \/ ~Verifies(Step, baseline, fresh)
     THEN /\ Settled /\ UNCHANGED <<baseline, next>>
          /\ Ended("recovery", "verify") \/ UNCHANGED <<stage, why>>
     ELSE /\ baseline' = fresh
          /\ IF next = Len(MutationsOf(intent))
             THEN Advanced("done") /\ UNCHANGED <<was, next>>
             ELSE Advanced("verified") /\ next' = next + 1 /\ Settled
  /\ UNCHANGED <<plan, cli, sealed, consent, lease>>

Grow ==
  \/ Discover \/ PlanGrowth \/ HandOff \/ Revalidated \/ BackUp \/ GatherEvidence
  \/ Approve \/ FreezeIntent \/ Seal \/ PinConsent \/ Prepare \/ Spawn \/ VerifyLayer

-----------------------------------------------------------------------------
\* The layers changed so far.
Changed ==
  LET ms == MutationsOf(intent) IN
  {ms[i].does : i \in {j \in DOMAIN ms : j < next \/ (j = next /\ stage \in {"applied", "done"})}}

PlannedOps == StepKinds(plan) \cap Mutations
ThroughPv == "resize_pv" \in PlannedOps
ProfiledOps == {{"extend_lv", "grow_fs"},
                {"extend_partition", "resize_pv", "extend_lv", "grow_fs"}}

\* The last step of every plan but for the verification.
FsStep == plan.steps[Len(plan.steps) - 1]
OnTarget == {f \in host.filesystems : f.device = DeviceOf(plan.basis, Target).path}

\* The machine does not let the filesystem grow where it is mounted, or the
\* route through the physical volume met a machine without the tool.
NotGrowable ==
  \/ ThroughPv /\ GrowTool(FsStep.fs) \notin host.tools
  \/ FsStep.fs = "xfs" /\ \A f \in OnTarget : ~f.grows
  \/ /\ FsStep.fs = "ext4" /\ FsStep.mount # None
     /\ "tune2fs" \notin host.tools \/ \A f \in OnTarget : ~f.features

\* Of an ext4 that is mounted, the superblock says it wants a check; one that
\* is not mounted failed the check, and nothing but the check was missing.
NotHealthy ==
  /\ FsStep.fs = "ext4"
  /\ IF FsStep.mount # None THEN \A f \in OnTarget : ~f.clean
     ELSE EvidenceComplete(handoff, seen, Target, DecidedWith(seen, Target, TRUE))

(* A plan is carried out: on a host nobody else touches, a preview is turned *)
(* down by a later gate, by a storage tool or by verification for no reason  *)
(* but these.  Before the first change: the operator declines, or consents   *)
(* to something else; `apply extend` runs one profile, the chained caller    *)
(* two, and there is none for other plans or a filesystem without a UUID;    *)
(* the filesystem itself may not grow (NotGrowable) or may be unhealthy      *)
(* (NotHealthy); a partition of sectors other than 512 or 4096 bytes has no  *)
(* intent; and the route through the physical volume asked for no tool, so   *)
(* that its backups may not be possible.  After it: a tool fails of itself;  *)
(* a tool of that route is missing; and the size of the filesystem cannot be *)
(* observed, which no plan for one that is not mounted asked for.            *)
PlansHonoured ==
  meddled = 0 =>
    /\ stage = "stopped" =>
         CASE why = "discovery" -> "lsblk" \in host.broken
           [] why = "plan" -> \/ plan.status = "blocked"
                              \/ cli /\ PlannedOps # {"extend_lv", "grow_fs"}
           [] why = "blocked" -> NotGrowable
           [] why = "backup" -> ThroughPv /\ ~{"sfdisk", "vgcfgbackup"} \subseteq host.tools
           [] why = "evidence" -> NotHealthy
           [] why = "intent" -> \E i \in DOMAIN plan.steps :
                plan.steps[i].op = "extend_partition" /\ plan.steps[i].sector \notin PlainSectors
           [] why = "unsupported" -> /\ ~cli
                                     /\ \/ PlannedOps \notin ProfiledOps
                                        \/ DeviceOf(plan.basis, Target).uuid = None
           [] why = "consent" -> ~cli /\ consent # ConsentRecord(Activation)
           [] OTHER -> why = "declined"
    /\ stage = "recovery" =>
         \/ why = "failed"
         \/ why = "missing" /\ ThroughPv /\ Step.op \in {"resize_pv", "extend_lv"}
         \/ why = "verify" /\ Step.op = "grow_fs" /\ handoff.manifest.fsize = None

\* What a completed run promises of a machine.
CompletedOn(h) ==
  LET path == handoff.manifest.device IN
  /\ \A x \in Changed : x.op = "extend_lv" =>
       \E l \in h.lvs : l.uuid = x.lv /\ l.size = x.to
  /\ Unique(NodesAt(h, path))
  /\ \A n \in NodesAt(h, path) :
       /\ {n.fs} = {m.fs : m \in DiskIn(handoff.manifest, path)}
       /\ \A f \in h.filesystems : f.device = path =>
            f.count * f.block <= n.size /\ n.size - f.count * f.block < f.block
  /\ {m \in h.mounts : m.source = path} = handoff.manifest.mounts

(* Whatever others did to the host meanwhile, a completed run left the       *)
(* volume at the size the operator approved, and a filesystem of the same    *)
(* type, mounted as before, that fills it.  The last discovery says so of    *)
(* the machine as it was before or after a change made during it.            *)
CompletedAsPlanned == stage = "done" => \E h \in {was, host} : CompletedOn(h)

(* The filesystem that is grown is the one the operator approved.  Refuted:  *)
(* the volume's verification reads nothing of the filesystem on it, and the  *)
(* manifest it was read from is what the filesystem step is compared with.   *)
FilesystemKept ==
  stage = "done" =>
    {n.uuid : n \in NodesAt(host, handoff.manifest.device)}
      = {n.uuid : n \in DiskIn(handoff.manifest, handoff.manifest.device)}

\* An artifact holds what the step changes, as it was frozen.
Restorable(x) ==
  CASE x.op = "extend_partition" ->
         \E a \in backup : /\ a.step.op = "backup_table"
                           /\ \E p \in a.records : /\ p.node = x.node
                                                   /\ p.start = x.start /\ p.size = x.old
    [] x.op = "resize_pv" ->
         \E a \in backup : /\ a.step.op = "backup_lvm"
                           /\ {v \in handoff.manifest.lvm.pvs : v.uuid = x.pv} \subseteq a.records
    [] x.op = "extend_lv" ->
         \E a \in backup : /\ a.step.op = "backup_lvm"
                           /\ {l \in handoff.manifest.lvm.lvs : l.uuid = x.lv} \subseteq a.records
    [] OTHER -> TRUE

(* Every layer that was changed can be put back: an artifact holds its       *)
(* record as the frozen manifest had it, although the artifacts were taken   *)
(* from the live host and not from the snapshot the manifest came from.      *)
BackupRestores == \A x \in Changed : Restorable(x)

LvSizesAgree(s) == \A l \in s.lvs : \A n \in NodesAt(s, l.path) : n.size = l.size
MostOf(n) == PlanExtend(seen, [target |-> TargetName(n), max |-> TRUE, bytes |-> 0])
Asked(target, bytes) == PlanExtend(seen, [target |-> target, max |-> FALSE, bytes |-> bytes])

(* For every target list_extend_targets offers: what plan_extend says of     *)
(* MaxFree is what there is.  Asking for that many bytes is granted and      *)
(* grants no more, one byte more is turned down, and where MaxFree finds     *)
(* nothing no request is granted.  It holds where every tool is installed,   *)
(* the filesystem has a UUID and the reading is not torn between lsblk and   *)
(* lvs: the route through the physical volume asks for none of these.        *)
MaxFreeIsMax ==
  stage = "seen" /\ seen.tools = Tools /\ LvSizesAgree(seen) =>
    \A n \in {m \in Targets(seen) : m.uuid # None} : \A most \in {MostOf(n)} :
      IF Availability(seen, n) = "preview"
      THEN /\ \A p \in {Asked(TargetName(n), most.growth)} :
                p.status = "preview" /\ p.growth = most.growth
           /\ Asked(TargetName(n), most.growth + 1).status = "blocked"
      ELSE \A bytes \in 1..4 : Asked(TargetName(n), bytes).status = "blocked"

\* To the extent: what is there leaves less than one extent over.
FillsUp(n, most, room) ==
  \E k \in {LvmStack(seen, n)} :
    most.growth <= room + Slack(k.v, k.b) /\ room + Slack(k.v, k.b) < most.growth + k.g.extent

\* Both found something: the amounts agree.
SameAmount(n, most, a) ==
  CASE a.now \in Nat /\ "resize_pv" \notin StepKinds(most) -> most.growth = a.now
    [] a.now \in Nat -> \A below \in {BelowGroup(seen, LvmStack(seen, n).g)} \ {None} :
                          FillsUp(n, most, a.now + below)
    [] a.below \in Nat -> most.growth = a.below
    [] OTHER -> a.status # "unsupported"

NeededTools(n, a) ==
  CASE n.kind = "partition" -> {"sfdisk", GrowTool(n.fs)}
    [] a.status = "ready" -> {"vgcfgbackup", "lvextend", GrowTool(n.fs)}
                             \cup (IF n.mounts = {} THEN {"e2fsck"} ELSE {})
    [] OTHER -> {}

\* The analysis found room and the planner offers none of it.
Withheld(n, a) ==
  \/ ~Collected(seen, Components \ (IF n.kind = "lvm" THEN {} ELSE {"lvm"}))
  \/ ~NeededTools(n, a) \subseteq seen.tools
  \/ Cardinality(n.mounts) > 1
  \/ a.status = "needs_resize" /\ n.mounts = {}
  \/ /\ n.kind = "partition"
     /\ \E t \in seen.tables : \E p \in RecordsOf(t, n.path) :
          p.type \in ProtectedGptTypes \cup ProtectedDosTypes
  \/ /\ n.kind = "lvm"
     /\ \E k \in {LvmStack(seen, n)} :
          \/ ~k.l.linear \/ ~k.g.writable \/ k.g.pvcount > 1
          \/ a.status = "needs_resize" /\ a.below + Slack(k.v, k.b) < k.g.extent

(* analyze_extendability and plan_extend read the same evidence, in code     *)
(* written apart, and agree both ways.  What the planner offers is what the  *)
(* analysis counts, and not a byte more: the free extents, the sectors       *)
(* behind a partition, or, where a volume also takes what lies under its     *)
(* group, all of it to the last whole extent, with what the physical volume  *)
(* leaves unused on its device.  And where the analysis finds room the       *)
(* planner offers it, but for what only the planner asks for: every          *)
(* collector, the tools of the route, one mount (any mount at all unless     *)
(* there are free extents), a partition of no protected type, a linear       *)
(* volume in a writable group of one physical volume, room for an extent.    *)
(* The second way is stated of readings that are of one moment.              *)
AnalysisAgrees ==
  stage = "seen" =>
    \A n \in Targets(seen) : \A most \in {MostOf(n)} :
    \A a \in {Analyze(seen, TargetName(n), TargetName(n) \in Devices)} :
      IF most.status = "preview" THEN SameAmount(n, most, a)
      ELSE a.status \in {"ready", "needs_resize"} /\ seen \in Readings(host, host)
             => Withheld(n, a)

(* A layout opportunity is arithmetic about a table that does not exist yet: *)
(* with the container and its swap partition gone, what lies behind the      *)
(* target is the gain and the room for the swap file, to the byte.           *)
OpportunityHonest ==
  stage = "seen" =>
    \A n \in Targets(seen) : \A o \in {LayoutOpportunity(seen, TargetName(n))} :
      o.found =>
        \A disk \in NodesAt(seen, o.disk) :
        \A t \in TablesOf(seen, o.disk) : \A p \in RecordsOf(t, n.path) :
          LET emptied == [t EXCEPT !.parts = {q \in @ : q.node \notin {o.swap, o.container}}] IN
          AdjacentFree(disk, emptied, p) * o.sector = o.gain + o.swapbytes
=============================================================================
