----------------------------- MODULE SwapSession -----------------------------
(***************************************************************************)
(* One swap migration, from the frozen intent to the table without the     *)
(* swap partition, on a host that other administrators share.  SwapRuntime *)
(* has the journal, the backups, the crashes and the single steps of an    *)
(* fstab update with the data left out; here the data is kept.             *)
(*                                                                         *)
(* A run ends "migrated", "kept" (nothing was changed) or "astray" (a tool  *)
(* has run: the journal says RecoveryRequired, or has stopped between two  *)
(* parts of the migration).                                                *)
(***************************************************************************)
EXTENDS Session, SwapActivation

CONSTANT Migrations     \* a target to grow, and where the swapfile shall go

VARIABLE migration      \* the intent, and what the receipts of its parts say

MigrateInit == migration = None

Swap == migration.intent
SwapConsent == ActivationOf(Swap, None)
SwapLease == LeaseHolds(lease, consent, SwapConsent)

Surveyed == IF "lsblk" \in host.broken THEN {None} ELSE Surveys(was, host)

Planned(intent) == [intent |-> intent, size |-> 0, fstab |-> {}, removal |-> None]

\* `plan swap-migration --freeze-intent`
FreezeMigration ==
  /\ stage = "migrating" /\ Looks
  /\ \E r \in Surveyed, order \in Migrations :
       LET ready == r # None /\ Migratable(r.snapshot, r.aside, order) IN
       /\ seen' = IF r = None THEN None ELSE r.snapshot
       /\ migration' = IF ready THEN Planned(SwapIntent(r.snapshot, order)) ELSE None
       /\ Gate(ready, "meant", "kept", "plan")
  /\ UNCHANGED <<plan, consent, lease>>

SealMigration ==
  /\ stage = "meant" /\ Looks
  /\ Gate(SwapProfile(Swap), "swap_sealed", "kept", "profile")
  /\ UNCHANGED <<seen, plan, migration, consent, lease>>

\* The file at the fixed path, held open from here; the permit is sealed
\* from the receipt and looks at nothing.
ConsentMigration ==
  /\ stage = "swap_sealed" /\ Looks
  /\ consent' \in ConsentDrafts(SwapConsent)
  /\ lease' = IF ConsentVerified(consent', SwapConsent) THEN consent' ELSE None
  /\ Gate(lease' # None, "swap_permitted", "kept", "consent")
  /\ UNCHANGED <<seen, plan, migration>>

\* Fresh evidence, judged behind the consent and before the tools.
PreflightMigration ==
  /\ stage = "swap_permitted" /\ UNCHANGED <<host, was, meddled>>
  /\ \E r \in Surveyed :
       /\ seen' = IF r = None THEN None ELSE r.snapshot
       /\ IF r = None THEN Ended("kept", "discovery")
          ELSE IF ~SwapLease THEN Ended("kept", "consent")
          ELSE IF ~StillMigratable(r.snapshot, r.aside, Swap) THEN Ended("kept", "changed")
          ELSE Gate(SwapTools \subseteq host.tools, "swap_ready", "kept", "missing")
  /\ UNCHANGED <<plan, migration, consent, lease>>

\* The tools are pinned, the launch is built; consent and tools are looked
\* at once more before the journal starts.
LaunchMigration ==
  /\ stage = "swap_ready" /\ Looks
  /\ IF SwapTools \subseteq host.tools
     THEN Gate(SwapLease, "swap_launched", "kept", "consent")
     ELSE Ended("kept", "missing")
  /\ UNCHANGED <<seen, plan, migration, consent, lease>>

\* One tool: it fails for reasons of its own, it turns the request down, or
\* the machine is changed.
Tool(accepts, effect, to) ==
  /\ UNCHANGED meddled
  /\ \/ Ended("astray", IF accepts THEN "failed" ELSE "turned_down") /\ UNCHANGED host
     \/ accepts /\ host' = effect /\ Advanced(to)
  /\ Settled

\* create_exact_swapfile: a new file, allocated to its full size.
CreateSwapfile ==
  /\ stage = "swap_launched"
  /\ Tool(Roomy(host, Swap), SwapfileMade(host, Swap), "allocated")
  /\ UNCHANGED <<seen, plan, migration, consent, lease>>

\* mkswap, then swapon with the priority of the partition.
ActivateSwapfile ==
  /\ stage = "allocated"
  /\ Tool(Swappable(host, Swap), SwapAdded(host, Swap), "activated")
  /\ UNCHANGED <<seen, plan, migration, consent, lease>>

\* Only the swap areas are discovered here and below.
VerifyBoth ==
  /\ stage = "activated" /\ Looks
  /\ Gate(BothSwaps(host, Swap), "both", "astray", "both")
  /\ migration' = [migration EXCEPT
                     !.size = IF BothSwaps(host, Swap) THEN The(AreasNamed(host, Swap.file)).size
                              ELSE 0]
  /\ UNCHANGED <<seen, plan, consent, lease>>

RetireSwap ==
  /\ stage = "both"
  /\ Tool(AreasNamed(host, Swap.swap) # {}, SwapDropped(host, Swap.swap), "retired")
  /\ UNCHANGED <<seen, plan, migration, consent, lease>>

VerifyRetired ==
  /\ stage = "retired" /\ Looks
  /\ Gate(SwapStands(host, Swap, migration.size), "swapped", "astray", "areas")
  /\ UNCHANGED <<seen, plan, migration, consent, lease>>

\* update_production_swap_persistent_config
UpdateFstab ==
  /\ stage = "swapped" /\ UNCHANGED meddled
  /\ IF ~SwapLease THEN Ended("astray", "consent") /\ UNCHANGED <<host, migration>>
     ELSE IF ~SwapStands(host, Swap, migration.size)
     THEN Ended("astray", "areas") /\ UNCHANGED <<host, migration>>
     ELSE IF ~Rewritable(host, Swap)
     THEN Ended("astray", "fstab") /\ UNCHANGED <<host, migration>>
     ELSE \/ Ended("astray", "failed") /\ UNCHANGED <<host, migration>>
          \/ /\ host' = FstabRewritten(host, Swap) /\ Advanced("recorded")
             /\ migration' = [migration EXCEPT !.fstab = host'.fstab]
  /\ Settled
  /\ UNCHANGED <<seen, plan, consent, lease>>

\* What every look at the machine before and behind the removal asks: the
\* swap areas, and fstab to the byte.
StillSwapped(s) ==
  /\ SwapStands(s, Swap, migration.size)
  /\ host.fstab = migration.fstab

\* prepare_production_swap_partition_removal
PrepareRemoval ==
  /\ stage = "recorded" /\ Looks
  /\ seen' \in Discovered
  /\ IF ~SwapLease THEN Ended("astray", "consent") /\ UNCHANGED migration
     ELSE IF seen' = None THEN Ended("astray", "discovery") /\ UNCHANGED migration
     ELSE IF ~StillSwapped(seen') THEN Ended("astray", "areas") /\ UNCHANGED migration
     ELSE /\ Gate(Removable(seen', Swap), "removal_frozen", "astray", "geometry")
          /\ migration' = [migration EXCEPT
                             !.removal = IF Removable(seen', Swap) THEN Removal(seen', Swap) ELSE None]
  /\ UNCHANGED <<plan, consent, lease>>

\* The tools are pinned and the preflight is prepared again: it has to come
\* out the same.
RecheckRemoval ==
  /\ stage = "removal_frozen" /\ Looks
  /\ seen' \in Discovered
  /\ IF ~{"sfdisk", "partx"} \subseteq host.tools THEN Ended("astray", "missing")
     ELSE IF ~SwapLease THEN Ended("astray", "consent")
     ELSE IF seen' = None THEN Ended("astray", "discovery")
     ELSE IF ~StillSwapped(seen') THEN Ended("astray", "areas")
     ELSE Gate(Removable(seen', Swap) /\ Removal(seen', Swap) = migration.removal,
               "removable", "astray", "geometry")
  /\ UNCHANGED <<plan, migration, consent, lease>>

\* sfdisk --delete, and partx for each of the two partitions.
DeletePartitions ==
  /\ stage = "removable"
  /\ Tool(Deletable(host, migration.removal), PartitionsDeleted(host, migration.removal), "deleted")
  /\ UNCHANGED <<seen, plan, migration, consent, lease>>

ForgetPartitions ==
  /\ stage = "deleted"
  /\ Tool(Forgettable(host, migration.removal), Forgotten(host, migration.removal), "removed")
  /\ UNCHANGED <<seen, plan, migration, consent, lease>>

\* verify_post_state, once.
VerifyRemoval ==
  /\ stage = "removed" /\ UNCHANGED <<host, was, meddled>>
  /\ seen' \in Discovered
  /\ IF seen' = None THEN Ended("astray", "discovery")
     ELSE IF ~RemovedIn(seen', migration.removal) THEN Ended("astray", "geometry")
     ELSE Gate(StillSwapped(seen'), "migrated", "astray", "areas")
  /\ UNCHANGED <<plan, migration, consent, lease>>

Migrating == stage = "migrating" \/ migration # None

\* Others, about swap: it is turned off, the machine may resume from it, its
\* line of fstab is edited or doubled, the room or the name of the file is
\* taken, a partition is created behind it in its container.
Sibling(h) ==
  LET free == {x \in UNION {{t} \X t.parts : t \in h.tables} :
                 /\ x[2].type = "swap"
                 /\ \E c \in ExtendedOf(x[1]) : InsideOf(x[2], c) /\ EndOf(x[2]) < EndOf(c)} IN
  [h EXCEPT
     !.tables = {[t EXCEPT !.parts = @ \cup
                    {[node |-> "other", start |-> EndOf(x[2]), size |-> 1, type |-> "linux",
                      uuid |-> "other"] : x \in {y \in free : y[1] = t}}] : t \in h.tables},
     !.nodes = @ \cup {[path |-> "other", kind |-> "partition", parent |-> x[1].device,
                        size |-> x[1].sector, start |-> EndOf(x[2]) * x[1].sector,
                        sector |-> x[1].sector, fs |-> None, uuid |-> None,
                        partuuid |-> "other", mounts |-> {}, label |-> None] : x \in free}]
SwapChanges(h) ==
  {[h EXCEPT !.swaps = {}],
   [h EXCEPT !.resume = TRUE],
   [h EXCEPT !.fstab = {IF e.fs = "swap" THEN [e EXCEPT !.pass = @ + 1] ELSE e : e \in @}],
   [h EXCEPT !.fstab = @ \cup {[e EXCEPT !.target = "/swap"] : e \in {d \in @ : d.fs = "swap"}}],
   [h EXCEPT !.room = {[r EXCEPT !.bytes = 0] : r \in @}],
   [h EXCEPT !.files = @ \cup {SwapfileAt(m.target) : m \in h.mounts}],
   Sibling(h)}

MeddleSwap ==
  /\ Migrating /\ stage \notin Terminal
  /\ meddled < MaxInterference /\ meddled' = meddled + 1
  /\ host' \in SwapChanges(host) \ {host}
  /\ was' = host
  /\ UNCHANGED <<sessionVars, migration>>

Migrate ==
  \/ FreezeMigration \/ SealMigration \/ ConsentMigration \/ PreflightMigration
  \/ LaunchMigration \/ CreateSwapfile \/ ActivateSwapfile \/ VerifyBoth \/ RetireSwap
  \/ VerifyRetired \/ UpdateFstab \/ PrepareRemoval \/ RecheckRemoval \/ DeletePartitions
  \/ ForgetPartitions \/ VerifyRemoval \/ MeddleSwap
-----------------------------------------------------------------------------
\* What the plan asks for on the migrated machine: MaxFree for the target.
AfterMigration(h) ==
  PlanExtend([Read(h, h, 0) EXCEPT !.errors = ErrorsOf(Read(h, h, 0))],
             [target |-> Swap.target, max |-> TRUE, bytes |-> 0])
EndOfTarget(h) ==
  LET n == DeviceOf(Read(h, h, 0), Swap.target) IN n.start + n.size

(* A migration that was planned is carried out: on a host nobody else        *)
(* touches, the executor accepts what the planner froze, and at the end the  *)
(* target can grow over all that is behind it on the disk, which is what the *)
(* migration was for.  The exceptions are named: a line of fstab outside the *)
(* profile, a priority swapon does not take, an area smaller than the one    *)
(* mkswap makes of the same bytes, and sfdisk and partx, which nothing asks  *)
(* for before the old swap is gone.                                          *)
SwapPlansHonoured ==
  meddled = 0 =>
    /\ stage = "kept" =>
         CASE why = "profile" -> Swap.line.dump > 1 \/ Swap.line.pass > 2
           [] OTHER -> why \in {"plan", "consent", "discovery"}
    /\ stage = "astray" =>
         CASE why = "failed"      -> TRUE
           [] why = "turned_down" -> Swap.priority < 0
           [] why = "both"        -> \E a \in AreasNamed(host, Swap.swap) :
                                       a.size # Swap.bytes - PageBytes
           [] why = "missing"     -> ~{"sfdisk", "partx"} \subseteq host.tools
           [] OTHER -> FALSE
    /\ stage = "migrated" =>
         /\ AfterMigration(host).status = "preview"
         /\ AfterMigration(host).growth = The(NodesAt(host, Swap.disk)).size - EndOfTarget(host)

MigratedOn(h) ==
  /\ AreasNamed(h, Swap.swap) = {}
  /\ {<<a.size, a.priority>> : a \in AreasNamed(h, Swap.file)}
        = {<<Swap.bytes - PageBytes, Swap.priority>>}
  /\ NodesAt(h, Swap.swap) = {} /\ \A t \in h.tables : RecordsOf(t, Swap.swap) = {}
  /\ SwapLines(h, Swap.line.source) = {} /\ NewLine(Swap) \in h.fstab
  /\ Swap.file \in h.files

(* Whatever others do meanwhile: a preflight that answers "ready" has seen   *)
(* one machine, and not parts of two, on which the swap partition can be     *)
(* replaced; and a migration that completes leaves a swapfile of the same    *)
(* priority in use and in fstab, and nothing of the partition anywhere.      *)
MigrationHeld ==
  /\ stage = "swap_ready" => \E h \in {was, host} : StillMigratable(h, h, Swap)
  /\ stage = "migrated" => \E h \in {was, host} : MigratedOn(h)
=============================================================================
