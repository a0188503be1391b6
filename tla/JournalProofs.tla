--------------------------- MODULE JournalProofs ---------------------------
(***************************************************************************)
(* The operation journal: its state machine, its store, and the writer of  *)
(* a staging file.                                                         *)
(*                                                                         *)
(* The state machine, for any plans, targets, step sequences and any       *)
(* number of transitions: the store accepts whatever the state machine     *)
(* produces (StoreAccepts), and a restart is proposed only for an          *)
(* operation that never was past the mutation boundary                     *)
(* (RestartOnlyBeforeMutation).  The store checks a binding against a      *)
(* state it reconstructs from the last one, by cutting the history before  *)
(* the event that made the binding.  JInv says that up to Executing there  *)
(* is one way only to each phase, so the reconstructed state is the one    *)
(* that was approved.                                                      *)
(*                                                                         *)
(* The store, one file-system operation at a time, for any IDs, any number *)
(* of events and any number of calls: nothing acknowledged is lost and     *)
(* what a crash leaves can be read (CrashConsistent), all() returns what   *)
(* the directory holds (ReadIsCurrent), and at the granularity of calls    *)
(* the directory is the store of DurableStore (ImplementsDurableStore).    *)
(* DInv speaks of what is under the names of every directory a crash may   *)
(* leave.  PendingInv says how the first of these may differ from the one  *)
(* in place, ID by ID: by one rename and the creation of a staging file;   *)
(* BaseInv, what a call in progress has done since it began.  Both are     *)
(* formulas on values, so that a step is one from values to values.        *)
(*                                                                         *)
(* The isolated writer, StagedWriter, is the last section.                 *)
(***************************************************************************)
EXTENDS JournalMachine, JournalStore, StagedWriter, TLAPS

-----------------------------------------------------------------------------
(* The state machine                                                       *)

(* None is no binding: Option::None is not Some.                           *)
OptionsDiffer ==
  /\ \A plan, evidence, target, session, preconditions, id :
       None # [plan |-> plan, evidence |-> evidence, target |-> target,
               session |-> session, preconditions |-> preconditions,
               id |-> id]
  /\ \A owner, plan, approval, manifest, identity, steps, approved, id :
       None # [journal |-> owner, plan |-> plan, approval |-> approval,
               manifest |-> manifest, identity |-> identity,
               steps |-> steps, approved |-> approved, id |-> id]
  /\ \A schema, execution, completed, next, identity, final,
        finalIdentity, id :
       None # [schema |-> schema, execution |-> execution,
               completed |-> completed, next |-> next,
               identity |-> identity, final |-> final,
               finalIdentity |-> finalIdentity, id |-> id]

EventCodes == {"host-lock-acquired", "identity-revalidated",
               "preconditions-verified", "exact-plan-approved",
               "execution-started", "verification-started",
               "verification-passed-continue",
               "verification-passed-complete", "completed",
               "interrupted-after-mutation-boundary",
               "interrupted-before-mutation",
               "abort-after-mutation-boundary", "aborted"}
EventTypes == [from : Phases, to : Phases, code : EventCodes]

Event(from, to, code) == [from |-> from, to |-> to, code |-> code]

(* The events up to the mutation boundary, and how many of them a phase    *)
(* before it has behind it.                                                *)
Way == <<Event("Planned", "HostLockHeld", "host-lock-acquired"),
         Event("HostLockHeld", "IdentityRevalidated",
               "identity-revalidated"),
         Event("IdentityRevalidated", "PreconditionsVerified",
               "preconditions-verified"),
         Event("PreconditionsVerified", "Approved", "exact-plan-approved"),
         Event("Approved", "Executing", "execution-started")>>

Done(phase) ==
  CASE phase = "Planned" -> 0
    [] phase = "HostLockHeld" -> 1
    [] phase = "IdentityRevalidated" -> 2
    [] phase = "PreconditionsVerified" -> 3
    [] phase = "Approved" -> 4
    [] OTHER -> 5

OnTheWay(events, n) ==
  Len(events) >= n /\ \A i \in 1..n : events[i] = Way[i]

(* The journal when the approval, and when the start was made for it.      *)
JournalAt(phase, approval, events) ==
  [id |-> JournalId, plan |-> OwnPlan, baseline |-> Baseline,
   phase |-> phase, mutated |-> FALSE, approval |-> approval,
   execution |-> None, boundary |-> None, events |-> events]

Verified == JournalAt("PreconditionsVerified", None, SubSeq(Way, 1, 3))
ApprovedBy(a) == JournalAt("Approved", a, SubSeq(Way, 1, 4))

IsJournal(j) ==
  /\ j = [id |-> JournalId, plan |-> OwnPlan, baseline |-> Baseline,
          phase |-> j.phase, mutated |-> j.mutated,
          approval |-> j.approval, execution |-> j.execution,
          boundary |-> j.boundary, events |-> j.events]
  /\ j.phase \in Phases
  /\ j.mutated = (j.phase \in MutationPhases)
  /\ j.events \in Seq(EventTypes)

IsBoundary(b) ==
  b = [schema |-> b.schema, execution |-> b.execution,
       completed |-> b.completed, next |-> b.next, identity |-> b.identity,
       final |-> b.final, finalIdentity |-> b.finalIdentity, id |-> b.id]

(* The events before the mutation boundary are those of the way.           *)
WayInv(j) ==
  j.phase \in PreMutationPhases =>
    /\ Len(j.events) = Done(j.phase)
    /\ OnTheWay(j.events, Done(j.phase))

ApprovalInv(j) ==
  IF j.approval = None
  THEN /\ EventsFromTo(j, "PreconditionsVerified", "Approved") = {}
       /\ j.phase \notin {"Approved"} \cup MutationPhases
  ELSE /\ OnTheWay(j.events, 4)
       /\ j.approval.plan = OwnPlan
       /\ j.approval.target = Baseline
       /\ j.approval.id = ApprovalId(j.approval)
       /\ j.approval.preconditions = Fingerprint(Verified)
       /\ j.phase \in {"Approved", "Aborted"} \cup MutationPhases

ExecutionInv(j) ==
  IF j.execution = None
  THEN /\ EventsFromTo(j, "Approved", "Executing") = {}
       /\ j.phase \notin MutationPhases
       /\ j.boundary = None
  ELSE /\ OnTheWay(j.events, 5)
       /\ MutationSteps(j.execution.steps)
       /\ j.execution.journal = JournalId
       /\ j.execution.plan = OwnPlan
       /\ j.approval # None
       /\ j.execution.approval = j.approval.id
       /\ j.execution.identity = Baseline
       /\ j.execution.id = ExecutionId(j.execution)
       /\ j.execution.approved = Fingerprint(ApprovedBy(j.approval))
       /\ j.phase \in MutationPhases

BoundaryInv(j) ==
  /\ j.boundary # None => IsBoundary(j.boundary)
  /\ BoundaryBindingValid(j)
  /\ HasEvent(j, "verification-passed-complete") => j.phase = "Completed"

Good(j) ==
  /\ IsJournal(j)
  /\ EventChainValid(j)
  /\ WayInv(j) /\ ApprovalInv(j) /\ ExecutionInv(j) /\ BoundaryInv(j)

(* A later state of the same journal, as history_matches_final and         *)
(* persist_if_matches compare two states, past a boundary once crossed.    *)
Follows(j, k) ==
  /\ HistoryMatchesFinal(j, k)
  /\ j.mutated => k.mutated

JInv ==
  /\ Good(journal)
  /\ history \in Seq(KnownStates)
  /\ \A i \in DOMAIN history :
       Good(history[i]) /\ Follows(history[i], journal)

-----------------------------------------------------------------------------
(* The way is a sequence of events (the first five transitions of apply).  *)
LEMMA WayType ==
  /\ Way \in Seq(EventTypes) /\ Len(Way) = 5
  /\ Way[1] = Event("Planned", "HostLockHeld", "host-lock-acquired")
  /\ Way[2] = Event("HostLockHeld", "IdentityRevalidated",
                    "identity-revalidated")
  /\ Way[3] = Event("IdentityRevalidated", "PreconditionsVerified",
                    "preconditions-verified")
  /\ Way[4] = Event("PreconditionsVerified", "Approved",
                    "exact-plan-approved")
  /\ Way[5] = Event("Approved", "Executing", "execution-started")
  BY DEF Way, Event, EventTypes, EventCodes, Phases

(* What push_event does to the history: the chain stays whole, nothing     *)
(* earlier changes, and the events of every kind are those there were and  *)
(* the new one.                                                            *)
Pushed(j, k, to, code) ==
  /\ k.events \in Seq(EventTypes)
  /\ Len(k.events) = Len(j.events) + 1
  /\ \A i \in 1..Len(j.events) : k.events[i] = j.events[i]
  /\ k.events[Len(k.events)] = Event(j.phase, to, code)
  /\ EventChainValid(k)
  /\ EventsExtend(j.events, k.events)
  /\ \A n \in Nat : OnTheWay(j.events, n) => OnTheWay(k.events, n)
  /\ \A from, to2, i :
       i \in EventsFromTo(k, from, to2) <=>
         \/ i \in EventsFromTo(j, from, to2)
         \/ i = Len(k.events) /\ from = j.phase /\ to2 = to
  /\ \A c : HasEvent(k, c) <=> HasEvent(j, c) \/ c = code

(* This is what it does to every valid history, in apply's last lines.     *)
LEMMA Appended ==
  ASSUME NEW j, IsJournal(j), EventChainValid(j),
         NEW to \in Phases, NEW code \in EventCodes,
         <<j.phase, to>> \in AllowedTransitions,
         NEW k, k.phase = to,
         k.events = Append(j.events, [from |-> j.phase, to |-> to,
                                      code |-> code])
  PROVE  Pushed(j, k, to, code)
<1> DEFINE e == [from |-> j.phase, to |-> to, code |-> code]
           n == Len(j.events)
<1>1. /\ j.events \in Seq(EventTypes) /\ j.phase \in Phases
      /\ e \in EventTypes /\ e = Event(j.phase, to, code) /\ n \in Nat
      /\ e.from = j.phase /\ e.to = to /\ e.code = code
      /\ k.events = Append(j.events, e)
  BY DEF IsJournal, EventTypes, Event
<1> HIDE DEF e
<1>2. /\ k.events \in Seq(EventTypes) /\ Len(k.events) = n + 1
      /\ \A i \in 1..n : k.events[i] = j.events[i]
      /\ k.events[n + 1] = e
      /\ DOMAIN k.events = 1..(n + 1) /\ DOMAIN j.events = 1..n
  BY <1>1
<1>n. n \in Nat
  BY <1>1
<1> HIDE DEF n
<1>3. EventChainValid(k)
  <2>1. ASSUME NEW i \in 1..(n + 1)
        PROVE  /\ k.events[i].from = PhaseBefore(k.events, i)
               /\ <<k.events[i].from, k.events[i].to>> \in AllowedTransitions
    <3>1. CASE i \in 1..n
      <4>1. PhaseBefore(k.events, i) = PhaseBefore(j.events, i)
        BY <1>1, <1>2, <3>1 DEF PhaseBefore
      <4>2. QED
        BY <1>2, <3>1, <4>1 DEF EventChainValid
    <3>2. CASE i = n + 1
      <4>1. PhaseBefore(k.events, n + 1) = PhaseBefore(j.events, n + 1)
        BY <1>1, <1>2 DEF PhaseBefore
      <4>2. PhaseBefore(j.events, n + 1) = j.phase
        BY DEF EventChainValid, n
      <4>3. QED
        BY <1>1, <1>2, <3>2, <4>1, <4>2
    <3>3. i \in 1..n \/ i = n + 1
      BY <1>n
    <3>4. QED
      BY <3>1, <3>2, <3>3
  <2>2. PhaseBefore(k.events, n + 2) = k.events[n + 1].to
    <3>1. n + 2 # 1 /\ (n + 2) - 1 = n + 1
      BY <1>n
    <3>2. QED
      BY <3>1 DEF PhaseBefore
  <2>3. QED
    BY <1>1, <1>2, <2>1, <2>2 DEF EventChainValid
<1>4. EventsExtend(j.events, k.events)
  BY <1>1, <1>2 DEF EventsExtend, n
<1>5. \A m \in Nat : OnTheWay(j.events, m) => OnTheWay(k.events, m)
  BY <1>1, <1>2 DEF OnTheWay, n
<1>6. \A from, to2, i :
        i \in EventsFromTo(k, from, to2) <=>
          \/ i \in EventsFromTo(j, from, to2)
          \/ i = n + 1 /\ from = j.phase /\ to2 = to
  BY <1>1, <1>2 DEF EventsFromTo
<1>7. \A c : HasEvent(k, c) <=> HasEvent(j, c) \/ c = code
  BY <1>1, <1>2 DEF HasEvent
<1>8. QED
  BY <1>1, <1>2, <1>3, <1>4, <1>5, <1>6, <1>7 DEF n, Pushed

-----------------------------------------------------------------------------
(* A journal after a transition, with bindings that may be new.            *)
After(j, to, code, approval, execution, boundary) ==
  [id |-> JournalId, plan |-> OwnPlan, baseline |-> Baseline,
   phase |-> to, mutated |-> to \in MutationPhases,
   approval |-> approval, execution |-> execution, boundary |-> boundary,
   events |-> Append(j.events, [from |-> j.phase, to |-> to,
                                code |-> code])]

(* What a transition is allowed to be: an arrow of the state machine, with *)
(* the event of the way before the mutation boundary.                      *)
Allowed(j, to, code) ==
  /\ to \in Phases /\ code \in EventCodes
  /\ <<j.phase, to>> \in AllowedTransitions
  /\ to \in PreMutationPhases => code = Way[Done(to)].code

(* Where the arrows lead: not out of a terminal phase, not back over the   *)
(* mutation boundary, and over it from Approved only.                      *)
LEMMA Arrows ==
  ASSUME NEW from, NEW to, <<from, to>> \in AllowedTransitions
  PROVE  /\ from \notin TerminalPhases
         /\ from \in MutationPhases => to \in MutationPhases
         /\ to \in MutationPhases =>
              from \in MutationPhases \/ (from = "Approved" /\ to = "Executing")
         /\ to = "Approved" => from = "PreconditionsVerified"
         /\ from = "Approved" => to \in {"Executing", "Aborted"}
         /\ to \in PreMutationPhases =>
              /\ from \in PreMutationPhases
              /\ Done(from) \in 0..3 /\ Done(to) = Done(from) + 1
              /\ Way[Done(to)].from = from /\ Way[Done(to)].to = to
<1>1. to \in PreMutationPhases =>
        \/ from = "Planned" /\ to = "HostLockHeld"
        \/ from = "HostLockHeld" /\ to = "IdentityRevalidated"
        \/ from = "IdentityRevalidated" /\ to = "PreconditionsVerified"
        \/ from = "PreconditionsVerified" /\ to = "Approved"
  BY DEF AllowedTransitions, PreMutationPhases
<1>2. to \in PreMutationPhases =>
        /\ from \in PreMutationPhases
        /\ Done(from) \in 0..3 /\ Done(to) = Done(from) + 1
        /\ Way[Done(to)].from = from /\ Way[Done(to)].to = to
  BY <1>1, WayType DEF Done, PreMutationPhases, Event
<1>3. QED
  BY <1>2 DEF AllowedTransitions, PreMutationPhases, MutationPhases,
              TerminalPhases

(* The part every transition shares: push_event and the new phase.         *)
LEMMA Transition ==
  ASSUME NEW j, Good(j), NEW to, NEW code, Allowed(j, to, code),
         NEW approval, j.approval \in {None, approval},
         NEW execution, j.execution \in {None, execution}, NEW boundary,
         NEW k, k = After(j, to, code, approval, execution, boundary)
  PROVE  IsJournal(k) /\ EventChainValid(k) /\ WayInv(k) /\ Follows(j, k)
<1>1. /\ k.phase = to /\ k.mutated = (to \in MutationPhases)
      /\ k.approval = approval /\ k.execution = execution
      /\ k.id = JournalId /\ k.plan = OwnPlan /\ k.baseline = Baseline
      /\ k.events = Append(j.events, [from |-> j.phase, to |-> to,
                                      code |-> code])
  BY DEF After
<1>a. /\ IsJournal(j) /\ EventChainValid(j)
      /\ to \in Phases /\ code \in EventCodes
      /\ <<j.phase, to>> \in AllowedTransitions
  BY DEF Good, Allowed
<1>b. Pushed(j, k, to, code)
  BY <1>1, <1>a, Appended
<1>2. /\ k.events \in Seq(EventTypes)
      /\ Len(k.events) = Len(j.events) + 1
      /\ \A i \in 1..Len(j.events) : k.events[i] = j.events[i]
      /\ k.events[Len(k.events)] = Event(j.phase, to, code)
      /\ EventChainValid(k)
      /\ EventsExtend(j.events, k.events)
  BY <1>1, <1>b DEF Pushed
<1>3. /\ IsJournal(j) /\ j.id = JournalId /\ j.plan = OwnPlan
      /\ j.baseline = Baseline /\ j.mutated = (j.phase \in MutationPhases)
  BY DEF Good, IsJournal
<1>4. IsJournal(k)
  BY <1>1, <1>2 DEF IsJournal, Allowed, After
<1>5. Follows(j, k)
  BY <1>1, <1>2, <1>3, Arrows DEF Follows, HistoryMatchesFinal, Allowed
<1>6. WayInv(k)
  <2> SUFFICES ASSUME to \in PreMutationPhases
               PROVE  /\ Len(k.events) = Done(to)
                      /\ OnTheWay(k.events, Done(to))
    BY <1>1 DEF WayInv
  <2>1. /\ j.phase \in PreMutationPhases
        /\ Done(j.phase) \in 0..3 /\ Done(to) = Done(j.phase) + 1
        /\ Way[Done(to)].from = j.phase /\ Way[Done(to)].to = to
        /\ Way[Done(to)].code = code
    BY Arrows DEF Allowed
  <2>2. /\ Len(j.events) = Done(j.phase)
        /\ \A i \in 1..Done(j.phase) : j.events[i] = Way[i]
    BY <2>1 DEF Good, WayInv, OnTheWay
  <2>3. Way[Done(to)] = Event(j.phase, to, code)
    BY <2>1, WayType DEF Event
  <2>4. Len(k.events) = Done(to) /\ k.events[Done(to)] = Way[Done(to)]
    BY <1>2, <2>1, <2>2, <2>3
  <2>5. \A i \in 1..Done(j.phase) : k.events[i] = Way[i]
    BY <1>2, <2>2
  <2>6. \A i \in 1..Done(to) : i \in 1..Done(j.phase) \/ i = Done(to)
    BY <2>1
  <2>7. QED
    BY <2>1, <2>4, <2>5, <2>6 DEF OnTheWay
<1>7. QED
  BY <1>2, <1>4, <1>5, <1>6

(* A transition that leaves the approval alone.                            *)
LEMMA SameApproval ==
  ASSUME NEW j, Good(j), NEW to, NEW code, Allowed(j, to, code),
         NEW execution, NEW boundary, NEW k,
         k = After(j, to, code, j.approval, execution, boundary),
         to # "Approved"
  PROVE  ApprovalInv(k)
<1>1. /\ k.phase = to /\ k.approval = j.approval
      /\ k.events = Append(j.events, [from |-> j.phase, to |-> to,
                                      code |-> code])
  BY DEF After
<1>a. /\ IsJournal(j) /\ EventChainValid(j)
      /\ to \in Phases /\ code \in EventCodes
      /\ <<j.phase, to>> \in AllowedTransitions
  BY DEF Good, Allowed
<1>b. Pushed(j, k, to, code)
  BY <1>1, <1>a, Appended
<1>2. \A n \in Nat : OnTheWay(j.events, n) => OnTheWay(k.events, n)
  BY <1>b DEF Pushed
<1>c. EventsFromTo(j, "PreconditionsVerified", "Approved") = {} =>
        EventsFromTo(k, "PreconditionsVerified", "Approved") = {}
  <2>1. ~(j.phase = "PreconditionsVerified" /\ to = "Approved")
    OBVIOUS
  <2>2. \A i : i \in EventsFromTo(k, "PreconditionsVerified", "Approved") <=>
                 i \in EventsFromTo(j, "PreconditionsVerified", "Approved")
    BY <1>b, <2>1 DEF Pushed
  <2>3. QED
    BY <2>2
<1>3. ApprovalInv(j)
  BY DEF Good
<1>4. CASE j.approval = None
  BY <1>1, <1>2, <1>c, <1>3, <1>4, Arrows DEF ApprovalInv, Allowed
<1>5. CASE j.approval # None
  <2>1. j.phase \in {"Approved"} \cup MutationPhases
    BY <1>3, <1>5, Arrows DEF ApprovalInv, Allowed, TerminalPhases
  <2>2. to \in {"Approved", "Aborted"} \cup MutationPhases
    BY <2>1, Arrows DEF Allowed, MutationPhases
  <2>3. QED
    BY <1>1, <1>2, <1>c, <1>3, <1>5, <2>2 DEF ApprovalInv
<1>6. QED
  BY <1>4, <1>5

(* A transition that leaves the execution binding alone.                   *)
LEMMA SameExecution ==
  ASSUME NEW j, Good(j), NEW to, NEW code, Allowed(j, to, code),
         NEW boundary, NEW k,
         k = After(j, to, code, j.approval, j.execution, boundary),
         ~(j.phase = "Approved" /\ to = "Executing"),
         j.execution = None => boundary = None
  PROVE  ExecutionInv(k)
<1>1. /\ k.phase = to /\ k.approval = j.approval
      /\ k.execution = j.execution /\ k.boundary = boundary
      /\ k.events = Append(j.events, [from |-> j.phase, to |-> to,
                                      code |-> code])
  BY DEF After
<1>a. /\ IsJournal(j) /\ EventChainValid(j)
      /\ to \in Phases /\ code \in EventCodes
      /\ <<j.phase, to>> \in AllowedTransitions
  BY DEF Good, Allowed
<1>b. Pushed(j, k, to, code)
  BY <1>1, <1>a, Appended
<1>2. \A n \in Nat : OnTheWay(j.events, n) => OnTheWay(k.events, n)
  BY <1>b DEF Pushed
<1>c. EventsFromTo(j, "Approved", "Executing") = {} =>
        EventsFromTo(k, "Approved", "Executing") = {}
  <2>1. ~(j.phase = "Approved" /\ to = "Executing")
    OBVIOUS
  <2>2. \A i : i \in EventsFromTo(k, "Approved", "Executing") <=>
                 i \in EventsFromTo(j, "Approved", "Executing")
    BY <1>b, <2>1 DEF Pushed
  <2>3. QED
    BY <2>2
<1>3. ExecutionInv(j)
  BY DEF Good
<1>4. CASE j.execution = None
  BY <1>1, <1>2, <1>c, <1>3, <1>4, Arrows DEF ExecutionInv, Allowed
<1>5. CASE j.execution # None
  <2>1. to \in MutationPhases
    BY <1>3, <1>5, Arrows DEF ExecutionInv, Allowed
  <2>2. QED
    BY <1>1, <1>2, <1>c, <1>3, <1>5, <2>1 DEF ExecutionInv
<1>6. QED
  BY <1>4, <1>5

(* A transition that leaves the verified boundary alone.                   *)
LEMMA SameBoundary ==
  ASSUME NEW j, Good(j), NEW to, NEW code, Allowed(j, to, code),
         NEW approval, NEW execution, j.execution \in {None, execution},
         NEW k, k = After(j, to, code, approval, execution, j.boundary),
         code \notin {"verification-passed-continue",
                      "verification-passed-complete"},
         to = "Completed" => Len(execution.steps) <= 1
  PROVE  BoundaryInv(k)
<1>1. /\ k.phase = to /\ k.execution = execution
      /\ k.boundary = j.boundary
      /\ k.events = Append(j.events, [from |-> j.phase, to |-> to,
                                      code |-> code])
  BY DEF After
<1>a. /\ IsJournal(j) /\ EventChainValid(j)
      /\ to \in Phases /\ code \in EventCodes
      /\ <<j.phase, to>> \in AllowedTransitions
  BY DEF Good, Allowed
<1>b. Pushed(j, k, to, code)
  BY <1>1, <1>a, Appended
<1>2. /\ HasEvent(k, "verification-passed-continue") <=>
           HasEvent(j, "verification-passed-continue")
      /\ HasEvent(k, "verification-passed-complete") <=>
           HasEvent(j, "verification-passed-complete")
  BY <1>1, <1>b DEF Pushed
<1>3. /\ BoundaryInv(j) /\ j.phase # "Completed"
      /\ j.phase \in MutationPhases => to \in MutationPhases
  BY Arrows DEF Good, Allowed, TerminalPhases
<1>4. ~HasEvent(k, "verification-passed-complete")
  BY <1>2, <1>3 DEF BoundaryInv
<1>5. CASE j.boundary = None
  BY <1>1, <1>2, <1>3, <1>4, <1>5 DEF BoundaryInv, BoundaryBindingValid
<1>6. CASE j.boundary # None
  <2>1. /\ HasEvent(j, "verification-passed-continue")
        /\ j.execution # None /\ j.execution = execution
        /\ FinalBindingValid(j)
        /\ j.phase \in MutationPhases
    BY <1>3, <1>6 DEF BoundaryInv, BoundaryBindingValid
  <2>2. /\ j.boundary.final = None /\ j.boundary.finalIdentity = None
        /\ j.boundary.schema = 1
    BY <1>3, <2>1 DEF FinalBindingValid
  <2>3. ~(to = "Completed" /\ Len(execution.steps) > 1)
    <3>1. ExecutionInv(j)
      BY DEF Good
    <3>2. \E n \in Nat : Len(execution.steps) = n \/ to # "Completed"
      OBVIOUS
    <3>3. QED
      BY <3>1, <3>2
  <2>4. FinalBindingValid(k)
    BY <1>1, <1>4, <2>2, <2>3 DEF FinalBindingValid
  <2>5. QED
    BY <1>1, <1>2, <1>3, <1>4, <1>6, <2>1, <2>4
       DEF BoundaryInv, BoundaryBindingValid
<1>7. QED
  BY <1>5, <1>6

-----------------------------------------------------------------------------
(* Advance (push_event) leaves every field but two alone.                  *)
LEMMA AdvanceFields ==
  ASSUME NEW phase, NEW mutated, NEW approval, NEW execution, NEW boundary,
         NEW events, NEW j,
         j = [id |-> JournalId, plan |-> OwnPlan, baseline |-> Baseline,
              phase |-> phase, mutated |-> mutated, approval |-> approval,
              execution |-> execution, boundary |-> boundary,
              events |-> events],
         NEW to, NEW code, NEW k, k = Advance(j, to, code)
  PROVE  k = [id |-> JournalId, plan |-> OwnPlan, baseline |-> Baseline,
              phase |-> to, mutated |-> mutated, approval |-> approval,
              execution |-> execution, boundary |-> boundary,
              events |-> Append(events, [from |-> phase, to |-> to,
                                         code |-> code])]
<1> DEFINE e == Append(events, [from |-> phase, to |-> to, code |-> code])
<1>1. k = [j EXCEPT !.phase = to, !.events = e]
  BY DEF Advance
<1> HIDE DEF e
<1>2. k = [id |-> JournalId, plan |-> OwnPlan, baseline |-> Baseline,
           phase |-> to, mutated |-> mutated, approval |-> approval,
           execution |-> execution, boundary |-> boundary, events |-> e]
  BY <1>1
<1>3. QED
  BY <1>2 DEF e

(* A transition that only moves the phase and appends its event.           *)
LEMMA Plain ==
  ASSUME NEW j, Good(j), NEW to, NEW code, Allowed(j, to, code),
         to # "Approved", ~(j.phase = "Approved" /\ to = "Executing"),
         code \notin {"verification-passed-continue",
                      "verification-passed-complete"},
         to = "Completed" => Len(j.execution.steps) <= 1,
         NEW k, k = Advance(j, to, code)
  PROVE  Good(k) /\ Follows(j, k)
<1>1. /\ IsJournal(j)
      /\ j.mutated = (to \in MutationPhases)
  BY Arrows DEF Good, IsJournal, Allowed
<1>2. k = After(j, to, code, j.approval, j.execution, j.boundary)
  <2>1. j = [id |-> JournalId, plan |-> OwnPlan, baseline |-> Baseline,
             phase |-> j.phase, mutated |-> j.mutated,
             approval |-> j.approval, execution |-> j.execution,
             boundary |-> j.boundary, events |-> j.events]
    BY <1>1 DEF IsJournal
  <2>2. k = [id |-> JournalId, plan |-> OwnPlan, baseline |-> Baseline,
             phase |-> to, mutated |-> j.mutated,
             approval |-> j.approval, execution |-> j.execution,
             boundary |-> j.boundary,
             events |-> Append(j.events, [from |-> j.phase, to |-> to,
                                          code |-> code])]
    BY <2>1, AdvanceFields
  <2>3. QED
    BY <1>1, <2>2 DEF After
<1>3. j.execution = None => j.boundary = None
  BY DEF Good, ExecutionInv
<1>4. IsJournal(k) /\ EventChainValid(k) /\ WayInv(k) /\ Follows(j, k)
  BY <1>2, Transition
<1>5. ApprovalInv(k)
  BY <1>2, SameApproval
<1>6. ExecutionInv(k)
  BY <1>2, <1>3, SameExecution
<1>7. BoundaryInv(k)
  BY <1>2, SameBoundary
<1>8. QED
  BY <1>4, <1>5, <1>6, <1>7 DEF Good

(* The transitions that only move the phase: HostLockAcquired,             *)
(* IdentityRevalidated, PreconditionsVerified, VerificationStarted,        *)
(* Completed.                                                              *)
LEMMA PlainTransitions ==
  ASSUME NEW j, Good(j), NEW fresh,
         NEW k \in HostLockAcquired(j) \cup IdentityRevalidated(j, fresh)
                  \cup PreconditionsVerified(j) \cup VerificationStarted(j)
                  \cup Completed(j)
  PROVE  Good(k) /\ Follows(j, k)
<1>1. CASE k \in HostLockAcquired(j)
  <2>1. /\ Allowed(j, "HostLockHeld", "host-lock-acquired")
        /\ k = Advance(j, "HostLockHeld", "host-lock-acquired")
    BY <1>1, WayType DEF HostLockAcquired, Ok, Allowed, Phases, EventCodes,
       AllowedTransitions, Done, Event
  <2>2. QED
    BY <2>1, Plain
<1>2. CASE k \in IdentityRevalidated(j, fresh)
  <2>1. /\ Allowed(j, "IdentityRevalidated", "identity-revalidated")
        /\ k = Advance(j, "IdentityRevalidated", "identity-revalidated")
    BY <1>2, WayType DEF IdentityRevalidated, Ok, Allowed, Phases,
       EventCodes, AllowedTransitions, Done, Event
  <2>2. QED
    BY <2>1, Plain
<1>3. CASE k \in PreconditionsVerified(j)
  <2>1. /\ Allowed(j, "PreconditionsVerified", "preconditions-verified")
        /\ k = Advance(j, "PreconditionsVerified", "preconditions-verified")
    BY <1>3, WayType DEF PreconditionsVerified, Ok, Allowed, Phases,
       EventCodes, AllowedTransitions, Done, Event
  <2>2. QED
    BY <2>1, Plain
<1>4. CASE k \in VerificationStarted(j)
  <2>1. /\ Allowed(j, "Verifying", "verification-started")
        /\ k = Advance(j, "Verifying", "verification-started")
    BY <1>4 DEF VerificationStarted, Ok, Allowed, Phases, EventCodes,
       AllowedTransitions, PreMutationPhases
  <2>2. QED
    BY <2>1, Plain
<1>5. CASE k \in Completed(j)
  <2>1. /\ Allowed(j, "Completed", "completed")
        /\ k = Advance(j, "Completed", "completed")
        /\ Len(j.execution.steps) <= 1
    BY <1>5 DEF Completed, Ok, Allowed, Phases, EventCodes,
       AllowedTransitions, PreMutationPhases
  <2>2. QED
    BY <2>1, Plain
<1>6. QED
  BY <1>1, <1>2, <1>3, <1>4, <1>5

(* The ways an operation ends early: Interrupted and Abort.                *)
LEMMA Endings ==
  ASSUME NEW j, Good(j), NEW k \in Interrupted(j) \cup Abort(j)
  PROVE  Good(k) /\ Follows(j, k)
<1>1. /\ j.phase \in Phases /\ j.phase \notin TerminalPhases
      /\ j.mutated = (j.phase \in MutationPhases)
  BY DEF Good, IsJournal, Interrupted, Abort, Ok, IsTerminal
<1>2. CASE j.mutated
  <2>1. PICK code \in {"interrupted-after-mutation-boundary",
                       "abort-after-mutation-boundary"} :
          k = Advance(j, "RecoveryRequired", code)
    BY <1>2 DEF Interrupted, Abort, Ok
  <2>2. j.phase \in {"Executing", "Verifying"}
    BY <1>1, <1>2 DEF MutationPhases, TerminalPhases
  <2>3. Allowed(j, "RecoveryRequired", code)
    BY <2>1, <2>2 DEF Allowed, Phases, EventCodes, AllowedTransitions,
       PreMutationPhases
  <2>4. QED
    BY <2>1, <2>3, Plain
<1>3. CASE ~j.mutated
  <2>1. j.phase \in PreMutationPhases
    BY <1>1, <1>3 DEF Phases, MutationPhases, TerminalPhases,
       PreMutationPhases
  <2>2. PICK code \in {"interrupted-before-mutation", "aborted"} :
          k = Advance(j, "Aborted", code)
    BY <1>3, <2>1 DEF Interrupted, Abort, Ok, PreMutationPhases
  <2>3. Allowed(j, "Aborted", code)
    BY <2>1, <2>2 DEF Allowed, Phases, EventCodes, AllowedTransitions,
       PreMutationPhases
  <2>4. QED
    BY <2>2, <2>3, Plain
<1>4. QED
  BY <1>2, <1>3

(* The approval (ExactPlanApproved): before it there is one state only.    *)
LEMMA Approval ==
  ASSUME NEW j, Good(j), NEW plan, NEW a, a # None,
         NEW k \in ExactPlanApproved(j, plan, a)
  PROVE  Good(k) /\ Follows(j, k)
<1>1. /\ j.phase = "PreconditionsVerified"
      /\ a.plan = j.plan /\ a.target = j.baseline /\ a.id = ApprovalId(a)
      /\ a.preconditions = Fingerprint(j)
      /\ k = [Advance(j, "Approved", "exact-plan-approved")
                EXCEPT !.approval = a]
  BY DEF ExactPlanApproved, Ok
<1>2. /\ IsJournal(j) /\ j.plan = OwnPlan /\ j.baseline = Baseline
      /\ j.approval = None /\ j.execution = None /\ j.boundary = None
  BY <1>1 DEF Good, IsJournal, ApprovalInv, ExecutionInv, MutationPhases
<1>m. j.mutated = FALSE
  <2>1. j.mutated = (j.phase \in MutationPhases)
    BY <1>2 DEF IsJournal
  <2>2. (j.phase \in MutationPhases) = FALSE
    BY <1>1 DEF MutationPhases
  <2>3. QED
    BY <2>1, <2>2
<1>3. j = JournalAt(j.phase, None, j.events)
  BY <1>2, <1>m DEF IsJournal, JournalAt
<1>4. k = After(j, "Approved", "exact-plan-approved", a, None, None)
  <2>1. PICK m : m = Advance(j, "Approved", "exact-plan-approved")
    OBVIOUS
  <2>2. m = [id |-> JournalId, plan |-> OwnPlan, baseline |-> Baseline,
             phase |-> "Approved", mutated |-> FALSE, approval |-> None,
             execution |-> None, boundary |-> None,
             events |-> Append(j.events,
                               [from |-> j.phase, to |-> "Approved",
                                code |-> "exact-plan-approved"])]
    BY <1>3, <2>1, AdvanceFields DEF JournalAt
  <2>3. k = [m EXCEPT !.approval = a]
    BY <1>1, <2>1
  <2>4. k = [id |-> JournalId, plan |-> OwnPlan, baseline |-> Baseline,
             phase |-> "Approved", mutated |-> FALSE, approval |-> a,
             execution |-> None, boundary |-> None,
             events |-> Append(j.events,
                               [from |-> j.phase, to |-> "Approved",
                                code |-> "exact-plan-approved"])]
    BY <2>2, <2>3
  <2>5. ("Approved" \in MutationPhases) = FALSE
    BY DEF MutationPhases
  <2>6. QED
    BY <2>4, <2>5 DEF After
<1>5. Allowed(j, "Approved", "exact-plan-approved")
  BY <1>1, WayType DEF Allowed, Phases, EventCodes, AllowedTransitions, Done,
     Event
<1>6. IsJournal(k) /\ EventChainValid(k) /\ WayInv(k) /\ Follows(j, k)
  BY <1>2, <1>4, <1>5, Transition
<1>7. k.phase = "Approved" /\ k.approval = a
  BY <1>4 DEF After
<1>8. OnTheWay(k.events, 4)
  BY <1>6, <1>7 DEF WayInv, PreMutationPhases, Done
<1>9. j = Verified
  <2>1. /\ j.events \in Seq(EventTypes) /\ Len(j.events) = 3
        /\ \A i \in 1..3 : j.events[i] = Way[i]
    BY <1>1, <1>2 DEF Good, IsJournal, WayInv, OnTheWay, PreMutationPhases,
       Done
  <2>2. j.events = SubSeq(Way, 1, 3)
    BY <2>1, WayType
  <2>3. QED
    BY <1>1, <1>3, <2>2 DEF Verified
<1>10. ApprovalInv(k)
  BY <1>1, <1>2, <1>7, <1>8, <1>9 DEF ApprovalInv
<1>11. k = After(j, "Approved", "exact-plan-approved", a, j.execution,
                 j.boundary)
  BY <1>2, <1>4
<1>12. BoundaryInv(k)
  <2>1. PICK to, code : to = "Approved" /\ code = "exact-plan-approved"
    OBVIOUS
  <2>2. /\ Allowed(j, to, code)
        /\ k = After(j, to, code, a, j.execution, j.boundary)
        /\ code \notin {"verification-passed-continue",
                        "verification-passed-complete"}
        /\ to # "Completed"
    BY <1>5, <1>11, <2>1
  <2>3. QED
    BY <2>2, SameBoundary
<1>13. ExecutionInv(k)
  <2>1. k.execution = None /\ k.boundary = None
    BY <1>4 DEF After
  <2>2. Pushed(j, k, "Approved", "exact-plan-approved")
    BY <1>4, <1>5, Appended DEF After, Allowed, Good
  <2>3. EventsFromTo(j, "Approved", "Executing") = {}
    BY <1>2 DEF Good, ExecutionInv
  <2>4. \A i : i \notin EventsFromTo(k, "Approved", "Executing")
    BY <1>1, <2>2, <2>3 DEF Pushed
  <2>5. QED
    BY <1>7, <2>1, <2>4 DEF ExecutionInv, MutationPhases
<1>14. QED
  BY <1>6, <1>10, <1>12, <1>13 DEF Good

(* The start (ExecutionStarted): before it, one state for each approval.   *)
LEMMA Beginning ==
  ASSUME NEW j, Good(j), NEW b, b # None, MutationSteps(b.steps),
         NEW k \in ExecutionStarted(j, b)
  PROVE  Good(k) /\ Follows(j, k)
<1>1. /\ j.phase = "Approved" /\ j.approval # None
      /\ b.journal = j.id /\ b.plan = j.plan
      /\ b.approval = j.approval.id /\ b.identity = j.baseline
      /\ b.id = ExecutionId(b) /\ b.approved = Fingerprint(j)
      /\ k = [Advance(j, "Executing", "execution-started")
                EXCEPT !.mutated = TRUE, !.execution = b]
  BY DEF ExecutionStarted, Ok
<1>2. /\ IsJournal(j) /\ j.plan = OwnPlan /\ j.baseline = Baseline
      /\ j.id = JournalId
      /\ j.execution = None /\ j.boundary = None
  BY <1>1 DEF Good, IsJournal, ExecutionInv, MutationPhases
<1>m. j.mutated = FALSE
  <2>1. j.mutated = (j.phase \in MutationPhases)
    BY <1>2 DEF IsJournal
  <2>2. (j.phase \in MutationPhases) = FALSE
    BY <1>1 DEF MutationPhases
  <2>3. QED
    BY <2>1, <2>2
<1>3. j = JournalAt(j.phase, j.approval, j.events)
  BY <1>2, <1>m DEF IsJournal, JournalAt
<1>4. k = After(j, "Executing", "execution-started", j.approval, b,
                j.boundary)
  <2>1. PICK m : m = Advance(j, "Executing", "execution-started")
    OBVIOUS
  <2>2. m = [id |-> JournalId, plan |-> OwnPlan, baseline |-> Baseline,
             phase |-> "Executing", mutated |-> FALSE,
             approval |-> j.approval, execution |-> None,
             boundary |-> None,
             events |-> Append(j.events,
                               [from |-> j.phase, to |-> "Executing",
                                code |-> "execution-started"])]
    BY <1>3, <2>1, AdvanceFields DEF JournalAt
  <2>3. k = [m EXCEPT !.mutated = TRUE, !.execution = b]
    BY <1>1, <2>1
  <2>4. k = [id |-> JournalId, plan |-> OwnPlan, baseline |-> Baseline,
             phase |-> "Executing", mutated |-> TRUE,
             approval |-> j.approval, execution |-> b,
             boundary |-> None,
             events |-> Append(j.events,
                               [from |-> j.phase, to |-> "Executing",
                                code |-> "execution-started"])]
    BY <2>2, <2>3
  <2>5. ("Executing" \in MutationPhases) = TRUE
    BY DEF MutationPhases
  <2>6. QED
    BY <1>2, <2>4, <2>5 DEF After
<1>5. Allowed(j, "Executing", "execution-started")
  BY <1>1 DEF Allowed, Phases, EventCodes, AllowedTransitions,
     PreMutationPhases
<1>6. IsJournal(k) /\ EventChainValid(k) /\ WayInv(k) /\ Follows(j, k)
  BY <1>2, <1>4, <1>5, Transition
<1>7. k.phase = "Executing" /\ k.approval = j.approval /\ k.execution = b
  BY <1>4 DEF After
<1>8. ApprovalInv(k)
  BY <1>4, <1>5, SameApproval
<1>9. BoundaryInv(k)
  <2>1. PICK to, code : to = "Executing" /\ code = "execution-started"
    OBVIOUS
  <2>2. /\ Allowed(j, to, code)
        /\ k = After(j, to, code, j.approval, b, j.boundary)
        /\ code \notin {"verification-passed-continue",
                        "verification-passed-complete"}
        /\ to # "Completed"
    BY <1>4, <1>5, <2>1
  <2>3. j.execution \in {None, b}
    BY <1>2
  <2>4. QED
    BY <2>2, <2>3, SameBoundary
<1>10. /\ j.events \in Seq(EventTypes) /\ Len(j.events) = 4
       /\ \A i \in 1..4 : j.events[i] = Way[i]
  BY <1>1, <1>2 DEF Good, IsJournal, WayInv, OnTheWay, PreMutationPhases,
     Done
<1>11. j = ApprovedBy(j.approval)
  <2>1. j.events = SubSeq(Way, 1, 4)
    BY <1>10, WayType
  <2>2. QED
    BY <1>1, <1>3, <2>1 DEF ApprovedBy
<1>12. OnTheWay(k.events, 5)
  <2>1. Pushed(j, k, "Executing", "execution-started")
    BY <1>4, <1>5, Appended DEF After, Allowed, Good
  <2>2. /\ Len(k.events) = 5 /\ \A i \in 1..4 : k.events[i] = Way[i]
        /\ k.events[5] = Way[5]
    BY <1>1, <1>10, <2>1, WayType DEF Pushed
  <2>3. \A i \in 1..5 : i \in 1..4 \/ i = 5
    OBVIOUS
  <2>4. QED
    BY <2>2, <2>3 DEF OnTheWay
<1>13. ExecutionInv(k)
  BY <1>1, <1>2, <1>7, <1>11, <1>12 DEF ExecutionInv, MutationPhases
<1>14. QED
  BY <1>6, <1>8, <1>9, <1>13 DEF Good

(* The fields of a new boundary (the constructor of the binding).          *)
LEMMA BoundaryFields ==
  ASSUME NEW execution, NEW completed, NEW next, NEW identity, NEW b,
         b = VerifiedBoundary(execution, completed, next, identity)
  PROVE  /\ IsBoundary(b)
         /\ b.schema = 1 /\ b.execution = execution
         /\ b.completed = completed /\ b.next = next
         /\ b.final = None /\ b.finalIdentity = None
         /\ b.id = BoundaryId(b)
<1> DEFINE id == Fingerprint(<<execution, completed, next, identity>>)
<1>1. b = [schema |-> 1, execution |-> execution, completed |-> completed,
           next |-> next, identity |-> identity, final |-> None,
           finalIdentity |-> None, id |-> id]
  <2>1. PICK m : m = [schema |-> 1, execution |-> execution,
                      completed |-> completed, next |-> next,
                      identity |-> identity, final |-> None,
                      finalIdentity |-> None, id |-> None]
    OBVIOUS
  <2>2. BoundaryId(m) = id
    BY <2>1 DEF BoundaryId
  <2>3. b = [m EXCEPT !.id = BoundaryId(m)]
    BY <2>1 DEF VerifiedBoundary
  <2>4. b = [m EXCEPT !.id = id]
    BY <2>2, <2>3
  <2> HIDE DEF id
  <2>5. QED
    BY <2>1, <2>4
<1>2. BoundaryId(b) = id
  BY <1>1 DEF BoundaryId
<1> HIDE DEF id
<1>3. QED
  BY <1>1, <1>2 DEF IsBoundary

(* The last step's identity is added to the boundary (a final binding).    *)
BoundaryOf(schema, execution, completed, next, identity, final,
           finalIdentity, id) ==
  [schema |-> schema, execution |-> execution, completed |-> completed,
   next |-> next, identity |-> identity, final |-> final,
   finalIdentity |-> finalIdentity, id |-> id]

WithFinal(old, completed, fresh) ==
  LET final == [old EXCEPT !.schema = 2, !.final = completed,
                           !.finalIdentity = fresh]
  IN  [final EXCEPT !.id = BoundaryId(final)]

(* Its fields, in VerificationPassedComplete.                              *)
LEMMA FinalRecord ==
  ASSUME NEW s, NEW e, NEW c, NEW n, NEW t, NEW f, NEW g, NEW i,
         NEW completed, NEW fresh
  PROVE  WithFinal(BoundaryOf(s, e, c, n, t, f, g, i), completed, fresh)
         = BoundaryOf(2, e, c, n, t, completed, fresh,
                      Fingerprint(<<e, c, n, t, completed, fresh>>))
<1> DEFINE id == Fingerprint(<<e, c, n, t, completed, fresh>>)
<1>1. PICK old : old = [schema |-> s, execution |-> e, completed |-> c,
                        next |-> n, identity |-> t, final |-> f,
                        finalIdentity |-> g, id |-> i]
  OBVIOUS
<1>2. PICK final : final = [old EXCEPT !.schema = 2, !.final = completed,
                                       !.finalIdentity = fresh]
  OBVIOUS
<1>3. final = [schema |-> 2, execution |-> e, completed |-> c,
               next |-> n, identity |-> t, final |-> completed,
               finalIdentity |-> fresh, id |-> i]
  BY <1>1, <1>2
<1>4. BoundaryId(final) = id
  BY <1>3 DEF BoundaryId
<1>5. PICK b : b = [final EXCEPT !.id = id]
  OBVIOUS
<1>6. b = WithFinal(BoundaryOf(s, e, c, n, t, f, g, i), completed, fresh)
  BY <1>1, <1>2, <1>4, <1>5 DEF WithFinal, BoundaryOf
<1> HIDE DEF id
<1>7. b = [schema |-> 2, execution |-> e, completed |-> c,
           next |-> n, identity |-> t, final |-> completed,
           finalIdentity |-> fresh, id |-> id]
  BY <1>3, <1>5
<1>8. b = BoundaryOf(2, e, c, n, t, completed, fresh, id)
  BY <1>7 DEF BoundaryOf
<1>9. QED
  BY <1>6, <1>8 DEF id

(* The same, of a boundary that a journal has.                             *)
LEMMA FinalFields ==
  ASSUME NEW old, IsBoundary(old), NEW completed, NEW fresh,
         NEW b, b = WithFinal(old, completed, fresh)
  PROVE  /\ IsBoundary(b)
         /\ b.schema = 2 /\ b.execution = old.execution
         /\ b.completed = old.completed /\ b.next = old.next
         /\ b.final = completed /\ b.finalIdentity = fresh
         /\ b.id = BoundaryId(b)
<1>1. old = BoundaryOf(old.schema, old.execution, old.completed, old.next,
                       old.identity, old.final, old.finalIdentity, old.id)
  BY DEF IsBoundary, BoundaryOf
<1>2. PICK id : id = Fingerprint(<<old.execution, old.completed, old.next,
                                   old.identity, completed, fresh>>)
  OBVIOUS
<1>3. b = BoundaryOf(2, old.execution, old.completed, old.next,
                     old.identity, completed, fresh, id)
  BY <1>1, <1>2, FinalRecord
<1>4. /\ b.schema = 2 /\ b.execution = old.execution
      /\ b.completed = old.completed /\ b.next = old.next
      /\ b.identity = old.identity
      /\ b.final = completed /\ b.finalIdentity = fresh /\ b.id = id
  BY <1>3 DEF BoundaryOf
<1>5. BoundaryId(b) = id
  BY <1>2, <1>4 DEF BoundaryId
<1>6. IsBoundary(b)
  BY <1>3, <1>4 DEF IsBoundary, BoundaryOf
<1>7. QED
  BY <1>4, <1>5, <1>6

(* Everything but the boundary, after a transition that leaves b behind.   *)
Bounded(j, k, to, code, b) ==
  /\ IsJournal(k) /\ EventChainValid(k) /\ WayInv(k)
  /\ ApprovalInv(k) /\ ExecutionInv(k) /\ Follows(j, k)
  /\ k.phase = to /\ k.execution = j.execution /\ k.boundary = b
  /\ \A c : HasEvent(k, c) <=> HasEvent(j, c) \/ c = code

(* Both transitions out of Verifying that leave a new boundary behind.     *)
LEMMA NewBoundary ==
  ASSUME NEW j, Good(j), j.phase = "Verifying", j.execution # None,
         NEW to \in {"Executing", "Completed"},
         NEW code \in {"verification-passed-continue",
                       "verification-passed-complete"},
         NEW b, NEW k, k = [Advance(j, to, code) EXCEPT !.boundary = b]
  PROVE  Bounded(j, k, to, code, b)
<1>1. Allowed(j, to, code)
  BY DEF Allowed, Phases, EventCodes, AllowedTransitions,
     PreMutationPhases
<1>2. IsJournal(j)
  BY DEF Good
<1>3. (to \in MutationPhases) = TRUE /\ j.mutated = TRUE
  <2>1. j.mutated = (j.phase \in MutationPhases)
    BY <1>2 DEF IsJournal
  <2>2. (j.phase \in MutationPhases) = TRUE
    BY DEF MutationPhases
  <2>3. (to \in MutationPhases) = TRUE
    BY DEF MutationPhases
  <2>4. QED
    BY <2>1, <2>2, <2>3
<1>4. k = After(j, to, code, j.approval, j.execution, b)
  <2>1. PICK m : m = Advance(j, to, code)
    OBVIOUS
  <2>2. m = [id |-> JournalId, plan |-> OwnPlan, baseline |-> Baseline,
             phase |-> to, mutated |-> j.mutated, approval |-> j.approval,
             execution |-> j.execution, boundary |-> j.boundary,
             events |-> Append(j.events, [from |-> j.phase, to |-> to,
                                          code |-> code])]
    BY <1>2, <2>1, AdvanceFields DEF IsJournal
  <2>3. PICK o, a, x, e :
          /\ o = j.boundary /\ a = j.approval /\ x = j.execution
          /\ e = Append(j.events, [from |-> j.phase, to |-> to,
                                   code |-> code])
    OBVIOUS
  <2>4. m = [id |-> JournalId, plan |-> OwnPlan, baseline |-> Baseline,
             phase |-> to, mutated |-> TRUE, approval |-> a,
             execution |-> x, boundary |-> o, events |-> e]
    BY <1>3, <2>2, <2>3
  <2>5. k = [m EXCEPT !.boundary = b]
    BY <2>1
  <2>6. k = [id |-> JournalId, plan |-> OwnPlan, baseline |-> Baseline,
             phase |-> to, mutated |-> TRUE, approval |-> a,
             execution |-> x, boundary |-> b, events |-> e]
    BY <2>4, <2>5
  <2>7. QED
    BY <1>3, <2>3, <2>6 DEF After
<1>5. IsJournal(k) /\ EventChainValid(k) /\ WayInv(k) /\ Follows(j, k)
  BY <1>1, <1>4, Transition
<1>6. ApprovalInv(k)
  BY <1>1, <1>4, SameApproval
<1>7. ExecutionInv(k)
  BY <1>1, <1>4, SameExecution
<1>8. k.phase = to /\ k.execution = j.execution /\ k.boundary = b
  BY <1>4 DEF After
<1>9. Pushed(j, k, to, code)
  BY <1>1, <1>4, Appended DEF After, Allowed, Good
<1>10. QED
  BY <1>5, <1>6, <1>7, <1>8, <1>9 DEF Pushed, Bounded

(* The next step, its predecessor verified (VerificationPassedContinue).   *)
LEMMA Continuation ==
  ASSUME OptionsDiffer, NEW j, Good(j), NEW completed, NEW next, NEW fresh,
         NEW k \in VerificationPassedContinue(j, completed, next, fresh)
  PROVE  Good(k) /\ Follows(j, k)
<1>1. PICK b : b = VerifiedBoundary(j.execution.id, completed, next, fresh)
  OBVIOUS
<1>2. /\ j.phase = "Verifying" /\ j.execution # None
      /\ completed # 0 /\ next # 0 /\ completed # next
      /\ AdjacentSteps(j.execution.steps, completed, next)
      /\ k = [Advance(j, "Executing", "verification-passed-continue")
                EXCEPT !.boundary = b]
  BY <1>1 DEF VerificationPassedContinue, Ok
<1>3. /\ IsJournal(k) /\ EventChainValid(k) /\ WayInv(k)
      /\ ApprovalInv(k) /\ ExecutionInv(k) /\ Follows(j, k)
      /\ k.phase = "Executing" /\ k.execution = j.execution
      /\ k.boundary = b
      /\ \A c : HasEvent(k, c) <=>
               HasEvent(j, c) \/ c = "verification-passed-continue"
  <2>1. Bounded(j, k, "Executing", "verification-passed-continue", b)
    BY <1>2, NewBoundary
  <2>2. QED
    BY <2>1 DEF Bounded
<1>4. /\ IsBoundary(b) /\ b.schema = 1 /\ b.execution = j.execution.id
      /\ b.completed = completed /\ b.next = next
      /\ b.final = None /\ b.finalIdentity = None /\ b.id = BoundaryId(b)
  BY <1>1, BoundaryFields
<1>5. b # None
  BY <1>4 DEF OptionsDiffer, IsBoundary
<1>6. ~HasEvent(k, "verification-passed-complete")
  BY <1>2, <1>3 DEF Good, BoundaryInv
<1>7. FinalBindingValid(k)
  BY <1>3, <1>4, <1>6 DEF FinalBindingValid
<1>8. BoundaryInv(k)
  BY <1>2, <1>3, <1>4, <1>5, <1>6, <1>7
     DEF BoundaryInv, BoundaryBindingValid, MutationPhases
<1>9. QED
  BY <1>3, <1>8 DEF Good

(* The last step verified (VerificationPassedComplete).                    *)
LEMMA Completion ==
  ASSUME OptionsDiffer, NEW j, Good(j), NEW completed, completed # None,
         NEW fresh, fresh # None,
         NEW k \in VerificationPassedComplete(j, completed, fresh)
  PROVE  Good(k) /\ Follows(j, k)
<1>1. PICK b : b = WithFinal(j.boundary, completed, fresh)
  OBVIOUS
<1>3. /\ j.phase = "Verifying" /\ j.execution # None
      /\ j.execution.steps[Len(j.execution.steps)] = completed
      /\ j.boundary # None /\ j.boundary.next = completed
      /\ k = [Advance(j, "Completed", "verification-passed-complete")
                EXCEPT !.boundary = b]
  BY <1>1 DEF VerificationPassedComplete, Ok, WithFinal
<1>4. /\ IsJournal(k) /\ EventChainValid(k) /\ WayInv(k)
      /\ ApprovalInv(k) /\ ExecutionInv(k) /\ Follows(j, k)
      /\ k.phase = "Completed" /\ k.execution = j.execution
      /\ k.boundary = b
      /\ \A c : HasEvent(k, c) <=>
               HasEvent(j, c) \/ c = "verification-passed-complete"
  <2>1. Bounded(j, k, "Completed", "verification-passed-complete", b)
    BY <1>3, NewBoundary
  <2>2. QED
    BY <2>1 DEF Bounded
<1>5. /\ IsBoundary(j.boundary) /\ BoundaryBindingValid(j)
  BY <1>3 DEF Good, BoundaryInv
<1>6. /\ IsBoundary(b) /\ b.schema = 2
      /\ b.execution = j.boundary.execution
      /\ b.completed = j.boundary.completed /\ b.next = j.boundary.next
      /\ b.final = completed /\ b.finalIdentity = fresh
      /\ b.id = BoundaryId(b)
  BY <1>1, <1>5, FinalFields
<1>7. b # None
  BY <1>6 DEF OptionsDiffer, IsBoundary
<1>8. FinalBindingValid(k)
  BY <1>3, <1>4, <1>6 DEF FinalBindingValid
<1>9. /\ HasEvent(j, "verification-passed-continue")
      /\ j.boundary.completed # 0 /\ j.boundary.next # 0
      /\ j.boundary.completed # j.boundary.next
      /\ j.boundary.execution = j.execution.id
      /\ AdjacentSteps(j.execution.steps, j.boundary.completed,
                       j.boundary.next)
  BY <1>3, <1>5 DEF BoundaryBindingValid
<1>10. BoundaryInv(k)
  BY <1>3, <1>4, <1>6, <1>7, <1>8, <1>9
     DEF BoundaryInv, BoundaryBindingValid, MutationPhases
<1>11. QED
  BY <1>4, <1>10 DEF Good

-----------------------------------------------------------------------------
(* Of three states, the last is a later one of the first (the comparison   *)
(* with every archived state, in history_matches_final).                   *)
LEMMA FollowsTransitive ==
  ASSUME NEW h, NEW j, NEW k, Good(h), Good(j), Good(k),
         Follows(h, j), Follows(j, k)
  PROVE  Follows(h, k)
<1>1. /\ h.events \in Seq(EventTypes) /\ j.events \in Seq(EventTypes)
      /\ k.events \in Seq(EventTypes)
  BY DEF Good, IsJournal
<1>2. PICK a, b, c : a = h.events /\ b = j.events /\ c = k.events
  OBVIOUS
<1>3. /\ a \in Seq(EventTypes) /\ b \in Seq(EventTypes)
      /\ c \in Seq(EventTypes) /\ EventsExtend(a, b) /\ EventsExtend(b, c)
  BY <1>1, <1>2 DEF Follows, HistoryMatchesFinal
<1>4. EventsExtend(a, c)
  <2>1. /\ Len(a) \in Nat /\ Len(b) \in Nat /\ Len(c) \in Nat
        /\ Len(a) < Len(b) /\ Len(b) < Len(c)
        /\ SubSeq(b, 1, Len(a)) = a /\ SubSeq(c, 1, Len(b)) = b
    BY <1>3 DEF EventsExtend
  <2>2. \A i \in 1..Len(b) : c[i] = b[i]
    BY <1>3, <2>1
  <2>3. \A i \in 1..Len(a) : b[i] = a[i]
    BY <1>3, <2>1
  <2>4. \A i \in 1..Len(a) : c[i] = a[i]
    BY <2>1, <2>2, <2>3
  <2>5. SubSeq(c, 1, Len(a)) = a
    BY <1>3, <2>1, <2>4
  <2>6. QED
    BY <2>1, <2>5 DEF EventsExtend
<1>5. QED
  BY <1>2, <1>4 DEF Follows, HistoryMatchesFinal

(* The bindings a caller may present are none of them None, and every      *)
(* execution binding was built for a sequence of distinct mutation steps   *)
(* (build_execution_start_binding), also one that was altered since.       *)
LEMMA Presented ==
  ASSUME OptionsDiffer
  PROVE  /\ \A a \in Approvals \cup AlteredApprovals : a # None
         /\ \A b \in Executions : b # None /\ MutationSteps(b.steps)
<1>1. \A a \in Approvals : \E p, e, t, s, q, i :
        a = [plan |-> p, evidence |-> e, target |-> t, session |-> s,
             preconditions |-> q, id |-> i]
  <2> SUFFICES ASSUME NEW a \in Approvals
               PROVE  \E p, e, t, s, q, i :
                        a = [plan |-> p, evidence |-> e, target |-> t,
                             session |-> s, preconditions |-> q, id |-> i]
    OBVIOUS
  <2>1. PICK p \in Plans, t \in Identities, state \in KnownStates :
          a = ExactApprovalBinding(p, "evidence", t, "session",
                                   Fingerprint(state))
    BY DEF Approvals
  <2>2. PICK i : a = [plan |-> p, evidence |-> "evidence", target |-> t,
                      session |-> "session",
                      preconditions |-> Fingerprint(state), id |-> i]
    BY <2>1 DEF ExactApprovalBinding
  <2>3. QED
    BY <2>2
<1>2. \A a \in Approvals \cup AlteredApprovals : a # None
  <2>1. \A a \in Approvals : a # None
    BY <1>1 DEF OptionsDiffer
  <2>2. ASSUME NEW a \in Approvals PROVE [a EXCEPT !.evidence = "other"] # None
    <3>1. PICK p, e, t, s, q, i :
            a = [plan |-> p, evidence |-> e, target |-> t, session |-> s,
                 preconditions |-> q, id |-> i]
      BY <1>1
    <3>2. PICK c : c = [a EXCEPT !.evidence = "other"]
      OBVIOUS
    <3>3. c = [plan |-> p, evidence |-> "other", target |-> t,
               session |-> s, preconditions |-> q, id |-> i]
      BY <3>1, <3>2
    <3>4. QED
      BY <3>2, <3>3 DEF OptionsDiffer
  <2>3. QED
    BY <2>1, <2>2 DEF AlteredApprovals
<1> DEFINE Sound(b) ==
      /\ \E o, p, a, m, t, f, i :
           b = [journal |-> o, plan |-> p, approval |-> a, manifest |-> m,
                identity |-> t, steps |-> b.steps, approved |-> f,
                id |-> i]
      /\ MutationSteps(b.steps)
<1>3. \A b \in SealedExecutions : Sound(b)
  <2> SUFFICES ASSUME NEW b \in SealedExecutions PROVE Sound(b)
    OBVIOUS
  <2>1. PICK state \in KnownStates, t \in Identities,
             steps \in StepSequences :
          b \in BuildExecutionStart(state, "manifest", t, steps)
    BY DEF SealedExecutions
  <2>2. /\ MutationSteps(steps)
        /\ b = ExecutionStartBinding(state.id, state.plan, state.approval.id,
                                     "manifest", t, steps,
                                     Fingerprint(state))
    BY <2>1 DEF BuildExecutionStart
  <2>3. QED
    BY <2>2 DEF ExecutionStartBinding
<1>4. ASSUME NEW b, Sound(b) PROVE b # None /\ MutationSteps(b.steps)
  BY <1>4 DEF OptionsDiffer
<1>5. ASSUME NEW b, Sound(b), NEW p, NEW t, NEW state
      PROVE  /\ Sound(Redirected(b, p, t))
             /\ Sound(Redated(b, state))
             /\ Sound(Altered(b))
  <2>1. PICK o, p1, a, m, t1, s, f1, i :
          /\ b = [journal |-> o, plan |-> p1, approval |-> a, manifest |-> m,
                  identity |-> t1, steps |-> s, approved |-> f1, id |-> i]
          /\ MutationSteps(s)
    BY <1>5
  <2>2. Sound(Redirected(b, p, t))
    <3>1. PICK c : c = [b EXCEPT !.plan = p, !.identity = t]
      OBVIOUS
    <3>x. PICK x : x = ExecutionId(c)
      OBVIOUS
    <3>d. PICK d : d = [c EXCEPT !.id = x]
      OBVIOUS
    <3>2. c = [journal |-> o, plan |-> p, approval |-> a, manifest |-> m,
               identity |-> t, steps |-> s, approved |-> f1, id |-> i]
      BY <2>1, <3>1
    <3>3. d = [journal |-> o, plan |-> p, approval |-> a, manifest |-> m,
               identity |-> t, steps |-> s, approved |-> f1, id |-> x]
      BY <3>2, <3>d
    <3>4. d = Redirected(b, p, t)
      BY <3>1, <3>x, <3>d DEF Rebound, Redirected
    <3>5. d.steps = s
      BY <3>3
    <3>6. Sound(d)
      BY <2>1, <3>3, <3>5
    <3>7. QED
      BY <3>4, <3>6
  <2>3. Sound(Redated(b, state))
    <3>f. PICK f : f = Fingerprint(state)
      OBVIOUS
    <3>1. PICK c : c = [b EXCEPT !.approved = f]
      OBVIOUS
    <3>x. PICK x : x = ExecutionId(c)
      OBVIOUS
    <3>d. PICK d : d = [c EXCEPT !.id = x]
      OBVIOUS
    <3>2. c = [journal |-> o, plan |-> p1, approval |-> a, manifest |-> m,
               identity |-> t1, steps |-> s, approved |-> f, id |-> i]
      BY <2>1, <3>1
    <3>3. d = [journal |-> o, plan |-> p1, approval |-> a, manifest |-> m,
               identity |-> t1, steps |-> s, approved |-> f, id |-> x]
      BY <3>2, <3>d
    <3>4. d = Redated(b, state)
      BY <3>1, <3>x, <3>d, <3>f DEF Rebound, Redated
    <3>5. d.steps = s
      BY <3>3
    <3>6. Sound(d)
      BY <2>1, <3>3, <3>5
    <3>7. QED
      BY <3>4, <3>6
  <2>4. Sound(Altered(b))
    <3>1. PICK c : c = [b EXCEPT !.manifest = "other"]
      OBVIOUS
    <3>2. c = [journal |-> o, plan |-> p1, approval |-> a,
               manifest |-> "other", identity |-> t1, steps |-> s,
               approved |-> f1, id |-> i]
      BY <2>1, <3>1
    <3>3. c.steps = s
      BY <3>2
    <3>4. Sound(c)
      BY <2>1, <3>2, <3>3
    <3> HIDE DEF Sound
    <3>5. QED
      BY <3>1, <3>4 DEF Altered
  <2>5. QED
    BY <2>2, <2>3, <2>4
<1> HIDE DEF Sound
<1>6. \A b \in Executions : Sound(b)
  <2>1. \A b \in SealedExecutions, p \in Plans, t \in Identities :
          Sound(Redirected(b, p, t))
    BY <1>3, <1>5
  <2>2. \A b \in SealedExecutions :
          Sound(Redated(b, history[1])) /\ Sound(Altered(b))
    BY <1>3, <1>5
  <2>3. QED
    BY <1>3, <2>1, <2>2 DEF Executions
<1>7. QED
  BY <1>2, <1>4, <1>6

(* A transition that was accepted (Accept): the state before it joins the  *)
(* history.                                                                *)
LEMMA Accepted ==
  ASSUME JInv, Good(journal'), Follows(journal, journal'),
         history' = Append(history, journal)
  PROVE  JInv'
<1>1. PICK S : history \in Seq(S) /\ journal \in S
  BY DEF JInv, KnownStates
<1>2. /\ Len(history') = Len(history) + 1 /\ Len(history) \in Nat
      /\ \A i \in 1..Len(history) : history'[i] = history[i]
      /\ history'[Len(history) + 1] = journal
      /\ DOMAIN history' = 1..(Len(history) + 1)
      /\ DOMAIN history = 1..Len(history)
      /\ history' \in Seq(S)
  BY <1>1
<1>3. \A i \in DOMAIN history' : i \in DOMAIN history \/ i = Len(history) + 1
  BY <1>2
<1>4. ASSUME NEW i \in DOMAIN history'
      PROVE  Good(history'[i]) /\ Follows(history'[i], journal')
  <2>1. CASE i \in DOMAIN history
    BY <1>2, <2>1, FollowsTransitive DEF JInv
  <2>2. CASE i = Len(history) + 1
    BY <1>2, <2>2 DEF JInv
  <2>3. QED
    BY <1>3, <2>1, <2>2
<1>5. history' \in Seq(KnownStates')
  <2>1. \A i \in 1..Len(history') : history'[i] \in KnownStates'
    BY <1>2 DEF KnownStates
  <2>2. QED
    BY <1>2, <2>1
<1>6. QED
  BY <1>4, <1>5 DEF JInv

(* Every transition of apply preserves the invariant.                      *)
LEMMA StepJInv ==
  ASSUME OptionsDiffer, JInv, [MachineNext]_machineVars
  PROVE  JInv'
<1>1. Good(journal)
  BY DEF JInv
<1>2. CASE UNCHANGED machineVars
  BY <1>2 DEF machineVars, JInv, KnownStates
<1>3. ASSUME NEW next, Accept(next),
             \A k \in next : Good(k) /\ Follows(journal, k)
      PROVE  JInv'
  BY <1>3, Accepted DEF Accept
<1>4. CASE AcquireLock
  BY <1>1, <1>3, <1>4, PlainTransitions DEF AcquireLock
<1>5. CASE Revalidate
  BY <1>1, <1>3, <1>5, PlainTransitions DEF Revalidate
<1>6. CASE Verify
  BY <1>1, <1>3, <1>6, PlainTransitions DEF Verify
<1>7. CASE Approve
  BY <1>1, <1>3, <1>7, Approval, Presented DEF Approve
<1>8. CASE Start
  BY <1>1, <1>3, <1>8, Beginning, Presented DEF Start
<1>9. CASE Rediscover
  BY <1>1, <1>3, <1>9, PlainTransitions DEF Rediscover
<1>10. CASE Continue
  BY <1>1, <1>3, <1>10, Continuation DEF Continue
<1>11. CASE CompleteAll
  <2>1. PICK c \in StepIds, t \in Identities :
          Accept(VerificationPassedComplete(journal, c, t))
    BY <1>11 DEF CompleteAll
  <2>2. c # None /\ t # None
    BY PresentedAssumption
  <2>3. QED
    BY <1>1, <1>3, <2>1, <2>2, Completion
<1>12. CASE CompleteOne
  BY <1>1, <1>3, <1>12, PlainTransitions DEF CompleteOne
<1>13. CASE Interrupt
  BY <1>1, <1>3, <1>13, Endings DEF Interrupt
<1>14. CASE AbortIt
  BY <1>1, <1>3, <1>14, Endings DEF AbortIt
<1>15. QED
  BY <1>2, <1>4, <1>5, <1>6, <1>7, <1>8, <1>9, <1>10, <1>11, <1>12, <1>13,
     <1>14 DEF MachineNext

(* A new journal (OperationJournal::new).                                  *)
LEMMA InitJInv == MachineInit => JInv
<1> SUFFICES ASSUME MachineInit PROVE JInv
  OBVIOUS
<1>1. /\ journal = JournalAt("Planned", None, <<>>) /\ history = <<>>
      /\ journal.phase = "Planned" /\ journal.mutated = FALSE
      /\ journal.approval = None /\ journal.execution = None
      /\ journal.boundary = None /\ journal.events = <<>>
  BY DEF MachineInit, NewJournal, JournalAt
<1>2. IsJournal(journal)
  <2>1. ("Planned" \in MutationPhases) = FALSE
    BY DEF MutationPhases
  <2>2. journal.mutated = (journal.phase \in MutationPhases)
    BY <1>1, <2>1
  <2>3. journal = [id |-> JournalId, plan |-> OwnPlan,
                   baseline |-> Baseline, phase |-> journal.phase,
                   mutated |-> journal.mutated,
                   approval |-> journal.approval,
                   execution |-> journal.execution,
                   boundary |-> journal.boundary,
                   events |-> journal.events]
    <3>1. journal = [id |-> JournalId, plan |-> OwnPlan,
                     baseline |-> Baseline, phase |-> "Planned",
                     mutated |-> FALSE, approval |-> None,
                     execution |-> None, boundary |-> None,
                     events |-> <<>>]
      BY <1>1 DEF JournalAt
    <3>2. QED
      BY <1>1, <3>1, Zenon
  <2>4. journal.events \in Seq(EventTypes) /\ journal.phase \in Phases
    <3>1. <<>> \in Seq(EventTypes)
      OBVIOUS
    <3>2. QED
      BY <1>1, <3>1, Zenon DEF Phases
  <2>5. QED
    BY <2>2, <2>3, <2>4 DEF IsJournal
<1>3. EventChainValid(journal)
  <2>1. /\ journal.events = <<>> /\ Len(journal.events) + 1 = 1
        /\ journal.phase = "Planned"
    BY <1>1
  <2>2. DOMAIN journal.events = {}
    BY <2>1
  <2>3. PhaseBefore(journal.events, Len(journal.events) + 1) = "Planned"
    BY <2>1 DEF PhaseBefore
  <2>4. QED
    BY <2>1, <2>2, <2>3 DEF EventChainValid
<1>4. WayInv(journal)
  BY <1>1 DEF WayInv, OnTheWay, Done
<1>5. /\ \A from, to : EventsFromTo(journal, from, to) = {}
      /\ \A c : ~HasEvent(journal, c)
  BY <1>1 DEF EventsFromTo, HasEvent
<1>6. ApprovalInv(journal) /\ ExecutionInv(journal) /\ BoundaryInv(journal)
  BY <1>1, <1>5 DEF ApprovalInv, ExecutionInv, BoundaryInv,
     BoundaryBindingValid, MutationPhases
<1>7. QED
  BY <1>1, <1>2, <1>3, <1>4, <1>6 DEF JInv, Good

(* The first event of a kind is where the way has it (position() in        *)
(* validate_approval_binding and validate_execution_binding).              *)
LEMMA FirstIsOnTheWay ==
  ASSUME NEW j, IsJournal(j), NEW n \in {4, 5}, OnTheWay(j.events, n)
  PROVE  LET positions == EventsFromTo(j, Way[n].from, Way[n].to)
         IN  positions # {} /\ First(positions) = n
<1> DEFINE positions == EventsFromTo(j, Way[n].from, Way[n].to)
<1>1. /\ j.events \in Seq(EventTypes) /\ Len(j.events) \in Nat
      /\ Len(j.events) >= n
      /\ \A i \in 1..n : j.events[i] = Way[i]
  BY DEF IsJournal, OnTheWay
<1>2. n \in positions
  BY <1>1 DEF EventsFromTo
<1>3. \A i \in positions : i \in Nat /\ n <= i
  <2> SUFFICES ASSUME NEW i \in positions, i < n PROVE FALSE
    BY <1>1 DEF EventsFromTo
  <2>1. i \in 1..(n - 1) /\ Way[i].from = Way[n].from
    BY <1>1 DEF EventsFromTo
  <2>2. QED
    BY <2>1, WayType DEF Event
<1> HIDE DEF positions
<1>4. First(positions) = n
  <2>1. \A i \in positions : (\A k \in positions : i <= k) => i = n
    BY <1>2, <1>3
  <2>2. QED
    BY <1>2, <1>3, <2>1 DEF First
<1>5. QED
  BY <1>2, <1>4 DEF positions

(* validate_journal accepts what the invariant describes.                  *)
LEMMA GoodIsValid ==
  ASSUME NEW j, Good(j)
  PROVE  ValidJournal(j)
<1>1. /\ IsJournal(j) /\ j.events \in Seq(EventTypes)
      /\ j.id = JournalId /\ j.plan = OwnPlan /\ j.baseline = Baseline
      /\ j.mutated = (j.phase \in MutationPhases)
  BY DEF Good, IsJournal
<1>2. ASSUME NEW n \in 4..5, NEW phase, NEW approval, OnTheWay(j.events, n)
      PROVE  StateBefore(j, n, phase, approval)
             = JournalAt(phase, approval, SubSeq(Way, 1, n - 1))
  <2>1. /\ Len(j.events) \in Nat /\ Len(j.events) >= n
        /\ \A i \in 1..(n - 1) : j.events[i] = Way[i]
    BY <1>1, <1>2 DEF OnTheWay
  <2>2. SubSeq(j.events, 1, n - 1) = SubSeq(Way, 1, n - 1)
    BY <1>1, <2>1, WayType
  <2>3. PICK e, h : e = SubSeq(j.events, 1, n - 1)
                    /\ h = StateBefore(j, n, phase, approval)
    OBVIOUS
  <2>4. PICK p, m, a, x, b, f :
          j = [id |-> JournalId, plan |-> OwnPlan, baseline |-> Baseline,
               phase |-> p, mutated |-> m, approval |-> a,
               execution |-> x, boundary |-> b, events |-> f]
    BY <1>1 DEF IsJournal
  <2>5. h = [j EXCEPT !.phase = phase, !.mutated = FALSE,
                      !.approval = approval, !.execution = None,
                      !.boundary = None, !.events = e]
    BY <2>3 DEF StateBefore
  <2>6. h = [id |-> JournalId, plan |-> OwnPlan, baseline |-> Baseline,
             phase |-> phase, mutated |-> FALSE, approval |-> approval,
             execution |-> None, boundary |-> None, events |-> e]
    BY <2>4, <2>5
  <2>7. QED
    BY <2>2, <2>3, <2>6 DEF JournalAt
<1>3. ApprovalBindingValid(j)
  <2> DEFINE approvals == EventsFromTo(j, "PreconditionsVerified", "Approved")
  <2>1. ApprovalInv(j)
    BY DEF Good
  <2>2. CASE j.approval = None
    BY <2>1, <2>2 DEF ApprovalInv, ApprovalBindingValid
  <2>3. CASE j.approval # None
    <3>1. /\ OnTheWay(j.events, 4)
          /\ j.approval.plan = OwnPlan
          /\ j.approval.target = Baseline
          /\ j.approval.id = ApprovalId(j.approval)
          /\ j.approval.preconditions = Fingerprint(Verified)
      BY <2>1, <2>3 DEF ApprovalInv
    <3>2. approvals # {} /\ First(approvals) = 4
      BY <1>1, <3>1, FirstIsOnTheWay, WayType DEF Event
    <3>3. StateBefore(j, 4, "PreconditionsVerified", None) = Verified
      BY <1>2, <3>1 DEF Verified
    <3>4. QED
      BY <1>1, <2>3, <3>1, <3>2, <3>3 DEF ApprovalBindingValid
  <2>4. QED
    BY <2>2, <2>3
<1>4. ExecutionBindingValid(j)
  <2> DEFINE starts == EventsFromTo(j, "Approved", "Executing")
  <2>1. ExecutionInv(j)
    BY DEF Good
  <2>2. CASE j.execution = None
    BY <2>1, <2>2 DEF ExecutionInv, ExecutionBindingValid
  <2>3. CASE j.execution # None
    <3>1. /\ OnTheWay(j.events, 5)
          /\ MutationSteps(j.execution.steps)
          /\ j.execution.journal = JournalId
          /\ j.execution.plan = OwnPlan
          /\ j.approval # None
          /\ j.execution.approval = j.approval.id
          /\ j.execution.identity = Baseline
          /\ j.execution.id = ExecutionId(j.execution)
          /\ j.execution.approved = Fingerprint(ApprovedBy(j.approval))
      BY <2>1, <2>3 DEF ExecutionInv
    <3>2. starts # {} /\ First(starts) = 5
      BY <1>1, <3>1, FirstIsOnTheWay, WayType DEF Event
    <3>3. StateBefore(j, 5, "Approved", j.approval) = ApprovedBy(j.approval)
      BY <1>2, <3>1 DEF ApprovedBy
    <3>4. QED
      BY <1>1, <2>3, <3>1, <3>2, <3>3 DEF ExecutionBindingValid
  <2>4. QED
    BY <2>2, <2>3
<1>5. QED
  BY <1>1, <1>3, <1>4 DEF Good, BoundaryInv, ValidJournal

-----------------------------------------------------------------------------
(* The invariant, for every sequence of calls on one journal.              *)
THEOREM JournalInductive == OptionsDiffer => (MachineSpec => []JInv)
<1> SUFFICES ASSUME OptionsDiffer PROVE MachineSpec => []JInv
  OBVIOUS
<1>1. JInv /\ [MachineNext]_machineVars => JInv'
  BY StepJInv
<1>2. QED
  BY InitJInv, <1>1, PTL DEF MachineSpec

(* Whatever calls are made on a journal, right or wrong: validate_journal  *)
(* accepts the result, all() accepts every earlier state as its archive,   *)
(* and persist_if_matches would store the last change.                     *)
THEOREM StoreAcceptsHolds == OptionsDiffer => (MachineSpec => []StoreAccepts)
<1> SUFFICES ASSUME OptionsDiffer PROVE MachineSpec => []StoreAccepts
  OBVIOUS
<1>1. JInv => StoreAccepts
  <2> SUFFICES ASSUME JInv PROVE StoreAccepts
    OBVIOUS
  <2>1. /\ Good(journal)
        /\ \A i \in DOMAIN history :
             Good(history[i]) /\ Follows(history[i], journal)
    BY DEF JInv
  <2>2. \A i \in DOMAIN history : HistoryMatchesFinal(history[i], journal)
    BY <2>1 DEF Follows
  <2>3. ASSUME history # <<>>
        PROVE  UpdateExtends(history[Len(history)], journal)
    <3>1. Len(history) \in DOMAIN history
      BY <2>3 DEF JInv
    <3>2. QED
      BY <2>1, <2>2, <3>1, GoodIsValid DEF UpdateExtends, HistoryMatchesFinal
  <2>4. QED
    BY <2>1, <2>2, <2>3, GoodIsValid DEF StoreAccepts
<1>2. QED
  BY <1>1, JournalInductive, PTL

(* resume_disposition sends an operator back to a fresh plan only from a   *)
(* journal that never was past the mutation boundary.                      *)
THEOREM RestartOnlyBeforeMutationHolds ==
  OptionsDiffer => (MachineSpec => []RestartOnlyBeforeMutation)
<1> SUFFICES ASSUME OptionsDiffer
             PROVE  MachineSpec => []RestartOnlyBeforeMutation
  OBVIOUS
<1>1. JInv => RestartOnlyBeforeMutation
  <2> SUFFICES ASSUME JInv,
                      ResumeDisposition(journal) = "RestartFromFreshPlan"
               PROVE  /\ ~journal.mutated
                      /\ \A i \in DOMAIN history : ~history[i].mutated
    BY DEF RestartOnlyBeforeMutation
  <2>1. journal.mutated = (journal.phase \in MutationPhases)
    BY DEF JInv, Good, IsJournal
  <2>2. journal.phase \notin MutationPhases
    BY DEF ResumeDisposition, MutationPhases
  <2>3. ~journal.mutated
    BY <2>1, <2>2
  <2>4. QED
    BY <2>3 DEF JInv, Follows
<1>2. QED
  BY <1>1, JournalInductive, PTL

-----------------------------------------------------------------------------
(* Directories                                                             *)

FileNames == [kind : {"final", "temp", "history"}, id : Ids, events : Nat]
Dirs      == UNION {[D -> Journals \cup {None}] : D \in SUBSET FileNames}

(* The directories a crash may leave, with the one in place.               *)
Stored == {log[i] : i \in DOMAIN log}

Journal(id, n) == [id |-> id, events |-> n]
History(id, n) == HistoryName(Journal(id, n))

(* Every name tells what is under it, and an archived state has a later    *)
(* one of its ID.                                                          *)
Orderly(d) ==
  \A x \in DOMAIN d :
    /\ x.kind = "final" => x = Final(x.id) /\ d[x] # None
    /\ x.kind = "temp" => x = Temp(x.id)
    /\ d[x] # None => d[x].id = x.id
    /\ x.kind = "history" =>
         /\ d[x] # None /\ d[x].events = x.events
         /\ Final(x.id) \in DOMAIN d
         /\ x.events < d[Final(x.id)].events

(* All earlier states are archived.                                        *)
Archived(d, id) ==
  Final(id) \in DOMAIN d =>
    \A n \in 1 .. d[Final(id)].events - 1 : History(id, n) \in DOMAIN d

(* Or the last one is still under the temporary name.                      *)
Chain(d, id) ==
  Final(id) \in DOMAIN d =>
    \A n \in 1 .. d[Final(id)].events - 1 :
      \/ History(id, n) \in DOMAIN d
      \/ Temp(id) \in DOMAIN d /\ d[Temp(id)] = Journal(id, n)

Whole(d) == Orderly(d) /\ \A id \in Ids : Chain(d, id)

(* What a call knows of the directory before it renames its staging file,  *)
(* and after.                                                              *)
Found(id) ==
  /\ Archived(dir, id)
  /\ IF call.expected = None
     THEN Final(id) \notin DOMAIN dir
     ELSE Final(id) \in DOMAIN dir /\ dir[Final(id)] = call.expected

Renewed(id) == Final(id) \in DOMAIN dir /\ dir[Final(id)] = call.new

CallInv ==
  /\ call \in Calls
  /\ IF call.expected = None
     THEN call.new.events = 1
     ELSE /\ call.expected.id = call.new.id
          /\ call.new.events = call.expected.events + 1
  /\ call.step = "publish" => call.expected = None
  /\ call.step \in {"exchange", "sync_exchange", "archive"} =>
       call.expected # None

Before == {"create", "write", "staged", "publish", "exchange"}
Settled == {"publish", "exchange", "archive"}

PlaceInv ==
  LET id == call.new.id IN
  /\ HasTemp(dir) = IF call.step \in {"create", "sync_last"} THEN {} ELSE {id}
  /\ call.step \in Before => Found(id)
  /\ call.step \notin Before => Renewed(id)
  /\ call.step = "write" => dir[Temp(id)] = None
  /\ call.step \in {"staged", "publish", "exchange"} =>
       dir[Temp(id)] = call.new
  /\ call.step \in {"sync_exchange", "archive"} =>
       dir[Temp(id)] = call.expected
  /\ call.step \in Settled => log = <<dir>>

LogType == log \in Seq(Dirs) /\ log # <<>>

DiskInv ==
  /\ LogType
  /\ \A d \in Stored : Whole(d)
  /\ call # None => CallInv /\ PlaceInv

AckInv ==
  /\ acked \in Registers /\ prev \in Registers
  /\ \A d \in Stored : \A id \in DOMAIN acked :
       /\ Final(id) \in DOMAIN d
       /\ acked[id].events <= d[Final(id)].events

(* all()                                                                   *)
ReaderInv ==
  reader.pc \in {"names", "load", "restat"} =>
    /\ reader = [pc |-> reader.pc, names |-> reader.names,
                 pinned |-> reader.pinned, left |-> reader.left,
                 dirty |-> reader.dirty]
    /\ reader.pc = "names" => DOMAIN reader.pinned = {}
    /\ reader.pc # "names" /\ ~reader.dirty =>
         /\ reader.names = DOMAIN dir
         /\ reader.left \subseteq reader.names
         /\ DOMAIN reader.pinned =
              IF reader.pc = "load" THEN reader.names \ reader.left
                                    ELSE reader.names
         /\ \A n \in DOMAIN reader.pinned :
              n.kind # "temp" /\ reader.pinned[n] = dir[n]

(* DurableStore                                                            *)

(* The directory e shows of an ID what d does, or the creation of its      *)
(* staging file is all that is new.                                        *)
Alike(d, e, id) ==
  /\ Named(d, id) = Named(e, id)
  /\ HoldsDisplaced(d, id) <=> HoldsDisplaced(e, id)
  /\ Temp(id) \in DOMAIN d => Temp(id) \in DOMAIN e

(* One rename of the ID separates e from d: the one that named a new       *)
(* record, the exchange, or the one to the history name.                   *)
PublishLost(d, e, p, id) ==
  /\ Final(id) \notin DOMAIN d /\ Temp(id) \in DOMAIN d
  /\ Final(id) \in DOMAIN e /\ id \notin DOMAIN p
  /\ ~HoldsDisplaced(e, id)

ExchangeLost(d, e, p, id) ==
  /\ id \in DOMAIN p
  /\ Final(id) \in DOMAIN d /\ Temp(id) \in DOMAIN d
  /\ d[Final(id)] = p[id]
  /\ ~HoldsDisplaced(d, id) /\ HoldsDisplaced(e, id)

ArchiveLost(d, e, p, id) ==
  /\ id \in DOMAIN p
  /\ Final(id) \in DOMAIN e /\ HoldsDisplaced(d, id)
  /\ d[Final(id)] = e[Final(id)]
  /\ ~HoldsDisplaced(e, id)
  /\ Named(d, id) # Named(e, id)

(* What may be undone: the rename is the change after the first directory, *)
(* every later one creates or writes a staging file.                       *)
Undone(S, d, e, p, id) ==
  \/ Alike(d, e, id)
  \/ PublishLost(d, e, p, id)
  \/ ExchangeLost(d, e, p, id)
  \/ /\ ArchiveLost(d, e, p, id)
     /\ \E c \in S : Temp(id) \notin DOMAIN c

Pending(S, first, e, p) ==
  /\ \A id \in DOMAIN p :
       Final(id) \in DOMAIN e /\ p[id].events < e[Final(id)].events
  /\ \A d \in S \ {first} : \A id \in Ids : Alike(d, e, id)
  /\ \A id \in Ids : Undone(S, first, e, p, id)

PendingInv == Pending(Stored, log[1], dir, prev)

Differ(d, e) == {id \in Ids : Named(d, id) # Named(e, id)}

Preparing == {"create", "write", "staged"}

(* What the call c has done since it began.                                *)
Based(c, S, first, e, p) ==
  LET id == c.new.id IN
  /\ c.base.staged = {} /\ c.base.displaced = {} /\ c.base.created = {}
  /\ IF c.step \in Preparing
     THEN c.base.unsynced = Differ(first, e)
     ELSE Differ(first, e) \subseteq {id}
  /\ c.step \in {"write", "staged"} => \E d \in S : Temp(id) \notin DOMAIN d
  /\ c.step = "sync_last" /\ c.expected = None =>
       Final(id) \notin DOMAIN first
  /\ IF c.step \in Before
     THEN Records(e) = c.base.record /\ p = c.base.previous
     ELSE /\ Records(e) = With(c.base.record, id, c.new)
          /\ IF c.expected = None
             THEN id \notin DOMAIN c.base.record /\ p = c.base.previous
             ELSE /\ id \in DOMAIN c.base.record
                  /\ c.base.record[id] = c.expected
                  /\ p = With(c.base.previous, id, c.expected)

BaseInv == call # None => Based(call, Stored, log[1], dir, prev)

DInv == DiskInv /\ AckInv

-----------------------------------------------------------------------------
(* Names and directories                                                   *)

(* The three names of an ID differ from each other and from those of any   *)
(* other ID.                                                               *)
LEMMA NameTypes ==
  ASSUME NEW id \in Ids
  PROVE  /\ Final(id) \in FileNames /\ Temp(id) \in FileNames
         /\ Final(id).kind = "final" /\ Final(id).id = id
         /\ Temp(id).kind = "temp" /\ Temp(id).id = id
         /\ Final(id) # Temp(id)
         /\ \A n \in Nat : /\ History(id, n) \in FileNames
                           /\ History(id, n).kind = "history"
                           /\ History(id, n).id = id
                           /\ History(id, n).events = n
BY DEF FileNames, Final, Temp, History, HistoryName, Journal

(* A state is its ID and its number of events.                             *)
LEMMA JournalTypes ==
  ASSUME NEW j \in Journals
  PROVE  /\ j.id \in Ids /\ j.events \in Nat \ {0} /\ j # None
         /\ j.events \in 1 .. MaxEvents
         /\ j = Journal(j.id, j.events)
         /\ HistoryName(j) = History(j.id, j.events)
BY StoreAssumption, NoneAssumption DEF Journals, Journal, History, HistoryName

(* A name under which an archived state is filed is made of its parts.     *)
LEMMA HistoryIs ==
  ASSUME NEW x \in FileNames, x.kind = "history"
  PROVE  x = History(x.id, x.events) /\ x.events \in Nat /\ x.id \in Ids
BY DEF FileNames, History, HistoryName, Journal

(* A directory maps names of files to states, or None.                     *)
LEMMA DirTypes ==
  ASSUME NEW d \in Dirs
  PROVE  /\ DOMAIN d \subseteq FileNames
         /\ \A x \in DOMAIN d : d[x] \in Journals \cup {None}
         /\ d \in [DOMAIN d -> Journals \cup {None}]
<1>1. PICK D \in SUBSET FileNames : d \in [D -> Journals \cup {None}]
  BY DEF Dirs
<1> QED BY <1>1

(* Creating or writing a file, renaming one to a free name, and exchanging *)
(* two, at every name.                                                     *)
LEMMA WithTypes ==
  ASSUME NEW d \in Dirs, NEW name \in FileNames,
         NEW content \in Journals \cup {None}
  PROVE  /\ With(d, name, content) \in Dirs
         /\ DOMAIN With(d, name, content) = DOMAIN d \cup {name}
         /\ With(d, name, content)[name] = content
         /\ \A x \in DOMAIN d :
              x # name => With(d, name, content)[x] = d[x]
<1>1. DOMAIN d \cup {name} \in SUBSET FileNames
  BY DirTypes
<1>2. With(d, name, content) \in
        [DOMAIN d \cup {name} -> Journals \cup {None}]
  BY DirTypes DEF With
<1>3. With(d, name, content) \in Dirs
  BY <1>1, <1>2 DEF Dirs
<1> QED BY <1>3 DEF With

(* A file takes a name: the old one is gone, the others are untouched.     *)
LEMMA RenamedTypes ==
  ASSUME NEW d \in Dirs, NEW from \in DOMAIN d, NEW to \in FileNames,
         from # to
  PROVE  /\ Renamed(d, from, to) \in Dirs
         /\ DOMAIN Renamed(d, from, to) = (DOMAIN d \ {from}) \cup {to}
         /\ Renamed(d, from, to)[to] = d[from]
<1>1. (DOMAIN d \ {from}) \cup {to} \in SUBSET FileNames
  BY DirTypes
<1>2. Renamed(d, from, to) \in
        [(DOMAIN d \ {from}) \cup {to} -> Journals \cup {None}]
  BY DirTypes DEF Renamed
<1>3. Renamed(d, from, to) \in Dirs
  BY <1>1, <1>2 DEF Dirs
<1> QED BY <1>3 DEF Renamed

(* Two files change names, the others are untouched.                       *)
LEMMA ExchangedTypes ==
  ASSUME NEW d \in Dirs, NEW a \in DOMAIN d, NEW b \in DOMAIN d, a # b
  PROVE  /\ Exchanged(d, a, b) \in Dirs
         /\ DOMAIN Exchanged(d, a, b) = DOMAIN d
         /\ Exchanged(d, a, b)[a] = d[b] /\ Exchanged(d, a, b)[b] = d[a]
         /\ \A x \in DOMAIN d :
              x # a /\ x # b => Exchanged(d, a, b)[x] = d[x]
<1>1. PICK D \in SUBSET FileNames : d \in [D -> Journals \cup {None}]
  BY DEF Dirs
<1>2. Exchanged(d, a, b) \in [D -> Journals \cup {None}]
  BY <1>1 DEF Exchanged
<1>3. Exchanged(d, a, b) \in Dirs
  BY <1>1, <1>2 DEF Dirs
<1> QED BY <1>1, <1>3 DEF Exchanged

(* The directory in place, and the one of the last fsync, are among those  *)
(* a crash may leave.                                                      *)
LEMMA LogTypes ==
  ASSUME LogType
  PROVE  /\ dir \in Stored /\ log[1] \in Stored /\ Stored \subseteq Dirs
         /\ DOMAIN log = 1 .. Len(log) /\ Len(log) \in Nat \ {0}
<1>1. DOMAIN log = 1 .. Len(log) /\ Len(log) \in Nat \ {0}
  BY DEF LogType
<1>2. \A i \in DOMAIN log : log[i] \in Dirs
  BY DEF LogType
<1> QED BY <1>1, <1>2 DEF dir, Stored

(* A change of the directory adds one that a crash may leave.              *)
LEMMA LogAppend ==
  ASSUME LogType, NEW d \in Dirs, log' = Append(log, d)
  PROVE  /\ LogType' /\ dir' = d /\ Stored' = Stored \cup {d}
         /\ log'[1] = log[1]
<1>1. /\ log' \in Seq(Dirs) /\ Len(log') = Len(log) + 1
      /\ \A i \in 1 .. Len(log) : log'[i] = log[i]
      /\ log'[Len(log) + 1] = d
  BY DEF LogType
<1>2. DOMAIN log = 1 .. Len(log) /\ Len(log) \in Nat \ {0}
  BY DEF LogType
<1>3. DOMAIN log' = 1 .. Len(log) + 1
  BY <1>1
<1>4. Stored' \subseteq Stored \cup {d}
  <2>1. SUFFICES ASSUME NEW i \in DOMAIN log'
                 PROVE  log'[i] \in Stored \cup {d}
    BY DEF Stored
  <2> QED BY <1>1, <1>2, <1>3 DEF Stored
<1>5. Stored \cup {d} \subseteq Stored'
  <2>1. d \in Stored'
    BY <1>1, <1>2, <1>3 DEF Stored
  <2>2. ASSUME NEW i \in DOMAIN log PROVE log[i] \in Stored'
    BY <1>1, <1>2, <1>3 DEF Stored
  <2> QED BY <2>1, <2>2 DEF Stored
<1>6. Stored' = Stored \cup {d}
  BY <1>4, <1>5
<1>7. LogType' /\ dir' = d /\ log'[1] = log[1]
  BY <1>1, <1>2 DEF LogType, dir
<1> QED BY <1>6, <1>7

(* fsync, and a crash: one directory is left.                              *)
LEMMA LogSettled ==
  ASSUME NEW d \in Dirs, log' = <<d>>
  PROVE  /\ LogType' /\ dir' = d /\ Stored' = {d} /\ log'[1] = d
         /\ log' = <<dir'>>
<1>1. /\ log' \in Seq(Dirs) /\ Len(log') = 1 /\ DOMAIN log' = {1}
      /\ log'[1] = d /\ log' # <<>>
  OBVIOUS
<1>2. Stored' = {d}
  BY <1>1 DEF Stored
<1> QED BY <1>1, <1>2 DEF LogType, dir

-----------------------------------------------------------------------------
(* What each change of a directory keeps                                   *)

(* A staging file is created or written.                                   *)
LEMMA StageWhole ==
  ASSUME NEW d \in Dirs, Whole(d), NEW id \in Ids, Archived(d, id),
         NEW j \in Journals \cup {None}, j # None => j.id = id,
         NEW e, e = With(d, Temp(id), j)
  PROVE  /\ e \in Dirs /\ Whole(e) /\ Archived(e, id)
         /\ DOMAIN e = DOMAIN d \cup {Temp(id)} /\ e[Temp(id)] = j
         /\ \A x \in DOMAIN d : x # Temp(id) => e[x] = d[x]
         /\ HasTemp(e) = HasTemp(d) \cup {id}
<1>1. /\ e \in Dirs /\ DOMAIN e = DOMAIN d \cup {Temp(id)}
      /\ e[Temp(id)] = j
      /\ \A x \in DOMAIN d : x # Temp(id) => e[x] = d[x]
  <2>1. Temp(id) \in FileNames
    BY NameTypes
  <2> QED BY <2>1, WithTypes
<1>2. \A i \in Ids : /\ Final(i) # Temp(id)
                     /\ Temp(i) = Temp(id) => i = id
                     /\ \A n \in Nat : History(i, n) # Temp(id)
  BY NameTypes
<1>3. Orderly(e)
  <2>1. SUFFICES ASSUME NEW x \in DOMAIN e
                 PROVE  /\ x.kind = "final" => x = Final(x.id) /\ e[x] # None
                        /\ x.kind = "temp" => x = Temp(x.id)
                        /\ e[x] # None => e[x].id = x.id
                        /\ x.kind = "history" =>
                             /\ e[x] # None /\ e[x].events = x.events
                             /\ Final(x.id) \in DOMAIN e
                             /\ x.events < e[Final(x.id)].events
    BY DEF Orderly
  <2>2. CASE x = Temp(id)
    BY <1>1, <2>2, NameTypes
  <2>3. CASE x # Temp(id)
    <3>1. x \in DOMAIN d /\ e[x] = d[x] /\ x \in FileNames
      BY <1>1, <2>3, DirTypes
    <3>2. x.id \in Ids
      BY <3>1 DEF FileNames
    <3> QED BY <1>1, <1>2, <3>1, <3>2 DEF Whole, Orderly
  <2> QED BY <2>2, <2>3
<1>4. ASSUME NEW i \in Ids, Final(i) \in DOMAIN e
      PROVE  /\ Final(i) \in DOMAIN d /\ e[Final(i)] = d[Final(i)]
             /\ d[Final(i)].events \in Nat
  <2>1. Final(i) \in DOMAIN d /\ e[Final(i)] = d[Final(i)]
    BY <1>1, <1>2, <1>4
  <2>2. d[Final(i)] \in Journals
    BY <2>1, DirTypes, NameTypes DEF Whole, Orderly
  <2> QED BY <2>1, <2>2, JournalTypes
<1>5. ASSUME NEW i \in Ids, Final(i) \in DOMAIN e,
             NEW n \in 1 .. e[Final(i)].events - 1
      PROVE  /\ History(i, n) \in DOMAIN d => History(i, n) \in DOMAIN e
             /\ n \in 1 .. d[Final(i)].events - 1
  BY <1>1, <1>4, <1>5
<1>6. Archived(e, id)
  BY <1>4, <1>5 DEF Archived
<1>7. ASSUME NEW i \in Ids PROVE Chain(e, i)
  <2>1. CASE i = id
    BY <1>6, <2>1 DEF Archived, Chain
  <2>2. CASE i # id
    BY <1>1, <1>2, <1>4, <1>5, <2>2 DEF Whole, Chain
  <2> QED BY <2>1, <2>2
<1>8. HasTemp(e) = HasTemp(d) \cup {id}
  BY <1>1, <1>2 DEF HasTemp
<1> QED BY <1>1, <1>3, <1>6, <1>7, <1>8 DEF Whole

(* The staging file of a new ID takes the name of its record.              *)
LEMMA PublishWhole ==
  ASSUME NEW d \in Dirs, Whole(d), NEW id \in Ids, NEW k \in Journals,
         k.id = id, k.events = 1, Final(id) \notin DOMAIN d,
         Temp(id) \in DOMAIN d, d[Temp(id)] = k,
         NEW e, e = Renamed(d, Temp(id), Final(id))
  PROVE  /\ e \in Dirs /\ Whole(e) /\ Archived(e, id)
         /\ DOMAIN e = (DOMAIN d \ {Temp(id)}) \cup {Final(id)}
         /\ e[Final(id)] = k
         /\ \A x \in DOMAIN d : x # Temp(id) => e[x] = d[x]
         /\ HasTemp(e) = HasTemp(d) \ {id}
         /\ \A x \in DOMAIN d : x.kind = "history" => x.id # id
<1>1. /\ e \in Dirs /\ DOMAIN e = (DOMAIN d \ {Temp(id)}) \cup {Final(id)}
      /\ e[Final(id)] = k
      /\ \A x \in DOMAIN d : x # Temp(id) => e[x] = d[x]
  <2>1. /\ e \in Dirs
        /\ DOMAIN e = (DOMAIN d \ {Temp(id)}) \cup {Final(id)}
        /\ e[Final(id)] = d[Temp(id)]
        /\ \A x \in DOMAIN d :
             x # Temp(id) /\ x # Final(id) => e[x] = d[x]
    <3>1. Final(id) \in FileNames /\ Final(id) # Temp(id)
      BY NameTypes
    <3>2. ASSUME NEW x \in DOMAIN d, x # Temp(id), x # Final(id)
          PROVE  e[x] = d[x]
      BY <3>1, <3>2 DEF Renamed
    <3> QED BY <3>1, <3>2, RenamedTypes
  <2> QED BY <2>1
<1>2. \A i \in Ids : /\ Final(i) # Temp(id)
                     /\ Final(i) = Final(id) => i = id
                     /\ Temp(i) = Temp(id) => i = id
                     /\ Temp(i) # Final(id)
                     /\ \A n \in Nat : History(i, n) # Temp(id)
  BY NameTypes
<1>3. \A x \in DOMAIN d : x.kind = "history" => x.id # id
  BY DEF Whole, Orderly
<1>4. Orderly(e)
  <2>1. SUFFICES ASSUME NEW x \in DOMAIN e
                 PROVE  /\ x.kind = "final" => x = Final(x.id) /\ e[x] # None
                        /\ x.kind = "temp" => x = Temp(x.id)
                        /\ e[x] # None => e[x].id = x.id
                        /\ x.kind = "history" =>
                             /\ e[x] # None /\ e[x].events = x.events
                             /\ Final(x.id) \in DOMAIN e
                             /\ x.events < e[Final(x.id)].events
    BY DEF Orderly
  <2>2. CASE x = Final(id)
    BY <1>1, <2>2, NameTypes, JournalTypes
  <2>3. CASE x # Final(id)
    <3>1. x \in DOMAIN d /\ e[x] = d[x] /\ x \in FileNames
      BY <1>1, <2>3, DirTypes
    <3>2. x.id \in Ids
      BY <3>1 DEF FileNames
    <3> QED BY <1>1, <1>2, <1>3, <3>1, <3>2 DEF Whole, Orderly
  <2> QED BY <2>2, <2>3
<1>5. ASSUME NEW i \in Ids, i # id PROVE Chain(e, i)
  <2>1. SUFFICES ASSUME Final(i) \in DOMAIN e,
                        NEW n \in 1 .. e[Final(i)].events - 1
                 PROVE  \/ History(i, n) \in DOMAIN e
                        \/ /\ Temp(i) \in DOMAIN e
                           /\ e[Temp(i)] = Journal(i, n)
    BY DEF Chain
  <2>2. Final(i) \in DOMAIN d /\ e[Final(i)] = d[Final(i)]
    BY <1>1, <1>2, <1>5, <2>1
  <2>3. \/ History(i, n) \in DOMAIN d
        \/ Temp(i) \in DOMAIN d /\ d[Temp(i)] = Journal(i, n)
    BY <2>1, <2>2 DEF Whole, Chain
  <2>4. n \in Nat
    OBVIOUS
  <2> QED BY <1>1, <1>2, <1>5, <2>3, <2>4
<1>6. Archived(e, id)
  BY <1>1 DEF Archived
<1>7. Chain(e, id)
  BY <1>6 DEF Archived, Chain
<1>8. HasTemp(e) = HasTemp(d) \ {id}
  BY <1>1, <1>2 DEF HasTemp
<1> QED BY <1>1, <1>3, <1>4, <1>5, <1>6, <1>7, <1>8 DEF Whole

(* The staging file and the record are exchanged: the displaced state is   *)
(* under the temporary name.                                               *)
LEMMA ExchangeWhole ==
  ASSUME NEW d \in Dirs, Whole(d), NEW id \in Ids, Archived(d, id),
         NEW old \in Journals, NEW k \in Journals, old.id = id, k.id = id,
         k.events = old.events + 1,
         Final(id) \in DOMAIN d, d[Final(id)] = old,
         Temp(id) \in DOMAIN d, d[Temp(id)] = k,
         NEW e, e = Exchanged(d, Temp(id), Final(id))
  PROVE  /\ e \in Dirs /\ Whole(e) /\ DOMAIN e = DOMAIN d
         /\ e[Final(id)] = k /\ e[Temp(id)] = old
         /\ \A x \in DOMAIN d :
              x # Temp(id) /\ x # Final(id) => e[x] = d[x]
         /\ HasTemp(e) = HasTemp(d)
<1>1. /\ e \in Dirs /\ DOMAIN e = DOMAIN d
      /\ e[Final(id)] = k /\ e[Temp(id)] = old
      /\ \A x \in DOMAIN d :
           x # Temp(id) /\ x # Final(id) => e[x] = d[x]
  <2>1. Final(id) # Temp(id)
    BY NameTypes
  <2> QED BY <2>1, ExchangedTypes
<1>2. \A i \in Ids : /\ Final(i) # Temp(id) /\ Temp(i) # Final(id)
                     /\ Final(i) = Final(id) => i = id
                     /\ Temp(i) = Temp(id) => i = id
                     /\ \A n \in Nat : /\ History(i, n) # Temp(id)
                                       /\ History(i, n) # Final(id)
  BY NameTypes
<1>3. /\ old # None /\ k # None /\ old.events \in Nat /\ k.events \in Nat
      /\ old = Journal(id, old.events)
  BY JournalTypes
<1>4. Orderly(e)
  <2>1. SUFFICES ASSUME NEW x \in DOMAIN e
                 PROVE  /\ x.kind = "final" => x = Final(x.id) /\ e[x] # None
                        /\ x.kind = "temp" => x = Temp(x.id)
                        /\ e[x] # None => e[x].id = x.id
                        /\ x.kind = "history" =>
                             /\ e[x] # None /\ e[x].events = x.events
                             /\ Final(x.id) \in DOMAIN e
                             /\ x.events < e[Final(x.id)].events
    BY DEF Orderly
  <2>2. CASE x = Final(id) \/ x = Temp(id)
    BY <1>1, <1>3, <2>2, NameTypes
  <2>3. CASE x # Final(id) /\ x # Temp(id)
    <3>1. x \in DOMAIN d /\ e[x] = d[x] /\ x \in FileNames
      BY <1>1, <2>1, <2>3, DirTypes
    <3>2. x.id \in Ids /\ x.events \in Nat
      BY <3>1 DEF FileNames
    <3>3. /\ x.kind = "final" => x = Final(x.id) /\ e[x] # None
          /\ x.kind = "temp" => x = Temp(x.id)
          /\ e[x] # None => e[x].id = x.id
      BY <3>1 DEF Whole, Orderly
    <3>4. ASSUME x.kind = "history"
          PROVE  /\ e[x] # None /\ e[x].events = x.events
                 /\ Final(x.id) \in DOMAIN e
                 /\ x.events < e[Final(x.id)].events
      <4>1. /\ d[x] # None /\ d[x].events = x.events
            /\ Final(x.id) \in DOMAIN d
            /\ x.events < d[Final(x.id)].events
        BY <3>1, <3>4 DEF Whole, Orderly
      <4>2. CASE x.id = id
        BY <1>1, <1>3, <3>1, <3>2, <4>1, <4>2
      <4>3. CASE x.id # id
        BY <1>1, <1>2, <3>1, <3>2, <4>1, <4>3
      <4> QED BY <4>2, <4>3
    <3> QED BY <3>3, <3>4
  <2> QED BY <2>2, <2>3
<1>5. ASSUME NEW i \in Ids PROVE Chain(e, i)
  <2>1. SUFFICES ASSUME Final(i) \in DOMAIN e,
                        NEW n \in 1 .. e[Final(i)].events - 1
                 PROVE  \/ History(i, n) \in DOMAIN e
                        \/ /\ Temp(i) \in DOMAIN e
                           /\ e[Temp(i)] = Journal(i, n)
    BY DEF Chain
  <2>2. CASE i = id
    <3>1. n \in 1 .. old.events
      BY <1>1, <1>3, <2>1, <2>2
    <3>2. CASE n = old.events
      BY <1>1, <1>3, <2>2, <3>2
    <3>3. CASE n # old.events
      BY <1>1, <1>3, <2>2, <3>1, <3>3 DEF Archived
    <3> QED BY <3>2, <3>3
  <2>3. CASE i # id
    <3>1. Final(i) \in DOMAIN d /\ e[Final(i)] = d[Final(i)]
      BY <1>1, <1>2, <2>1, <2>3
    <3>2. \/ History(i, n) \in DOMAIN d
          \/ Temp(i) \in DOMAIN d /\ d[Temp(i)] = Journal(i, n)
      BY <2>1, <3>1 DEF Whole, Chain
    <3> QED BY <1>1, <1>2, <2>3, <3>2
  <2> QED BY <2>2, <2>3
<1>6. HasTemp(e) = HasTemp(d)
  BY <1>1 DEF HasTemp
<1> QED BY <1>1, <1>4, <1>5, <1>6 DEF Whole

(* The displaced state takes its history name.                             *)
LEMMA ArchiveWhole ==
  ASSUME NEW d \in Dirs, Whole(d), NEW id \in Ids,
         NEW old \in Journals, NEW k \in Journals, old.id = id, k.id = id,
         k.events = old.events + 1,
         Final(id) \in DOMAIN d, d[Final(id)] = k,
         Temp(id) \in DOMAIN d, d[Temp(id)] = old,
         NEW e, e = Renamed(d, Temp(id), HistoryName(old)),
         HistoryName(old) \notin DOMAIN d
  PROVE  /\ e \in Dirs /\ Whole(e)
         /\ DOMAIN e = (DOMAIN d \ {Temp(id)}) \cup {HistoryName(old)}
         /\ e[HistoryName(old)] = old
         /\ \A x \in DOMAIN d : x # Temp(id) => e[x] = d[x]
         /\ HasTemp(e) = HasTemp(d) \ {id}
<1>1. /\ HistoryName(old) = History(id, old.events)
      /\ old # None /\ k # None /\ old.events \in Nat /\ k.events \in Nat
      /\ old = Journal(id, old.events)
  BY JournalTypes
<1>2. PICK name : name = HistoryName(old)
  OBVIOUS
<1>3. /\ name \in FileNames /\ name.kind = "history" /\ name.id = id
      /\ name.events = old.events /\ name # Temp(id)
  BY <1>1, <1>2, NameTypes
<1>4. /\ e \in Dirs /\ DOMAIN e = (DOMAIN d \ {Temp(id)}) \cup {name}
      /\ e[name] = old
      /\ \A x \in DOMAIN d : x # Temp(id) => e[x] = d[x]
  <2>1. /\ e \in Dirs /\ DOMAIN e = (DOMAIN d \ {Temp(id)}) \cup {name}
        /\ e[name] = d[Temp(id)]
        /\ \A x \in DOMAIN d : x # Temp(id) /\ x # name => e[x] = d[x]
    <3>1. e = Renamed(d, Temp(id), name)
      BY <1>2
    <3>2. ASSUME NEW x \in DOMAIN d, x # Temp(id), x # name
          PROVE  e[x] = d[x]
      BY <3>1, <3>2 DEF Renamed
    <3>3. Temp(id) # name
      BY <1>3
    <3>4. /\ Renamed(d, Temp(id), name) \in Dirs
          /\ DOMAIN Renamed(d, Temp(id), name) =
               (DOMAIN d \ {Temp(id)}) \cup {name}
          /\ Renamed(d, Temp(id), name)[name] = d[Temp(id)]
      BY <1>3, <3>3, RenamedTypes
    <3> QED BY <3>1, <3>2, <3>4
  <2> QED BY <1>2, <2>1
<1>5. \A i \in Ids : /\ Final(i) # Temp(id)
                     /\ Temp(i) = Temp(id) => i = id
                     /\ Temp(i) # name
                     /\ \A n \in Nat : History(i, n) # Temp(id)
  BY <1>3, NameTypes
<1>6. Orderly(e)
  <2>1. SUFFICES ASSUME NEW x \in DOMAIN e
                 PROVE  /\ x.kind = "final" => x = Final(x.id) /\ e[x] # None
                        /\ x.kind = "temp" => x = Temp(x.id)
                        /\ e[x] # None => e[x].id = x.id
                        /\ x.kind = "history" =>
                             /\ e[x] # None /\ e[x].events = x.events
                             /\ Final(x.id) \in DOMAIN e
                             /\ x.events < e[Final(x.id)].events
    BY DEF Orderly
  <2>2. CASE x = name
    <3>1. Final(id) \in DOMAIN e /\ e[Final(id)] = k
      BY <1>4, <1>5
    <3> QED BY <1>1, <1>3, <1>4, <2>2, <3>1
  <2>3. CASE x # name
    <3>1. x \in DOMAIN d /\ e[x] = d[x] /\ x \in FileNames
      BY <1>4, <2>3, DirTypes
    <3>2. x.id \in Ids
      BY <3>1 DEF FileNames
    <3> QED BY <1>4, <1>5, <3>1, <3>2 DEF Whole, Orderly
  <2> QED BY <2>2, <2>3
<1>7. ASSUME NEW i \in Ids PROVE Chain(e, i)
  <2>1. SUFFICES ASSUME Final(i) \in DOMAIN e,
                        NEW n \in 1 .. e[Final(i)].events - 1
                 PROVE  \/ History(i, n) \in DOMAIN e
                        \/ /\ Temp(i) \in DOMAIN e
                           /\ e[Temp(i)] = Journal(i, n)
    BY DEF Chain
  <2>2. Final(i) \in DOMAIN d /\ e[Final(i)] = d[Final(i)]
    <3>1. Final(i) # name
      BY <1>3, NameTypes
    <3> QED BY <1>4, <1>5, <2>1, <3>1
  <2>3. \/ History(i, n) \in DOMAIN d
        \/ Temp(i) \in DOMAIN d /\ d[Temp(i)] = Journal(i, n)
    BY <2>1, <2>2 DEF Whole, Chain
  <2>4. CASE History(i, n) \in DOMAIN d
    BY <1>4, <1>5, <2>4
  <2>5. CASE Temp(i) \in DOMAIN d /\ d[Temp(i)] = Journal(i, n) /\ i # id
    BY <1>4, <1>5, <2>5
  <2>6. CASE d[Temp(i)] = Journal(i, n) /\ i = id
    <3>1. name = History(i, n)
      BY <1>2, <2>6 DEF History
    <3> QED BY <1>4, <3>1
  <2> QED BY <2>3, <2>4, <2>5, <2>6
<1>8. HasTemp(e) = HasTemp(d) \ {id}
  BY <1>4, <1>5 DEF HasTemp
<1> QED BY <1>2, <1>4, <1>6, <1>7, <1>8 DEF Whole

(* Without a temporary name every earlier state is archived.               *)
LEMMA NoTempArchived ==
  ASSUME NEW d, Whole(d), NEW id \in Ids, id \notin HasTemp(d)
  PROVE  Archived(d, id)
BY DEF Whole, Chain, Archived, HasTemp

-----------------------------------------------------------------------------
(* The calls                                                               *)

Steps == {"create", "write", "staged", "publish", "exchange",
          "sync_exchange", "archive", "sync_last"}

InCall == DInv /\ call # None

(* What every step of a call may use.                                      *)
LEMMA CallTypes ==
  ASSUME InCall
  PROVE  /\ CallInv /\ PlaceInv /\ call \in Calls
         /\ call.new \in Journals /\ call.new.id \in Ids
         /\ call.new # None /\ call.new.events \in Nat
         /\ call.expected \in Journals \cup {None} /\ call.step \in Steps
         /\ LogType /\ dir \in Stored /\ dir \in Dirs
         /\ Stored \subseteq Dirs
         /\ \A d \in Stored : Whole(d)
<1>1. CallInv /\ PlaceInv /\ call \in Calls
  BY DEF InCall, DInv, DiskInv, CallInv
<1>2. /\ call.new \in Journals /\ call.expected \in Journals \cup {None}
      /\ call.step \in Steps
  BY <1>1 DEF Calls, Steps
<1>3. /\ LogType /\ dir \in Stored /\ dir \in Dirs /\ Stored \subseteq Dirs
      /\ \A d \in Stored : Whole(d)
  BY LogTypes DEF InCall, DInv, DiskInv
<1> QED BY <1>1, <1>2, <1>3, JournalTypes

(* A call goes on with everything but its step as it was.                  *)
LEMMA StepOn ==
  ASSUME InCall, NEW s \in Steps, Goto(s)
  PROVE  /\ call' \in Calls /\ call' # None /\ call'.step = s
         /\ call'.new = call.new /\ call'.expected = call.expected
         /\ call'.base = call.base
<1>1. call \in Calls /\ call' = [call EXCEPT !.step = s]
  BY CallTypes DEF Goto
<1>2. call' \in Calls
  BY <1>1 DEF Calls, Steps
<1>3. /\ call'.step = s /\ call'.new = call.new
      /\ call'.expected = call.expected /\ call'.base = call.base
  BY <1>1 DEF Calls
<1> QED BY <1>2, <1>3, NoneAssumption

(* CallInv goes on, as long as the step fits the kind of call.             *)
LEMMA CallInvOn ==
  ASSUME InCall, NEW s \in Steps, Goto(s),
         s = "publish" => call.expected = None,
         s \in {"exchange", "sync_exchange", "archive"} =>
           call.expected # None
  PROVE  CallInv'
BY CallTypes, StepOn DEF CallInv

(* DiskInv after a change of the directory, and after an fsync.            *)
LEMMA ChangeDisk ==
  ASSUME InCall, NEW d \in Dirs, Whole(d), log' = Append(log, d),
         CallInv', PlaceInv', UNCHANGED acked, prev' \in Registers,
         \A id \in DOMAIN acked :
           /\ Final(id) \in DOMAIN d
           /\ acked[id].events <= d[Final(id)].events
  PROVE  DInv'
<1>1. LogType' /\ Stored' = Stored \cup {d}
  BY LogAppend, CallTypes
<1>2. DiskInv'
  BY <1>1, CallTypes DEF DiskInv
<1>3. AckInv'
  BY <1>1 DEF AckInv, InCall, DInv
<1> QED BY <1>2, <1>3 DEF DInv

(* An fsync leaves the directory in place as the only one a crash may      *)
(* leave.                                                                  *)
LEMMA SyncDisk ==
  ASSUME InCall, log' = <<dir>>, UNCHANGED <<acked, prev>>, CallInv', PlaceInv'
  PROVE  DInv'
<1>1. PICK d \in Stored : d = dir
  BY CallTypes
<1>2. d \in Dirs /\ Whole(d) /\ log' = <<d>>
  BY <1>1, CallTypes
<1>3. LogType' /\ Stored' = {d}
  BY <1>2, LogSettled
<1>4. DiskInv'
  BY <1>2, <1>3 DEF DiskInv
<1>5. AckInv'
  BY <1>3 DEF AckInv, InCall, DInv
<1> QED BY <1>4, <1>5 DEF DInv
(* A register with one ID set.                                             *)
LEMMA RegisterTypes ==
  ASSUME NEW r \in Registers, NEW id \in Ids, NEW j \in Journals
  PROVE  /\ With(r, id, j) \in Registers
         /\ DOMAIN r \subseteq Ids
         /\ DOMAIN With(r, id, j) = DOMAIN r \cup {id}
         /\ With(r, id, j)[id] = j
         /\ \A x \in DOMAIN r : r[x] \in Journals
         /\ \A x \in DOMAIN r : x # id => With(r, id, j)[x] = r[x]
<1>1. PICK S \in SUBSET Ids : r \in [S -> Journals]
  BY DEF Registers
<1>2. With(r, id, j) \in [S \cup {id} -> Journals]
  BY <1>1 DEF With
<1>3. S \cup {id} \in SUBSET Ids
  BY <1>1
<1>4. With(r, id, j) \in Registers
  BY <1>2, <1>3 DEF Registers
<1> QED BY <1>1, <1>4 DEF With

(* The records of a directory.                                             *)
LEMMA RecordTypes ==
  ASSUME NEW d \in Dirs, Whole(d)
  PROVE  /\ Records(d) \in Registers
         /\ DOMAIN Records(d) = Recorded(d) /\ Recorded(d) \subseteq Ids
         /\ \A id \in Ids : Final(id) \in DOMAIN d =>
              /\ d[Final(id)] \in Journals /\ d[Final(id)].id = id
              /\ d[Final(id)].events \in Nat /\ Records(d)[id] = d[Final(id)]
<1>1. ASSUME NEW id \in Ids, Final(id) \in DOMAIN d
      PROVE  d[Final(id)] \in Journals /\ d[Final(id)].id = id
  <2>1. Final(id).kind = "final" /\ Final(id).id = id
    BY NameTypes
  <2>2. d[Final(id)] # None /\ d[Final(id)].id = id
    BY <1>1, <2>1 DEF Whole, Orderly
  <2> QED BY <1>1, <2>2, DirTypes
<1>2. Records(d) \in [Recorded(d) -> Journals]
  BY <1>1 DEF Records, Recorded
<1>3. Recorded(d) \in SUBSET Ids
  BY DEF Recorded
<1>4. Records(d) \in Registers
  BY <1>2, <1>3 DEF Registers
<1>5. \A id \in Ids : Final(id) \in DOMAIN d => Records(d)[id] = d[Final(id)]
  BY DEF Records, Recorded
<1> QED BY <1>1, <1>2, <1>3, <1>4, <1>5, JournalTypes

(* What a call finds in the directory when it begins.                      *)
LEMMA ViewTypes ==
  ASSUME DInv
  PROVE  View \in Views
<1>1. dir \in Dirs /\ Whole(dir)
  BY LogTypes DEF DInv, DiskInv
<1>2. Records(dir) \in Registers
  BY <1>1, RecordTypes
<1>3. HasTemp(dir) \subseteq Ids
  BY DEF HasTemp
<1> QED BY <1>2, <1>3 DEF View, Views, DInv, AckInv

(* A call begins without a staging file in the directory.                  *)
LEMMA NewCall ==
  ASSUME DInv, call = None, Readable, NEW k \in Journals,
         NEW x \in Journals \cup {None},
         IF x = None
         THEN k.events = 1 /\ k.id \notin Recorded(dir)
         ELSE /\ k.id = x.id /\ k.events = x.events + 1
              /\ k.id \in Recorded(dir) /\ dir[Final(k.id)] = x,
         call' = [new |-> k, expected |-> x, step |-> "create",
                  base |-> View],
         UNCHANGED <<log, acked, prev>>
  PROVE  DInv'
<1>1. PICK v \in Views : v = View
  BY ViewTypes
<1>2. /\ call' \in Calls /\ call' # None /\ call'.new = k
      /\ call'.expected = x /\ call'.step = "create"
  BY <1>1, NoneAssumption DEF Calls
<1>3. CallInv'
  BY <1>2 DEF CallInv
<1>4. PICK d \in Dirs : d = dir /\ Whole(d)
  BY LogTypes DEF DInv, DiskInv
<1>5. dir' = d
  BY <1>4 DEF dir
<1>6. k.id \in Ids /\ HasTemp(d) = {}
  BY <1>4, JournalTypes DEF Readable
<1>7. Archived(d, k.id)
  BY <1>4, <1>6, NoTempArchived
<1>8. PlaceInv'
  BY <1>2, <1>4, <1>5, <1>6, <1>7
     DEF PlaceInv, Found, Before, Settled, Recorded
<1>9. LogType' /\ Stored' = Stored
  BY DEF LogType, Stored, DInv, DiskInv
<1> QED BY <1>3, <1>8, <1>9 DEF DInv, DiskInv, AckInv

(* What a step leaves in its place.                                        *)
LEMMA PlaceOn ==
  ASSUME InCall, NEW id, id = call.new.id, NEW d, dir' = d,
         NEW s \in Steps, Goto(s),
         HasTemp(d) = IF s \in {"create", "sync_last"} THEN {} ELSE {id},
         s \in Before =>
           /\ Archived(d, id)
           /\ IF call.expected = None
              THEN Final(id) \notin DOMAIN d
              ELSE Final(id) \in DOMAIN d /\ d[Final(id)] = call.expected,
         s \notin Before =>
           Final(id) \in DOMAIN d /\ d[Final(id)] = call.new,
         s = "write" => d[Temp(id)] = None,
         s \in {"staged", "publish", "exchange"} => d[Temp(id)] = call.new,
         s \in {"sync_exchange", "archive"} => d[Temp(id)] = call.expected,
         s \in Settled => log' = <<d>>
  PROVE  PlaceInv'
<1>1. /\ call'.step = s /\ call'.new = call.new /\ call'.new.id = id
      /\ call'.expected = call.expected
  BY StepOn
<1> QED BY <1>1 DEF PlaceInv, Found, Renewed

(* Where a call is, by its step.                                           *)
LEMMA PlaceAt ==
  ASSUME InCall, NEW id, id = call.new.id
  PROVE  /\ HasTemp(dir) =
              IF call.step \in {"create", "sync_last"} THEN {} ELSE {id}
         /\ call.step \in Before =>
              /\ Archived(dir, id)
              /\ IF call.expected = None
                 THEN Final(id) \notin DOMAIN dir
                 ELSE /\ Final(id) \in DOMAIN dir
                      /\ dir[Final(id)] = call.expected
         /\ call.step \notin Before =>
              Final(id) \in DOMAIN dir /\ dir[Final(id)] = call.new
         /\ call.step = "write" => dir[Temp(id)] = None
         /\ call.step \in {"staged", "publish", "exchange"} =>
              dir[Temp(id)] = call.new
         /\ call.step \in {"sync_exchange", "archive"} =>
              dir[Temp(id)] = call.expected
         /\ call.step \in Settled => log = <<dir>>
BY CallTypes DEF PlaceInv, Found, Renewed

(* A change that leaves the records as they are keeps what was             *)
(* acknowledged.                                                           *)
LEMMA AckKept ==
  ASSUME DInv, NEW d \in Stored, NEW id \in Ids, NEW e,
         DOMAIN d \ {Temp(id)} \subseteq DOMAIN e,
         \A x \in DOMAIN d : x # Temp(id) => e[x] = d[x]
  PROVE  \A i \in DOMAIN acked : /\ Final(i) \in DOMAIN e
                                 /\ acked[i].events <= e[Final(i)].events
<1>1. SUFFICES ASSUME NEW i \in DOMAIN acked
               PROVE  /\ Final(i) \in DOMAIN e
                      /\ acked[i].events <= e[Final(i)].events
  OBVIOUS
<1>2. i \in Ids
  BY DEF DInv, AckInv, Registers
<1>3. Final(i) # Temp(id)
  BY <1>2, NameTypes
<1>4. Final(i) \in DOMAIN d /\ acked[i].events <= d[Final(i)].events
  BY DEF DInv, AckInv
<1> QED BY <1>3, <1>4

-----------------------------------------------------------------------------
(* The steps of a call                                                     *)

(* The staging file is created: the directory holds it, still empty.       *)
LEMMA CreateStagingKeeps ==
  ASSUME DInv, CreateStaging
  PROVE  DInv'
<1>1. InCall /\ call.step = "create"
  BY DEF CreateStaging, At, InCall
<1>2. PICK id \in Ids : id = call.new.id
  BY <1>1, CallTypes
<1>3. PICK d \in Dirs : d = dir /\ Whole(d) /\ d \in Stored
  BY <1>1, CallTypes
<1>4. PICK e : e = With(d, Temp(id), None)
  OBVIOUS
<1>5. HasTemp(d) = {} /\ Archived(d, id)
  BY <1>1, <1>2, <1>3, PlaceAt DEF Before
<1>6. /\ e \in Dirs /\ Whole(e) /\ Archived(e, id)
      /\ DOMAIN e = DOMAIN d \cup {Temp(id)} /\ e[Temp(id)] = None
      /\ \A x \in DOMAIN d : x # Temp(id) => e[x] = d[x]
      /\ HasTemp(e) = HasTemp(d) \cup {id}
  <2>1. PICK j \in Journals \cup {None} : j = None /\ (j # None => j.id = id)
    OBVIOUS
  <2>2. e = With(d, Temp(id), j)
    BY <1>4, <2>1
  <2>3. Whole(d) /\ Archived(d, id)
    BY <1>3, <1>5
  <2>4. /\ e \in Dirs /\ Whole(e) /\ Archived(e, id)
        /\ DOMAIN e = DOMAIN d \cup {Temp(id)} /\ e[Temp(id)] = j
        /\ \A x \in DOMAIN d : x # Temp(id) => e[x] = d[x]
        /\ HasTemp(e) = HasTemp(d) \cup {id}
    BY <2>1, <2>2, <2>3, StageWhole
  <2> QED BY <2>1, <2>4
<1>7. /\ log' = Append(log, e) /\ Goto("write") /\ UNCHANGED <<acked, prev>>
  BY <1>2, <1>3, <1>4 DEF CreateStaging, ChangeDir
<1>8. dir' = e
  BY <1>1, <1>6, <1>7, LogAppend, CallTypes
<1>9. Final(id) # Temp(id)
  BY NameTypes
<1>10. PlaceInv'
  <2>1. "write" \in Steps
    BY DEF Steps
  <2>2. IF call.expected = None
        THEN Final(id) \notin DOMAIN e
        ELSE Final(id) \in DOMAIN e /\ e[Final(id)] = call.expected
    BY <1>1, <1>2, <1>3, <1>6, <1>9, PlaceAt DEF Before
  <2> QED BY <1>1, <1>2, <1>5, <1>6, <1>7, <1>8, <2>1, <2>2, PlaceOn
             DEF Before, Settled
<1>11. CallInv'
  BY <1>1, <1>7, CallInvOn DEF Steps
<1>12. \A i \in DOMAIN acked : /\ Final(i) \in DOMAIN e
                               /\ acked[i].events <= e[Final(i)].events
  BY <1>3, <1>6, AckKept
<1>13. prev' \in Registers
  BY <1>7 DEF DInv, AckInv
<1> QED BY <1>1, <1>6, <1>7, <1>10, <1>11, <1>12, <1>13, ChangeDisk

(* The isolated writer fills it with the new state.                        *)
LEMMA WriteStagingKeeps ==
  ASSUME DInv, WriteStaging
  PROVE  DInv'
<1>1. InCall /\ call.step = "write"
  BY DEF WriteStaging, At, InCall
<1>2. PICK id \in Ids : id = call.new.id
  BY <1>1, CallTypes
<1>3. PICK d \in Dirs : d = dir /\ Whole(d) /\ d \in Stored
  BY <1>1, CallTypes
<1>4. PICK k \in Journals : k = call.new /\ k.id = id
  BY <1>1, <1>2, CallTypes
<1>5. PICK e : e = With(d, Temp(id), k)
  OBVIOUS
<1>6. HasTemp(d) = {id} /\ Archived(d, id)
  BY <1>1, <1>2, <1>3, PlaceAt DEF Before
<1>7. /\ e \in Dirs /\ Whole(e) /\ Archived(e, id)
      /\ DOMAIN e = DOMAIN d \cup {Temp(id)} /\ e[Temp(id)] = k
      /\ \A x \in DOMAIN d : x # Temp(id) => e[x] = d[x]
      /\ HasTemp(e) = HasTemp(d) \cup {id}
  <2>1. k \in Journals \cup {None} /\ (k # None => k.id = id)
    BY <1>4
  <2> QED BY <1>3, <1>5, <1>6, <2>1, StageWhole
<1>8. /\ log' = Append(log, e) /\ Goto("staged") /\ UNCHANGED <<acked, prev>>
  BY <1>2, <1>3, <1>4, <1>5 DEF WriteStaging, ChangeDir
<1>9. dir' = e
  BY <1>1, <1>7, <1>8, LogAppend, CallTypes
<1>10. Final(id) # Temp(id)
  BY NameTypes
<1>11. PlaceInv'
  <2>1. "staged" \in Steps
    BY DEF Steps
  <2>2. IF call.expected = None
        THEN Final(id) \notin DOMAIN e
        ELSE Final(id) \in DOMAIN e /\ e[Final(id)] = call.expected
    BY <1>1, <1>2, <1>3, <1>7, <1>10, PlaceAt DEF Before
  <2>3. HasTemp(e) = {id}
    BY <1>6, <1>7
  <2> QED BY <1>1, <1>2, <1>4, <1>7, <1>8, <1>9, <2>1, <2>2, <2>3, PlaceOn
             DEF Before, Settled
<1>12. CallInv'
  BY <1>1, <1>8, CallInvOn DEF Steps
<1>13. \A i \in DOMAIN acked : /\ Final(i) \in DOMAIN e
                               /\ acked[i].events <= e[Final(i)].events
  BY <1>3, <1>7, AckKept
<1>14. prev' \in Registers
  BY <1>8 DEF DInv, AckInv
<1> QED BY <1>1, <1>7, <1>8, <1>11, <1>12, <1>13, <1>14, ChangeDisk

(* The directory is synced with the staging file in it.                    *)
LEMMA SyncStagingKeeps ==
  ASSUME DInv, SyncStaging
  PROVE  DInv'
<1>1. InCall /\ call.step = "staged"
  BY DEF SyncStaging, At, InCall
<1>2. PICK id \in Ids : id = call.new.id
  BY <1>1, CallTypes
<1>3. PICK d \in Dirs : d = dir
  BY <1>1, CallTypes
<1>4. PICK s \in Steps :
        s = IF call.expected = None THEN "publish" ELSE "exchange"
  BY DEF Steps
<1>5. log' = <<d>> /\ Goto(s) /\ UNCHANGED <<acked, prev>>
  BY <1>3, <1>4 DEF SyncStaging
<1>6. dir' = d
  BY <1>5, LogSettled
<1>7. PlaceInv'
  BY <1>1, <1>2, <1>3, <1>4, <1>5, <1>6, PlaceAt, PlaceOn
     DEF Before, Settled
<1>8. CallInv'
  BY <1>1, <1>4, <1>5, CallInvOn
<1> QED BY <1>1, <1>3, <1>5, <1>7, <1>8, SyncDisk

(* The staging file of a new ID becomes its record.                        *)
LEMMA PublishKeeps ==
  ASSUME DInv, Publish
  PROVE  DInv'
<1>1. InCall /\ call.step = "publish"
  BY DEF Publish, At, InCall
<1>2. PICK id \in Ids : id = call.new.id
  BY <1>1, CallTypes
<1>3. PICK d \in Dirs : d = dir /\ Whole(d) /\ d \in Stored
  BY <1>1, CallTypes
<1>4. PICK k \in Journals : k = call.new /\ k.id = id
  BY <1>1, <1>2, CallTypes
<1>5. PICK e : e = Renamed(d, Temp(id), Final(id))
  OBVIOUS
<1>6. call.expected = None /\ k.events = 1
  BY <1>1, <1>4, CallTypes DEF CallInv
<1>7. HasTemp(d) = {id} /\ Final(id) \notin DOMAIN d /\ d[Temp(id)] = k
  BY <1>1, <1>2, <1>3, <1>4, <1>6, PlaceAt DEF Before
<1>8. Temp(id) \in DOMAIN d
  BY <1>7 DEF HasTemp
<1>9. /\ e \in Dirs /\ Whole(e) /\ Archived(e, id)
      /\ DOMAIN e = (DOMAIN d \ {Temp(id)}) \cup {Final(id)}
      /\ e[Final(id)] = k
      /\ \A x \in DOMAIN d : x # Temp(id) => e[x] = d[x]
      /\ HasTemp(e) = HasTemp(d) \ {id}
  <2>1. /\ d \in Dirs /\ Whole(d) /\ id \in Ids /\ k \in Journals
        /\ k.id = id /\ k.events = 1 /\ Final(id) \notin DOMAIN d
        /\ Temp(id) \in DOMAIN d /\ d[Temp(id)] = k
        /\ e = Renamed(d, Temp(id), Final(id))
    BY <1>3, <1>4, <1>5, <1>6, <1>7, <1>8
  <2>2. QED
    BY <2>1, PublishWhole, SMTT(30)
<1>10. /\ log' = Append(log, e) /\ Goto("sync_last")
       /\ UNCHANGED <<acked, prev>>
  BY <1>2, <1>3, <1>5 DEF Publish, ChangeDir
<1>11. dir' = e
  BY <1>1, <1>9, <1>10, LogAppend, CallTypes
<1>12. PlaceInv'
  <2>1. "sync_last" \in Steps
    BY DEF Steps
  <2>2. HasTemp(e) = {} /\ Final(id) \in DOMAIN e
    BY <1>7, <1>9
  <2> QED BY <1>1, <1>2, <1>4, <1>9, <1>10, <1>11, <2>1, <2>2, PlaceOn
             DEF Before, Settled
<1>13. CallInv'
  BY <1>1, <1>10, CallInvOn DEF Steps
<1>14. \A i \in DOMAIN acked : /\ Final(i) \in DOMAIN e
                               /\ acked[i].events <= e[Final(i)].events
  BY <1>3, <1>9, AckKept
<1>15. prev' \in Registers
  BY <1>10 DEF DInv, AckInv
<1> QED BY <1>1, <1>9, <1>10, <1>12, <1>13, <1>14, <1>15, ChangeDisk

(* The new state takes the name of the record, the displaced one the       *)
(* temporary name.                                                         *)
LEMMA ExchangeKeeps ==
  ASSUME DInv, Exchange
  PROVE  DInv'
<1>1. InCall /\ call.step = "exchange"
  BY DEF Exchange, At, InCall
<1>2. PICK id \in Ids : id = call.new.id
  BY <1>1, CallTypes
<1>3. PICK d \in Dirs : d = dir /\ Whole(d) /\ d \in Stored
  BY <1>1, CallTypes
<1>4. PICK k \in Journals : k = call.new /\ k.id = id
  BY <1>1, <1>2, CallTypes
<1>5. PICK old \in Journals : /\ old = call.expected /\ old.id = id
                              /\ k.events = old.events + 1
                              /\ call.expected # None
  BY <1>1, <1>2, <1>4, CallTypes DEF CallInv
<1>6. PICK e : e = Exchanged(d, Temp(id), Final(id))
  OBVIOUS
<1>7. /\ HasTemp(d) = {id} /\ d[Temp(id)] = k /\ Archived(d, id)
      /\ Final(id) \in DOMAIN d /\ d[Final(id)] = old
  BY <1>1, <1>2, <1>3, <1>4, <1>5, PlaceAt DEF Before
<1>8. Temp(id) \in DOMAIN d
  BY <1>7 DEF HasTemp
<1>9. /\ e \in Dirs /\ Whole(e) /\ DOMAIN e = DOMAIN d
      /\ e[Final(id)] = k /\ e[Temp(id)] = old
      /\ \A x \in DOMAIN d : x # Temp(id) /\ x # Final(id) => e[x] = d[x]
      /\ HasTemp(e) = HasTemp(d)
  BY <1>3, <1>4, <1>5, <1>6, <1>7, <1>8, ExchangeWhole
<1>10. /\ log' = Append(log, e) /\ Goto("sync_exchange")
       /\ UNCHANGED acked /\ prev' = With(prev, id, old)
  BY <1>2, <1>3, <1>5, <1>6 DEF Exchange, ChangeDir
<1>11. dir' = e
  BY <1>1, <1>9, <1>10, LogAppend, CallTypes
<1>12. PlaceInv'
  <2>1. "sync_exchange" \in Steps
    BY DEF Steps
  <2>2. HasTemp(e) = {id} /\ Final(id) \in DOMAIN e
    BY <1>7, <1>9
  <2> QED BY <1>1, <1>2, <1>4, <1>5, <1>9, <1>10, <1>11, <2>1, <2>2, PlaceOn
             DEF Before, Settled
<1>13. CallInv'
  BY <1>1, <1>5, <1>10, CallInvOn DEF Steps
<1>14. ASSUME NEW i \in DOMAIN acked
       PROVE  Final(i) \in DOMAIN e /\ acked[i].events <= e[Final(i)].events
  <2>1. /\ acked[i] \in Journals
        /\ i \in Ids /\ Final(i) \in DOMAIN d
        /\ acked[i].events <= d[Final(i)].events
    BY <1>3 DEF DInv, AckInv, Registers
  <2>2. acked[i].events \in Nat /\ old.events \in Nat /\ Final(i) # Temp(id)
    BY <2>1, JournalTypes, NameTypes
  <2>3. CASE i = id
    BY <1>5, <1>7, <1>9, <2>1, <2>2, <2>3
  <2>4. CASE i # id
    <3>1. Final(i) # Final(id)
      BY <2>1, <2>4, NameTypes
    <3> QED BY <1>9, <2>1, <2>2, <3>1
  <2> QED BY <2>3, <2>4
<1>15. prev' \in Registers
  BY <1>10, RegisterTypes DEF DInv, AckInv
<1> QED BY <1>1, <1>9, <1>10, <1>12, <1>13, <1>14, <1>15, ChangeDisk

(* The directory is synced with the displaced state in it.                 *)
LEMMA SyncExchangeKeeps ==
  ASSUME DInv, SyncExchange
  PROVE  DInv'
<1>1. InCall /\ call.step = "sync_exchange"
  BY DEF SyncExchange, At, InCall
<1>2. PICK id \in Ids : id = call.new.id
  BY <1>1, CallTypes
<1>3. PICK d \in Dirs : d = dir
  BY <1>1, CallTypes
<1>4. PICK s \in Steps : s = "archive"
  BY DEF Steps
<1>5. log' = <<d>> /\ Goto(s) /\ UNCHANGED <<acked, prev>>
  BY <1>3, <1>4 DEF SyncExchange
<1>6. dir' = d
  BY <1>5, LogSettled
<1>7. PlaceInv'
  BY <1>1, <1>2, <1>3, <1>4, <1>5, <1>6, PlaceAt, PlaceOn
     DEF Before, Settled
<1>8. CallInv'
  BY <1>1, <1>4, <1>5, CallInvOn, CallTypes DEF CallInv
<1> QED BY <1>1, <1>3, <1>5, <1>7, <1>8, SyncDisk

(* The displaced state is archived.                                        *)
LEMMA ArchiveKeeps ==
  ASSUME DInv, Archive
  PROVE  DInv'
<1>1. InCall /\ call.step = "archive"
  BY DEF Archive, At, InCall
<1>2. PICK id \in Ids : id = call.new.id
  BY <1>1, CallTypes
<1>3. PICK d \in Dirs : d = dir /\ Whole(d) /\ d \in Stored
  BY <1>1, CallTypes
<1>4. PICK k \in Journals : k = call.new /\ k.id = id
  BY <1>1, <1>2, CallTypes
<1>5. PICK old \in Journals : /\ old = call.expected /\ old.id = id
                              /\ k.events = old.events + 1
                              /\ call.expected # None
  BY <1>1, <1>2, <1>4, CallTypes DEF CallInv
<1>6. PICK e : e = Renamed(d, Temp(id), HistoryName(old))
  OBVIOUS
<1>7. /\ HasTemp(d) = {id} /\ d[Temp(id)] = old
      /\ Final(id) \in DOMAIN d /\ d[Final(id)] = k
  BY <1>1, <1>2, <1>3, <1>4, <1>5, PlaceAt DEF Before
<1>8. Temp(id) \in DOMAIN d
  BY <1>7 DEF HasTemp
<1>9. HistoryName(old) \notin DOMAIN d
  BY <1>3, <1>5 DEF Archive
<1>10. /\ e \in Dirs /\ Whole(e)
       /\ DOMAIN e = (DOMAIN d \ {Temp(id)}) \cup {HistoryName(old)}
       /\ e[HistoryName(old)] = old
       /\ \A x \in DOMAIN d : x # Temp(id) => e[x] = d[x]
       /\ HasTemp(e) = HasTemp(d) \ {id}
  BY <1>3, <1>4, <1>5, <1>6, <1>7, <1>8, <1>9, ArchiveWhole
<1>11. /\ log' = Append(log, e) /\ Goto("sync_last")
       /\ UNCHANGED <<acked, prev>>
  BY <1>2, <1>3, <1>5, <1>6 DEF Archive, ChangeDir
<1>12. dir' = e
  BY <1>1, <1>10, <1>11, LogAppend, CallTypes
<1>13. PlaceInv'
  <2>1. "sync_last" \in Steps
    BY DEF Steps
  <2>2. Final(id) # Temp(id)
    BY NameTypes
  <2>3. HasTemp(e) = {} /\ Final(id) \in DOMAIN e /\ e[Final(id)] = k
    BY <1>7, <1>10, <2>2
  <2> QED BY <1>1, <1>2, <1>4, <1>11, <1>12, <2>1, <2>3, PlaceOn
             DEF Before, Settled
<1>14. CallInv'
  BY <1>1, <1>11, CallInvOn DEF Steps
<1>15. \A i \in DOMAIN acked : /\ Final(i) \in DOMAIN e
                               /\ acked[i].events <= e[Final(i)].events
  BY <1>3, <1>10, AckKept
<1>16. prev' \in Registers
  BY <1>11 DEF DInv, AckInv
<1> QED BY <1>1, <1>10, <1>11, <1>13, <1>14, <1>15, <1>16, ChangeDisk

(* The last fsync: the call returns Ok.                                    *)
LEMMA SyncLastKeeps ==
  ASSUME DInv, SyncLast
  PROVE  DInv'
<1>1. InCall /\ call.step = "sync_last"
  BY DEF SyncLast, At, InCall
<1>2. PICK id \in Ids : id = call.new.id
  BY <1>1, CallTypes
<1>3. PICK d \in Dirs : d = dir /\ Whole(d) /\ d \in Stored
  BY <1>1, CallTypes
<1>4. PICK k \in Journals : k = call.new /\ k.id = id
  BY <1>1, <1>2, CallTypes
<1>5. Final(id) \in DOMAIN d /\ d[Final(id)] = k
  BY <1>1, <1>2, <1>3, <1>4, PlaceAt DEF Before
<1>6. /\ log' = <<d>> /\ call' = None /\ UNCHANGED prev
      /\ acked' = With(acked, id, k)
  BY <1>2, <1>3, <1>4 DEF SyncLast, Return
<1>7. LogType' /\ Stored' = {d}
  BY <1>6, LogSettled
<1>8. DiskInv'
  BY <1>3, <1>6, <1>7 DEF DiskInv
<1>9. acked \in Registers /\ prev \in Registers
  BY DEF DInv, AckInv
<1>10. /\ acked' \in Registers /\ DOMAIN acked' = DOMAIN acked \cup {id}
       /\ acked'[id] = k
       /\ \A i \in DOMAIN acked : i # id => acked'[i] = acked[i]
  <2> DEFINE a == With(acked, id, k)
  <2>1. /\ a \in Registers /\ DOMAIN a = DOMAIN acked \cup {id}
        /\ a[id] = k
        /\ \A i \in DOMAIN acked : i # id => a[i] = acked[i]
    BY <1>9, RegisterTypes
  <2> HIDE DEF a
  <2>2. acked' = a
    BY <1>6 DEF a
  <2>3. QED
    BY <2>1, <2>2
<1>11. ASSUME NEW i \in DOMAIN acked'
       PROVE  Final(i) \in DOMAIN d /\ acked'[i].events <= d[Final(i)].events
  <2>1. CASE i = id
    BY <1>5, <1>10, <2>1, JournalTypes
  <2>2. CASE i # id
    BY <1>3, <1>10, <2>2 DEF DInv, AckInv
  <2> QED BY <2>1, <2>2
<1>12. AckInv'
  BY <1>6, <1>7, <1>9, <1>10, <1>11 DEF AckInv
<1> QED BY <1>8, <1>12 DEF DInv

(* A call fails: the directory is as the last step left it.                *)
LEMMA PersistFailsKeeps ==
  ASSUME DInv, PersistFails
  PROVE  DInv'
<1>1. UNCHANGED <<log, acked, prev>> /\ call' = None
  BY DEF PersistFails, Return
<1>2. LogType' /\ Stored' = Stored
  BY <1>1 DEF LogType, Stored, DInv, DiskInv
<1> QED BY <1>1, <1>2 DEF DInv, DiskInv, AckInv

(* The host goes down: one of the directories is left.                     *)
LEMMA HostCrashKeeps ==
  ASSUME DInv, HostCrash
  PROVE  DInv'
<1>1. PICK i \in DOMAIN log :
        /\ log' = <<log[i]>>
        /\ prev' = [id \in {x \in DOMAIN prev :
                              log[i][Final(x)] # prev[x]} |-> prev[id]]
  BY DEF HostCrash
<1>2. log[i] \in Stored
  BY DEF Stored
<1>3. PICK d \in Dirs : d = log[i] /\ d \in Stored /\ Whole(d)
  BY <1>2, LogTypes DEF DInv, DiskInv
<1>4. LogType' /\ Stored' = {d}
  BY <1>1, <1>3, LogSettled
<1>5. call' = None /\ UNCHANGED acked
  BY DEF HostCrash
<1>6. prev' \in Registers
  <2>1. PICK S \in SUBSET Ids : prev \in [S -> Journals]
    BY DEF DInv, AckInv, Registers
  <2>2. PICK T \in SUBSET S :
          prev' = [id \in T |-> prev[id]]
    BY <1>1, <2>1
  <2>3. prev' \in [T -> Journals] /\ T \in SUBSET Ids
    BY <2>1, <2>2
  <2> QED BY <2>3 DEF Registers
<1> QED BY <1>3, <1>4, <1>5, <1>6 DEF DInv, DiskInv, AckInv

(* all() changes nothing on the disk.                                      *)
LEMMA ReaderKeeps ==
  ASSUME DInv, UNCHANGED <<log, call, acked, prev>>
  PROVE  DInv'
<1>1. LogType' /\ Stored' = Stored /\ dir' = dir
  BY DEF LogType, Stored, dir, DInv, DiskInv
<1>2. (CallInv /\ PlaceInv) => (CallInv' /\ PlaceInv')
  BY <1>1 DEF CallInv, PlaceInv, Found, Renewed
<1> QED BY <1>1, <1>2 DEF DInv, DiskInv, AckInv

(* The store starts empty.                                                 *)
LEMMA InitDisk ==
  ASSUME Init
  PROVE  DInv
<1>1. PICK d \in Dirs : d = <<>>
  <2>1. <<>> \in [{} -> Journals \cup {None}]
    OBVIOUS
  <2>2. {} \in SUBSET FileNames
    OBVIOUS
  <2> QED BY <2>1, <2>2 DEF Dirs
<1>2. LogType /\ Stored = {d} /\ DOMAIN d = {}
  BY <1>1 DEF Init, LogType, Stored
<1>3. Whole(d)
  BY <1>2 DEF Whole, Orderly, Chain
<1>4. <<>> \in Registers
  <2>1. <<>> \in [{} -> Journals]
    OBVIOUS
  <2>2. {} \in SUBSET Ids
    OBVIOUS
  <2> QED BY <2>1, <2>2 DEF Registers
<1>5. AckInv
  BY <1>4 DEF AckInv, Init
<1> QED BY <1>2, <1>3, <1>5 DEF DInv, DiskInv, Init

(* What a step of the writer, a reader or the host does to the disk.       *)
LEMMA DiskStep ==
  ASSUME DInv, [Next]_vars
  PROVE  DInv'
<1>1. ASSUME Writer PROVE DInv'
  <2>1. ASSUME NEW k \in Journals, PersistNew(k) PROVE DInv'
    <3>1. PICK x \in Journals \cup {None} : x = None
      OBVIOUS
    <3>2. /\ call = None /\ Readable /\ UNCHANGED <<log, acked, prev>>
          /\ k.events = 1 /\ k.id \notin Recorded(dir)
          /\ call' = [new |-> k, expected |-> x, step |-> "create",
                      base |-> View]
      BY <2>1, <3>1 DEF PersistNew
    <3> QED BY <3>1, <3>2, NewCall
  <2>2. ASSUME NEW e \in Journals, NEW k \in Journals,
               PersistIfMatches(e, k)
        PROVE  DInv'
    <3>1. /\ call = None /\ Readable /\ UNCHANGED <<log, acked, prev>>
          /\ k.id = e.id /\ k.events = e.events + 1
          /\ k.id \in Recorded(dir) /\ dir[Final(k.id)] = e
          /\ call' = [new |-> k, expected |-> e, step |-> "create",
                      base |-> View]
      BY <2>2 DEF PersistIfMatches
    <3>2. e # None /\ e \in Journals \cup {None}
      BY JournalTypes
    <3> QED BY <3>1, <3>2, NewCall
  <2> QED BY <1>1, <2>1, <2>2, CreateStagingKeeps, WriteStagingKeeps,
             SyncStagingKeeps, PublishKeeps, ExchangeKeeps,
             SyncExchangeKeeps, ArchiveKeeps, SyncLastKeeps,
             PersistFailsKeeps
          DEF Writer
<1>2. ASSUME Reader PROVE DInv'
  <2>1. UNCHANGED <<log, call, acked, prev>>
    BY <1>2 DEF Reader, StartAll, ReadNames, LoadOne, ReadNamesAgain,
                RestatOne, FinishAll, EndAll
  <2> QED BY <2>1, ReaderKeeps
<1>3. ASSUME UNCHANGED vars PROVE DInv'
  BY <1>3, ReaderKeeps DEF vars
<1> QED BY <1>1, <1>2, <1>3, HostCrashKeeps DEF Next

(* The inductive invariant: in every directory a crash may leave, the name *)
(* of a file tells what is in it, every earlier state of a record is       *)
(* archived or still under its temporary name, and the record of an        *)
(* acknowledged state is it or a later one; a call is where its steps have *)
(* brought it.                                                             *)
THEOREM DiskInductive == Spec => []DInv
<1>1. Init => DInv
  BY InitDisk
<1>2. DInv /\ [Next]_vars => DInv'
  BY DiskStep
<1> QED BY <1>1, <1>2, PTL DEF Spec

(* An earlier state of a record is in the directory, and so is the record. *)
LEMMA ChainHolds ==
  ASSUME NEW d \in Dirs, Whole(d), NEW id \in Ids, Final(id) \in DOMAIN d,
         NEW n \in Nat \ {0}, n <= d[Final(id)].events
  PROVE  \E name \in DOMAIN d : d[name] = [id |-> id, events |-> n]
<1>1. d[Final(id)] = Journal(id, d[Final(id)].events)
      /\ d[Final(id)].events \in Nat
  BY RecordTypes, JournalTypes
<1>2. CASE n = d[Final(id)].events
  BY <1>1, <1>2 DEF Journal
<1>3. CASE n # d[Final(id)].events
  <2>1. n \in 1 .. d[Final(id)].events - 1
    BY <1>1, <1>3
  <2>2. \/ History(id, n) \in DOMAIN d
        \/ Temp(id) \in DOMAIN d /\ d[Temp(id)] = Journal(id, n)
    BY <2>1 DEF Whole, Chain
  <2>3. ASSUME History(id, n) \in DOMAIN d
        PROVE  d[History(id, n)] = Journal(id, n)
    <3>1. PICK x \in DOMAIN d : x = History(id, n) /\ x.kind = "history"
                                /\ x.id = id /\ x.events = n
      BY <2>3, NameTypes
    <3>2. d[x] # None /\ d[x].id = id /\ d[x].events = n
      BY <3>1 DEF Whole, Orderly
    <3>3. d[x] \in Journals
      BY <3>2, DirTypes
    <3> QED BY <3>1, <3>2, <3>3, JournalTypes
  <2> QED BY <2>2, <2>3 DEF Journal
<1> QED BY <1>2, <1>3

(* CrashConsistent: the host may go down between any two file-system       *)
(* operations of persist_new and persist_if_matches; whatever the disk     *)
(* keeps, no state they returned Ok for is lost, nor any state before it,  *)
(* and a directory without staging files is one all() accepts.             *)
THEOREM DiskCrashConsistent == Spec => []CrashConsistent
<1>1. ASSUME DInv PROVE CrashConsistent
  <2>1. ASSUME NEW i \in DOMAIN log, NEW id \in DOMAIN acked
        PROVE  /\ id \in Recorded(log[i])
               /\ log[i][Final(id)].events >= acked[id].events
               /\ \A n \in 1..acked[id].events :
                    \E name \in DOMAIN log[i] :
                      log[i][name] = [id |-> id, events |-> n]
    <3>1. PICK d \in Dirs : d = log[i] /\ Whole(d) /\ d \in Stored
      BY <1>1, LogTypes DEF DInv, DiskInv, Stored
    <3>2. /\ id \in Ids /\ Final(id) \in DOMAIN d
          /\ acked[id] \in Journals
          /\ acked[id].events <= d[Final(id)].events
      BY <1>1, <3>1 DEF DInv, AckInv, Registers
    <3>3. d[Final(id)].events \in Nat /\ acked[id].events \in Nat
      BY <3>1, <3>2, RecordTypes, JournalTypes
    <3>4. ASSUME NEW n \in 1 .. acked[id].events
          PROVE  \E name \in DOMAIN d : d[name] = [id |-> id, events |-> n]
      <4>1. n \in Nat \ {0} /\ n <= d[Final(id)].events
        BY <3>2, <3>3
      <4> QED BY <3>1, <3>2, <4>1, ChainHolds
    <3> QED BY <3>1, <3>2, <3>3, <3>4 DEF Recorded
  <2>2. ASSUME NEW i \in DOMAIN log PROVE HistoryMatches(log[i])
    <3>1. Whole(log[i])
      BY <1>1 DEF DInv, DiskInv, Stored
    <3> QED BY <3>1 DEF Whole, Orderly, HistoryMatches
  <2> QED BY <2>1, <2>2
          DEF CrashConsistent, AcknowledgedSurvives, ReadableAfterCrash
<1> QED BY <1>1, DiskInductive, PTL

-----------------------------------------------------------------------------
(* all()                                                                   *)

Reading == {"names", "load", "restat"}

(* The fields of a reader.                                                 *)
LEMMA ReaderFields ==
  ASSUME ReaderInv, reader.pc \in Reading
  PROVE  /\ reader = [pc |-> reader.pc, names |-> reader.names,
                      pinned |-> reader.pinned, left |-> reader.left,
                      dirty |-> reader.dirty]
         /\ reader.pc = "names" => DOMAIN reader.pinned = {}
         /\ reader.pc # "names" /\ ~reader.dirty =>
              /\ reader.names = DOMAIN dir
              /\ reader.left \subseteq reader.names
              /\ DOMAIN reader.pinned =
                   IF reader.pc = "load" THEN reader.names \ reader.left
                                         ELSE reader.names
              /\ \A n \in DOMAIN reader.pinned :
                   n.kind # "temp" /\ reader.pinned[n] = dir[n]
BY DEF ReaderInv, Reading

(* A change of the directory makes a reader give up.                       *)
LEMMA ReaderNotified ==
  ASSUME ReaderInv, reader' = Notified
  PROVE  ReaderInv'
<1>1. CASE reader.pc \in Reading
  <2>1. PICK p, ns, pin, l, b :
          /\ reader = [pc |-> p, names |-> ns, pinned |-> pin, left |-> l,
                       dirty |-> b]
          /\ p = "names" => DOMAIN pin = {}
    BY <1>1, ReaderFields
  <2>2. reader' = [pc |-> p, names |-> ns, pinned |-> pin, left |-> l,
                   dirty |-> TRUE]
    BY <1>1, <2>1 DEF Notified, Reading
  <2> QED BY <2>1, <2>2 DEF ReaderInv
<1>2. CASE reader.pc \notin Reading
  <2>1. reader' = reader
    BY <1>2 DEF Notified, Reading
  <2> QED BY <1>2, <2>1 DEF ReaderInv, Reading
<1> QED BY <1>1, <1>2

(* What all() has read stays right while the directory stays as it is.     *)
LEMMA ReaderSame ==
  ASSUME ReaderInv, UNCHANGED reader, dir' = dir
  PROVE  ReaderInv'
BY DEF ReaderInv

(* all() goes on with what it has read.                                    *)
LEMMA ReaderOn ==
  ASSUME NEW p \in Reading, NEW ns, NEW pin, NEW l, NEW b, NEW d, dir' = d,
         reader' = [pc |-> p, names |-> ns, pinned |-> pin, left |-> l,
                    dirty |-> b],
         p = "names" => DOMAIN pin = {},
         p # "names" /\ ~b =>
           /\ ns = DOMAIN d /\ l \subseteq ns
           /\ DOMAIN pin = IF p = "load" THEN ns \ l ELSE ns
           /\ \A n \in DOMAIN pin : n.kind # "temp" /\ pin[n] = d[n]
  PROVE  ReaderInv'
BY DEF ReaderInv

(* Every step of all() reads what the directory holds, or gives up.        *)
LEMMA ReaderReads ==
  ASSUME ReaderInv, Reader
  PROVE  ReaderInv'
<1>1. UNCHANGED log
  BY DEF Reader, StartAll, ReadNames, LoadOne, ReadNamesAgain, RestatOne,
         FinishAll, EndAll
<1>2. PICK d : d = dir /\ dir' = d
  BY <1>1 DEF dir
<1>3. ASSUME reader'.pc \notin Reading PROVE ReaderInv'
  BY <1>3 DEF ReaderInv, Reading
<1>4. ASSUME StartAll PROVE ReaderInv'
  <2>1. reader' = [pc |-> "names", names |-> {}, pinned |-> <<>>,
                   left |-> {}, dirty |-> FALSE]
    BY <1>4 DEF StartAll
  <2>2. DOMAIN <<>> = {} /\ "names" \in Reading
    BY DEF Reading
  <2> QED BY <1>2, <2>1, <2>2, ReaderOn
<1>5. ASSUME NEW p, NEW ns, NEW pin, NEW l, NEW b,
             reader = [pc |-> p, names |-> ns, pinned |-> pin, left |-> l,
                       dirty |-> b]
      PROVE  (\/ ReadNames \/ ReadNamesAgain
              \/ \E n : LoadOne(n) \/ RestatOne(n)) => ReaderInv'
  <2>1. p \in Reading =>
          /\ p = "names" => DOMAIN pin = {}
          /\ p # "names" /\ ~b =>
               /\ ns = DOMAIN d /\ l \subseteq ns
               /\ DOMAIN pin = IF p = "load" THEN ns \ l ELSE ns
               /\ \A n \in DOMAIN pin : n.kind # "temp" /\ pin[n] = d[n]
    BY <1>2, <1>5, ReaderFields
  <2>2. ASSUME ReadNames PROVE ReaderInv'
    <3>1. /\ p = "names"
          /\ reader' = [pc |-> "load", names |-> DOMAIN d, pinned |-> pin,
                        left |-> DOMAIN d, dirty |-> b]
      BY <1>2, <1>5, <2>2 DEF ReadNames
    <3>2. "load" \in Reading /\ DOMAIN pin = {}
      BY <2>1, <3>1 DEF Reading
    <3> QED BY <1>2, <3>1, <3>2, ReaderOn
  <2>3. ASSUME NEW n, LoadOne(n) PROVE ReaderInv'
    <3>1. p = "load" /\ n \in l /\ p \in Reading
      BY <1>5, <2>3 DEF LoadOne, Reading
    <3>2. CASE n.kind = "temp" \/ n \notin DOMAIN d
      BY <1>2, <1>3, <2>3, <3>2 DEF LoadOne, Reading
    <3>3. CASE n.kind # "temp" /\ n \in DOMAIN d
      <4>1. PICK w : w = With(pin, n, d[n])
        OBVIOUS
      <4>2. /\ DOMAIN w = DOMAIN pin \cup {n} /\ w[n] = d[n]
            /\ \A x \in DOMAIN pin : x # n => w[x] = pin[x]
        BY <4>1 DEF With
      <4>3. PICK m : m = l \ {n}
        OBVIOUS
      <4>4. reader' = [pc |-> "load", names |-> ns, pinned |-> w,
                       left |-> m, dirty |-> b]
        BY <1>2, <1>5, <2>3, <3>1, <3>3, <4>1, <4>3 DEF LoadOne
      <4>5. ~b => /\ ns = DOMAIN d /\ m \subseteq ns
                  /\ DOMAIN w = ns \ m
                  /\ \A x \in DOMAIN w : x.kind # "temp" /\ w[x] = d[x]
        BY <2>1, <3>1, <3>3, <4>2, <4>3
      <4>6. "load" \in Reading
        BY DEF Reading
      <4> QED BY <1>2, <4>4, <4>5, <4>6, ReaderOn
    <3> QED BY <3>2, <3>3
  <2>4. ASSUME ReadNamesAgain PROVE ReaderInv'
    <3>1. p = "load" /\ l = {} /\ p \in Reading
      BY <1>5, <2>4 DEF ReadNamesAgain, Reading
    <3>2. CASE DOMAIN d # ns
      BY <1>2, <1>3, <1>5, <2>4, <3>2 DEF ReadNamesAgain, Reading
    <3>3. CASE DOMAIN d = ns
      <4>1. reader' = [pc |-> "restat", names |-> ns, pinned |-> pin,
                       left |-> ns, dirty |-> b]
        BY <1>2, <1>5, <2>4, <3>3 DEF ReadNamesAgain
      <4>2. "restat" \in Reading
        BY DEF Reading
      <4>3. ~b => /\ DOMAIN pin = ns
                  /\ \A x \in DOMAIN pin : x.kind # "temp" /\ pin[x] = d[x]
        BY <2>1, <3>1
      <4> QED BY <1>2, <3>3, <4>1, <4>2, <4>3, ReaderOn
    <3> QED BY <3>2, <3>3
  <2>5. ASSUME NEW n, RestatOne(n) PROVE ReaderInv'
    <3>1. p = "restat" /\ n \in l /\ p \in Reading
      BY <1>5, <2>5 DEF RestatOne, Reading
    <3>2. CASE n \notin DOMAIN d \/ d[n] # pin[n]
      BY <1>2, <1>3, <1>5, <2>5, <3>2 DEF RestatOne, Reading
    <3>3. CASE n \in DOMAIN d /\ d[n] = pin[n]
      <4>1. PICK m : m = l \ {n}
        OBVIOUS
      <4>2. reader' = [pc |-> "restat", names |-> ns, pinned |-> pin,
                       left |-> m, dirty |-> b]
        BY <1>2, <1>5, <2>5, <3>1, <3>3, <4>1 DEF RestatOne
      <4>3. ~b => /\ ns = DOMAIN d /\ m \subseteq ns
                  /\ DOMAIN pin = ns
                  /\ \A x \in DOMAIN pin : x.kind # "temp" /\ pin[x] = d[x]
        BY <2>1, <3>1, <4>1
      <4>4. /\ reader'.pc = "restat" /\ reader'.names = ns
            /\ reader'.pinned = pin /\ reader'.left = m
            /\ reader'.dirty = b
        BY <4>2
      <4> QED BY <1>2, <4>2, <4>3, <4>4 DEF ReaderInv
    <3> QED BY <3>2, <3>3
  <2> QED BY <2>2, <2>3, <2>4, <2>5
<1>6. ASSUME FinishAll \/ EndAll PROVE ReaderInv'
  BY <1>3, <1>6 DEF FinishAll, EndAll, Reading
<1>7. ASSUME \/ ReadNames \/ ReadNamesAgain
             \/ \E n : LoadOne(n) \/ RestatOne(n)
      PROVE  ReaderInv'
  <2>1. reader.pc \in Reading
    BY <1>7 DEF ReadNames, ReadNamesAgain, LoadOne, RestatOne, Reading
  <2> QED BY <1>5, <1>7, <2>1, ReaderFields
<1> QED BY <1>4, <1>6, <1>7 DEF Reader

(* Writers beside all() change the directory, and all() is told; an fsync  *)
(* changes nothing.                                                        *)
LEMMA ReaderStep ==
  ASSUME DInv, ReaderInv, [Next]_vars
  PROVE  ReaderInv'
<1>1. ASSUME CreateStaging \/ WriteStaging \/ Publish \/ Exchange \/ Archive
      PROVE  ReaderInv'
  <2>1. reader' = Notified
    BY <1>1 DEF CreateStaging, WriteStaging, Publish, Exchange, Archive,
                ChangeDir
  <2> QED BY <2>1, ReaderNotified
<1>2. ASSUME SyncStaging \/ SyncExchange \/ SyncLast
      PROVE  ReaderInv'
  <2>1. UNCHANGED reader /\ log' = <<dir>>
    BY <1>2 DEF SyncStaging, SyncExchange, SyncLast
  <2>2. dir' = dir
    BY <2>1 DEF dir
  <2> QED BY <2>1, <2>2, ReaderSame
<1>3. ASSUME \/ \E k \in Journals : PersistNew(k)
             \/ \E e, k \in Journals : PersistIfMatches(e, k)
             \/ PersistFails \/ UNCHANGED vars
      PROVE  ReaderInv'
  <2>1. UNCHANGED <<reader, log>>
    BY <1>3 DEF PersistNew, PersistIfMatches, PersistFails, vars
  <2>2. dir' = dir
    BY <2>1 DEF dir
  <2> QED BY <2>1, <2>2, ReaderSame
<1>4. ASSUME HostCrash PROVE ReaderInv'
  BY <1>4 DEF HostCrash, ReaderInv
<1> QED BY <1>1, <1>2, <1>3, <1>4, ReaderReads DEF Next, Writer

(* What all() has read is what the directory holds as long as nobody       *)
(* changed it.                                                             *)
THEOREM ReaderInductive == Spec => [](DInv /\ ReaderInv)
<1>1. Init => DInv /\ ReaderInv
  BY InitDisk DEF Init, ReaderInv
<1>2. DInv /\ ReaderInv /\ [Next]_vars => (DInv /\ ReaderInv)'
  BY DiskStep, ReaderStep
<1> QED BY <1>1, <1>2, PTL DEF Spec

(* ReadIsCurrent: all() reads one file after the other beside a writer,    *)
(* and what it returns is what the directory holds when it returns.        *)
THEOREM AllReadsCurrent == Spec => ReadIsCurrent
<1>1. ASSUME DInv, ReaderInv, FinishAll, reader'.pc = "ok"
      PROVE  HasTemp(dir) = {} /\ reader'.result = Records(dir)
  <2>1. reader.pc = "restat" /\ reader.pc \in Reading
    BY <1>1 DEF FinishAll, Reading
  <2>2. ~reader.dirty /\ reader'.result = Records(reader.pinned)
    BY <1>1 DEF FinishAll
  <2>3. PICK pin : pin = reader.pinned
    OBVIOUS
  <2>4. PICK d : d = dir
    OBVIOUS
  <2>5. /\ DOMAIN pin = DOMAIN d
        /\ \A n \in DOMAIN pin : n.kind # "temp" /\ pin[n] = d[n]
    BY <1>1, <2>1, <2>2, <2>3, <2>4, ReaderFields
  <2>6. HasTemp(d) = {}
    BY <2>5, NameTypes DEF HasTemp
  <2>7. Recorded(pin) = Recorded(d)
    BY <2>5 DEF Recorded
  <2>8. \A id \in Recorded(d) : pin[Final(id)] = d[Final(id)]
    BY <2>5 DEF Recorded
  <2>9. Records(pin) = Records(d)
    BY <2>7, <2>8 DEF Records
  <2> QED BY <2>2, <2>3, <2>4, <2>6, <2>9
<1>2. DInv /\ ReaderInv /\ [Next]_vars =>
        [(FinishAll /\ reader'.pc = "ok") =>
           HasTemp(dir) = {} /\ reader'.result = Records(dir)]_vars
  BY <1>1
<1> QED BY <1>2, ReaderInductive, PTL DEF Spec, ReadIsCurrent

-----------------------------------------------------------------------------
(* What two directories show of an ID                                      *)

(* The directories d and e agree on a name.                                *)
Agree(d, e, x) ==
  /\ x \in DOMAIN d <=> x \in DOMAIN e
  /\ x \in DOMAIN d => e[x] = d[x]

(* Directories that agree on the record and the archived states of an ID   *)
(* show the same of it, and the other way round.                           *)
LEMMA NamedSame ==
  ASSUME NEW d, NEW e, NEW id,
         \A x \in DOMAIN d \cup DOMAIN e :
           x.kind # "temp" /\ x.id = id => Agree(d, e, x)
  PROVE  Named(d, id) = Named(e, id)
<1>1. {m \in DOMAIN d : m.id = id /\ m.kind # "temp"}
        = {m \in DOMAIN e : m.id = id /\ m.kind # "temp"}
  BY DEF Agree
<1>2. \A m \in DOMAIN d : m.id = id /\ m.kind # "temp" => e[m] = d[m]
  BY DEF Agree
<1> QED BY <1>1, <1>2 DEF Named

(* What two directories show alike of an ID they agree on.                 *)
LEMMA NamedTells ==
  ASSUME NEW d, NEW e, NEW id, Named(d, id) = Named(e, id),
         NEW x, x.kind # "temp", x.id = id
  PROVE  Agree(d, e, x)
<1>1. ASSUME x \in DOMAIN d PROVE x \in DOMAIN e /\ e[x] = d[x]
  <2>1. <<x, d[x]>> \in Named(e, id)
    BY <1>1 DEF Named
  <2>2. PICK m \in DOMAIN e : <<x, d[x]>> = <<m, e[m]>>
    BY <2>1 DEF Named
  <2> QED BY <2>2
<1>2. ASSUME x \in DOMAIN e PROVE x \in DOMAIN d
  <2>1. <<x, e[x]>> \in Named(d, id)
    BY <1>2 DEF Named
  <2>2. PICK m \in DOMAIN d : <<x, e[x]>> = <<m, d[m]>>
    BY <2>1 DEF Named
  <2> QED BY <2>2
<1> QED BY <1>1, <1>2 DEF Agree

(* Two directories that agree on the names of an ID.                       *)
LEMMA AgreeAlike ==
  ASSUME NEW d \in Dirs, NEW e \in Dirs, NEW id \in Ids,
         \A x \in FileNames : x.id = id => Agree(d, e, x)
  PROVE  /\ Alike(d, e, id) /\ Agree(d, e, Final(id))
         /\ Temp(id) \in DOMAIN d <=> Temp(id) \in DOMAIN e
<1>1. DOMAIN d \cup DOMAIN e \subseteq FileNames
  BY DirTypes
<1>2. Named(d, id) = Named(e, id)
  BY <1>1, NamedSame
<1>3. Agree(d, e, Final(id)) /\ Agree(d, e, Temp(id))
  BY NameTypes
<1>4. HoldsDisplaced(d, id) <=> HoldsDisplaced(e, id)
  BY <1>3 DEF HoldsDisplaced, HasTemp, Recorded, Agree
<1> QED BY <1>2, <1>3, <1>4 DEF Alike, Agree

(* An ID that two directories show alike has the same record in both.      *)
LEMMA AlikeTells ==
  ASSUME NEW d, NEW e, NEW id \in Ids, Alike(d, e, id)
  PROVE  Agree(d, e, Final(id))
<1>1. Final(id).kind # "temp" /\ Final(id).id = id
  BY NameTypes
<1> QED BY <1>1, NamedTells DEF Alike

(* What is alike step by step is alike.                                    *)
LEMMA AlikeTrans ==
  ASSUME NEW d, NEW e, NEW f, NEW id, Alike(d, e, id), Alike(e, f, id)
  PROVE  Alike(d, f, id)
BY DEF Alike

(* A staging file that is created or written changes nothing else.         *)
LEMMA StageAlike ==
  ASSUME NEW d \in Dirs, NEW e \in Dirs, NEW id \in Ids, Whole(d), Whole(e),
         DOMAIN e = DOMAIN d \cup {Temp(id)},
         \A x \in DOMAIN d : x # Temp(id) => e[x] = d[x],
         Temp(id) \in DOMAIN d => d[Temp(id)] = None,
         e[Temp(id)] # None /\ Final(id) \in DOMAIN d =>
           e[Temp(id)].events > d[Final(id)].events
  PROVE  \A i \in Ids : Alike(d, e, i) /\ Agree(d, e, Final(i))
<1>1. SUFFICES ASSUME NEW i \in Ids
               PROVE  Alike(d, e, i) /\ Agree(d, e, Final(i))
  OBVIOUS
<1>2. CASE i # id
  <2>1. \A x \in FileNames : x.id = i => x # Temp(id)
    BY <1>2, NameTypes
  <2>2. \A x \in FileNames : x.id = i => Agree(d, e, x)
    BY <2>1 DEF Agree
  <2> QED BY <2>2, AgreeAlike
<1>3. CASE i = id
  <2>1. Named(d, i) = Named(e, i)
    <3>1. \A x \in DOMAIN d \cup DOMAIN e : x.kind # "temp" => x # Temp(id)
      BY NameTypes
    <3>2. \A x \in DOMAIN d \cup DOMAIN e :
            x.kind # "temp" /\ x.id = i => Agree(d, e, x)
      BY <3>1 DEF Agree
    <3> QED BY <3>2, NamedSame
  <2>2. Final(i) # Temp(id)
    BY NameTypes
  <2>3. Agree(d, e, Final(i))
    BY <2>2 DEF Agree
  <2>4. ~HoldsDisplaced(d, i)
    BY <1>3 DEF HoldsDisplaced, HasTemp
  <2>5. ~HoldsDisplaced(e, i)
    <3>1. ASSUME Final(id) \in DOMAIN e, e[Temp(id)] # None
          PROVE  ~(e[Temp(id)].events < e[Final(id)].events)
      <4>1. /\ Final(id) \in DOMAIN d /\ d[Final(id)] = e[Final(id)]
            /\ d[Final(id)].events \in Nat
        BY <1>3, <2>3, <3>1, RecordTypes DEF Agree
      <4>2. e[Temp(id)].events \in Nat
        BY <3>1, DirTypes, JournalTypes
      <4> QED BY <3>1, <4>1, <4>2
    <3> QED BY <1>3, <3>1 DEF HoldsDisplaced, Recorded
  <2> QED BY <1>3, <2>1, <2>3, <2>4, <2>5 DEF Alike
<1> QED BY <1>2, <1>3

(* The records of two directories, the one ID apart that was renamed.      *)
LEMMA AgreeRecords ==
  ASSUME NEW d, NEW e, \A i \in Ids : Agree(d, e, Final(i))
  PROVE  Records(e) = Records(d)
<1>1. Recorded(e) = Recorded(d)
  BY DEF Recorded, Agree
<1>2. \A i \in Recorded(d) : e[Final(i)] = d[Final(i)]
  BY DEF Recorded, Agree
<1> QED BY <1>1, <1>2 DEF Records

(* A rename onto <id>.json sets the record of that ID and no other.        *)
LEMMA RecordsWith ==
  ASSUME NEW d, NEW e, NEW id \in Ids, NEW k,
         Final(id) \in DOMAIN e, e[Final(id)] = k,
         \A i \in Ids : i # id => Agree(d, e, Final(i))
  PROVE  Records(e) = With(Records(d), id, k)
<1>1. Recorded(e) = Recorded(d) \cup {id}
  BY DEF Recorded, Agree
<1>2. DOMAIN Records(d) = Recorded(d)
  BY DEF Records
<1>3. \A i \in Recorded(d) : i # id => e[Final(i)] = Records(d)[i]
  BY DEF Recorded, Records, Agree
<1>4. With(Records(d), id, k) =
        [i \in Recorded(e) |-> IF i = id THEN k ELSE Records(d)[i]]
  BY <1>1, <1>2 DEF With
<1>5. \A i \in Recorded(e) :
        e[Final(i)] = IF i = id THEN k ELSE Records(d)[i]
  BY <1>1, <1>3
<1> QED BY <1>4, <1>5 DEF Records

(* A change that is not seen adds no unsynced ID.                          *)
LEMMA DifferSame ==
  ASSUME NEW c, NEW d, NEW e, \A i \in Ids : Alike(d, e, i)
  PROVE  Differ(c, e) = Differ(c, d)
BY DEF Differ, Alike

(* What may be undone after a staging file was created or written.         *)
LEMMA PendingStaged ==
  ASSUME NEW S, NEW c, NEW d, NEW e, NEW p \in Registers,
         Pending(S, c, d, p),
         \A i \in Ids : Alike(d, e, i) /\ Agree(d, e, Final(i))
  PROVE  Pending(S \cup {e}, c, e, p)
<1>1. DOMAIN p \subseteq Ids
  BY DEF Registers
<1>2. ASSUME NEW id \in DOMAIN p
      PROVE  Final(id) \in DOMAIN e /\ p[id].events < e[Final(id)].events
  <2>1. /\ Final(id) \in DOMAIN d /\ p[id].events < d[Final(id)].events
        /\ Agree(d, e, Final(id))
    BY <1>1 DEF Pending
  <2> QED BY <2>1 DEF Agree
<1>3. ASSUME NEW f \in (S \cup {e}) \ {c}, NEW id \in Ids
      PROVE  Alike(f, e, id)
  <2>1. CASE f = e
    BY <2>1 DEF Alike
  <2>2. CASE f # e
    <3>1. Alike(f, d, id) /\ Alike(d, e, id)
      BY <2>2 DEF Pending
    <3> QED BY <3>1, AlikeTrans
  <2> QED BY <2>1, <2>2
<1>4. ASSUME NEW id \in Ids PROVE Undone(S \cup {e}, c, e, p, id)
  <2>1. /\ Undone(S, c, d, p, id) /\ Alike(d, e, id)
        /\ Agree(d, e, Final(id))
    BY DEF Pending
  <2>2. CASE Alike(c, d, id)
    BY <2>1, <2>2, AlikeTrans DEF Undone
  <2>3. CASE PublishLost(c, d, p, id)
    BY <2>1, <2>3 DEF Undone, PublishLost, Alike, Agree
  <2>4. CASE ExchangeLost(c, d, p, id)
    BY <2>1, <2>4 DEF Undone, ExchangeLost, Alike, Agree
  <2>5. CASE /\ ArchiveLost(c, d, p, id)
             /\ \E f \in S : Temp(id) \notin DOMAIN f
    <3>1. ArchiveLost(c, e, p, id)
      BY <2>1, <2>5 DEF ArchiveLost, Alike, Agree
    <3> QED BY <2>5, <3>1 DEF Undone
  <2> QED BY <2>1, <2>2, <2>3, <2>4, <2>5 DEF Undone
<1> QED BY <1>2, <1>3, <1>4 DEF Pending

(* After an fsync nothing may be undone.                                   *)
LEMMA PendingSettled ==
  ASSUME NEW d, NEW p,
         \A id \in DOMAIN p :
           Final(id) \in DOMAIN d /\ p[id].events < d[Final(id)].events
  PROVE  Pending({d}, d, d, p)
BY DEF Pending, Undone, Alike

(* After a rename that follows an fsync it is all that may be undone.      *)
LEMMA PendingRenamed ==
  ASSUME NEW d, NEW e, NEW p, NEW id \in Ids,
         \A i \in Ids : i # id => Alike(d, e, i),
         \A i \in DOMAIN p :
           Final(i) \in DOMAIN e /\ p[i].events < e[Final(i)].events,
         Undone({d, e}, d, e, p, id)
  PROVE  Pending({d, e}, d, e, p)
<1>1. \A i \in Ids : Alike(e, e, i)
  BY DEF Alike
<1>2. \A i \in Ids : Undone({d, e}, d, e, p, i)
  BY DEF Undone
<1>3. \A f \in {d, e} \ {d} : f = e
  OBVIOUS
<1> QED BY <1>1, <1>2, <1>3 DEF Pending

-----------------------------------------------------------------------------
(* DurableStore                                                            *)

RInv == DInv /\ PendingInv /\ BaseInv

(* A step of a call that changes the directory.                            *)
LEMMA Changed ==
  ASSUME InCall, DInv', NEW x, log' = Append(log, x)
  PROVE  \E id \in Ids, d \in Dirs, e \in Dirs, k \in Journals :
           /\ id = call.new.id /\ k = call.new /\ k.id = id
           /\ d = dir /\ Whole(d) /\ d \in Stored
           /\ e = x /\ e = dir' /\ Whole(e)
           /\ Stored' = Stored \cup {e} /\ log'[1] = log[1]
<1>1. PICK id \in Ids, k \in Journals :
        id = call.new.id /\ k = call.new /\ k.id = id
  BY CallTypes
<1>2. PICK d \in Dirs : d = dir /\ Whole(d) /\ d \in Stored
  BY CallTypes
<1>3. LogType /\ LogType'
  BY CallTypes DEF DInv, DiskInv
<1>4. x \in Dirs
  <2>1. Len(log) \in Nat /\ log \in Seq(Dirs)
    BY <1>3 DEF LogType
  <2>2. log \in Seq(Dirs \cup {x})
    BY <2>1
  <2>3. log'[Len(log) + 1] = x /\ Len(log') = Len(log) + 1
    BY <2>2
  <2>4. log' \in Seq(Dirs)
    BY <1>3 DEF LogType
  <2> QED BY <2>1, <2>3, <2>4
<1>5. PICK e \in Dirs : e = x
  BY <1>4
<1>6. dir' = e /\ Stored' = Stored \cup {e} /\ log'[1] = log[1]
  BY <1>3, <1>5, LogAppend
<1>7. Whole(e)
  BY <1>6 DEF DInv, DiskInv
<1> QED BY <1>1, <1>2, <1>5, <1>6, <1>7

(* Where the disk and the call are before a step and after it.             *)
LEMMA RState ==
  ASSUME RInv, call # None
  PROVE  \E S \in SUBSET Dirs, f \in Dirs, p \in Registers, c \in Calls :
           /\ S = Stored /\ f = log[1] /\ p = prev /\ c = call
           /\ Pending(S, f, dir, p) /\ Based(c, S, f, dir, p)
           /\ \A i \in DOMAIN p : i \in Ids /\ p[i] \in Journals
<1>1. Stored \subseteq Dirs /\ log[1] \in Dirs /\ prev \in Registers
  BY LogTypes DEF RInv, DInv, DiskInv, AckInv
<1>2. call \in Calls
  BY DEF RInv, DInv, DiskInv, CallInv
<1>3. /\ Pending(Stored, log[1], dir, prev)
      /\ Based(call, Stored, log[1], dir, prev)
  BY DEF RInv, PendingInv, BaseInv
<1>4. \A i \in DOMAIN prev : i \in Ids /\ prev[i] \in Journals
  BY <1>1 DEF Registers
<1> QED BY <1>1, <1>2, <1>3, <1>4

(* What has to be shown of the state after a step of a call.               *)
LEMMA RNext ==
  ASSUME NEW S, NEW f, NEW e, NEW p, NEW c,
         Stored' = S, log'[1] = f, dir' = e, prev' = p, call' = c,
         Pending(S, f, e, p), Based(c, S, f, e, p)
  PROVE  PendingInv' /\ BaseInv'
BY DEF PendingInv, BaseInv

(* The staging file of a call is created.                                  *)
LEMMA CreateStagingBased ==
  ASSUME RInv, CreateStaging, DInv'
  PROVE  PendingInv' /\ BaseInv'
<1>1. InCall /\ call # None /\ call.step = "create"
  BY DEF CreateStaging, At, InCall, RInv
<1>2. PICK id \in Ids, d \in Dirs, e \in Dirs, k \in Journals :
        /\ id = call.new.id /\ k = call.new /\ k.id = id
        /\ d = dir /\ Whole(d) /\ d \in Stored
        /\ e = With(d, Temp(id), None) /\ e = dir' /\ Whole(e)
        /\ Stored' = Stored \cup {e} /\ log'[1] = log[1]
  <2>1. log' = Append(log, With(dir, Temp(call.new.id), None))
    BY DEF CreateStaging, ChangeDir
  <2> QED BY <1>1, <2>1, Changed
<1>3. PICK S \in SUBSET Dirs, f \in Dirs, p \in Registers, c \in Calls :
        /\ S = Stored /\ f = log[1] /\ p = prev /\ c = call
        /\ Pending(S, f, d, p) /\ Based(c, S, f, d, p)
  BY <1>1, <1>2, RState
<1>4. HasTemp(d) = {}
  BY <1>1, <1>2, PlaceAt
<1>5. /\ DOMAIN e = DOMAIN d \cup {Temp(id)} /\ e[Temp(id)] = None
      /\ \A x \in DOMAIN d : x # Temp(id) => e[x] = d[x]
      /\ Temp(id) \notin DOMAIN d
  BY <1>2, <1>4 DEF With, HasTemp
<1>6. \A i \in Ids : Alike(d, e, i) /\ Agree(d, e, Final(i))
  BY <1>2, <1>5, StageAlike
<1>7. Pending(S \cup {e}, f, e, p)
  BY <1>3, <1>6, PendingStaged
<1>8. Goto("write") /\ prev' = p
  BY <1>3 DEF CreateStaging
<1>9. PICK b \in Calls : /\ b = call' /\ b.step = "write" /\ b.new = c.new
                         /\ b.expected = c.expected /\ b.base = c.base
  BY <1>1, <1>3, <1>8, StepOn DEF Steps
<1>10. Records(e) = Records(d) /\ Differ(f, e) = Differ(f, d)
  BY <1>6, AgreeRecords, DifferSame
<1>11. Based(b, S \cup {e}, f, e, p)
  BY <1>1, <1>2, <1>3, <1>5, <1>9, <1>10 DEF Based, Preparing, Before
<1> QED BY <1>2, <1>3, <1>7, <1>8, <1>9, <1>11, RNext

(* And written.                                                            *)
LEMMA WriteStagingBased ==
  ASSUME RInv, WriteStaging, DInv'
  PROVE  PendingInv' /\ BaseInv'
<1>1. InCall /\ call # None /\ call.step = "write"
  BY DEF WriteStaging, At, InCall, RInv
<1>2. PICK id \in Ids, d \in Dirs, e \in Dirs, k \in Journals :
        /\ id = call.new.id /\ k = call.new /\ k.id = id
        /\ d = dir /\ Whole(d) /\ d \in Stored
        /\ e = With(d, Temp(id), k) /\ e = dir' /\ Whole(e)
        /\ Stored' = Stored \cup {e} /\ log'[1] = log[1]
  <2>1. log' = Append(log, With(dir, Temp(call.new.id), call.new))
    BY DEF WriteStaging, ChangeDir
  <2>2. PICK x : x = With(dir, Temp(call.new.id), call.new)
    OBVIOUS
  <2>3. log' = Append(log, x)
    BY <2>1, <2>2
  <2> QED BY <1>1, <2>2, <2>3, Changed
<1>3. PICK S \in SUBSET Dirs, f \in Dirs, p \in Registers, c \in Calls :
        /\ S = Stored /\ f = log[1] /\ p = prev /\ c = call
        /\ Pending(S, f, d, p) /\ Based(c, S, f, d, p)
  BY <1>1, <1>2, RState
<1>4. HasTemp(d) = {id} /\ d[Temp(id)] = None
  BY <1>1, <1>2, PlaceAt
<1>5. /\ DOMAIN e = DOMAIN d \cup {Temp(id)} /\ e[Temp(id)] = k
      /\ \A x \in DOMAIN d : x # Temp(id) => e[x] = d[x]
  BY <1>2 DEF With
<1>6. Final(id) \in DOMAIN d => k.events > d[Final(id)].events
  <2>1. CASE call.expected = None
    BY <1>1, <1>2, <2>1, PlaceAt DEF Before
  <2>2. CASE call.expected # None
    <3>1. d[Final(id)] = call.expected /\ k.events = call.expected.events + 1
      BY <1>1, <1>2, <2>2, PlaceAt, CallTypes DEF Before, CallInv
    <3>2. call.expected.events \in Nat
      BY <1>1, <2>2, CallTypes, JournalTypes
    <3> QED BY <3>1, <3>2
  <2> QED BY <2>1, <2>2
<1>7. \A i \in Ids : Alike(d, e, i) /\ Agree(d, e, Final(i))
  BY <1>2, <1>4, <1>5, <1>6, StageAlike
<1>8. Pending(S \cup {e}, f, e, p)
  BY <1>3, <1>7, PendingStaged
<1>9. Goto("staged") /\ prev' = p
  BY <1>3 DEF WriteStaging
<1>10. PICK b \in Calls : /\ b = call' /\ b.step = "staged" /\ b.new = c.new
                          /\ b.expected = c.expected /\ b.base = c.base
  BY <1>1, <1>3, <1>9, StepOn DEF Steps
<1>11. Records(e) = Records(d) /\ Differ(f, e) = Differ(f, d)
  BY <1>7, AgreeRecords, DifferSame
<1>12. Based(b, S \cup {e}, f, e, p)
  BY <1>1, <1>2, <1>3, <1>10, <1>11 DEF Based, Preparing, Before
<1> QED BY <1>2, <1>3, <1>8, <1>9, <1>10, <1>12, RNext

(* An fsync within a call.                                                 *)
LEMMA SyncBased ==
  ASSUME RInv, SyncStaging \/ SyncExchange, DInv'
  PROVE  PendingInv' /\ BaseInv'
<1>1. /\ InCall /\ call # None
      /\ \/ SyncStaging /\ call.step = "staged"
         \/ SyncExchange /\ call.step = "sync_exchange"
  BY DEF SyncStaging, SyncExchange, At, InCall, RInv
<1>2. PICK id \in Ids, d \in Dirs : id = call.new.id /\ d = dir
  BY <1>1, CallTypes
<1>3. PICK S \in SUBSET Dirs, f \in Dirs, p \in Registers, c \in Calls :
        /\ S = Stored /\ f = log[1] /\ p = prev /\ c = call
        /\ Pending(S, f, d, p) /\ Based(c, S, f, d, p)
  BY <1>1, <1>2, RState
<1>4. log' = <<d>> /\ prev' = p
  BY <1>1, <1>2, <1>3 DEF SyncStaging, SyncExchange
<1>5. dir' = d /\ Stored' = {d} /\ log'[1] = d
  BY <1>4, LogSettled
<1>6. Pending({d}, d, d, p)
  BY <1>3, PendingSettled DEF Pending
<1>7. PICK s \in Steps :
        /\ Goto(s)
        /\ s \in IF call.step = "staged" THEN {"publish", "exchange"}
                                         ELSE {"archive"}
  BY <1>1 DEF SyncStaging, SyncExchange, Steps
<1>8. PICK b \in Calls : /\ b = call' /\ b.step = s /\ b.new = c.new
                         /\ b.expected = c.expected /\ b.base = c.base
  BY <1>1, <1>3, <1>7, StepOn
<1>9. Differ(d, d) = {}
  BY DEF Differ
<1>10. Based(b, {d}, d, d, p)
  BY <1>1, <1>2, <1>3, <1>7, <1>8, <1>9 DEF Based, Preparing, Before
<1> QED BY <1>4, <1>5, <1>6, <1>8, <1>10, RNext

(* A rename of the files of one ID is not seen under the other IDs.        *)
LEMMA OthersAlike ==
  ASSUME NEW d \in Dirs, NEW e \in Dirs, NEW id \in Ids,
         \A x \in FileNames : x.id # id => Agree(d, e, x)
  PROVE  \A i \in Ids : i # id => Alike(d, e, i) /\ Agree(d, e, Final(i))
<1>1. SUFFICES ASSUME NEW i \in Ids, i # id
               PROVE  Alike(d, e, i) /\ Agree(d, e, Final(i))
  OBVIOUS
<1>2. \A x \in FileNames : x.id = i => Agree(d, e, x)
  BY <1>1
<1> QED BY <1>2, AgreeAlike

(* The record of a new ID gets its name.                                   *)
LEMMA PublishBased ==
  ASSUME RInv, Publish, DInv'
  PROVE  PendingInv' /\ BaseInv'
<1>1. InCall /\ call # None /\ call.step = "publish"
  BY DEF Publish, At, InCall, RInv
<1>2. PICK id \in Ids, d \in Dirs, e \in Dirs, k \in Journals :
        /\ id = call.new.id /\ k = call.new /\ k.id = id
        /\ d = dir /\ Whole(d) /\ d \in Stored
        /\ e = Renamed(d, Temp(id), Final(id)) /\ e = dir' /\ Whole(e)
        /\ Stored' = Stored \cup {e} /\ log'[1] = log[1]
  <2>1. PICK x : x = Renamed(dir, Temp(call.new.id), Final(call.new.id))
    OBVIOUS
  <2>2. log' = Append(log, x)
    BY <2>1 DEF Publish, ChangeDir
  <2> QED BY <1>1, <2>1, <2>2, Changed
<1>3. PICK S \in SUBSET Dirs, f \in Dirs, p \in Registers, c \in Calls :
        /\ S = Stored /\ f = log[1] /\ p = prev /\ c = call
        /\ Pending(S, f, d, p) /\ Based(c, S, f, d, p)
        /\ \A i \in DOMAIN p : i \in Ids /\ p[i] \in Journals
  BY <1>1, <1>2, RState
<1>4. log = <<d>> /\ call.expected = None /\ HasTemp(d) = {id}
      /\ Final(id) \notin DOMAIN d /\ d[Temp(id)] = k
  BY <1>1, <1>2, PlaceAt, CallTypes DEF CallInv, Before, Settled
<1>5. S = {d} /\ f = d
  BY <1>3, <1>4 DEF Stored
<1>6. Final(id) # Temp(id) /\ Final(id).id = id /\ Temp(id).id = id
  BY NameTypes
<1>7. /\ DOMAIN e = (DOMAIN d \ {Temp(id)}) \cup {Final(id)}
      /\ e[Final(id)] = k /\ Temp(id) \in DOMAIN d
      /\ \A x \in DOMAIN d : x # Temp(id) => e[x] = d[x]
  BY <1>2, <1>4, <1>6 DEF Renamed, HasTemp
<1>8. \A x \in FileNames : x.id # id => Agree(d, e, x)
  BY <1>6, <1>7 DEF Agree
<1>9. \A i \in Ids : i # id => Alike(d, e, i) /\ Agree(d, e, Final(i))
  BY <1>8, OthersAlike
<1>10. id \notin DOMAIN p
  BY <1>3, <1>4, <1>5 DEF Pending
<1>11. Undone({d, e}, d, e, p, id)
  <2>1. ~HoldsDisplaced(e, id)
    BY <1>6, <1>7 DEF HoldsDisplaced, HasTemp
  <2> QED BY <1>4, <1>7, <1>10, <2>1 DEF Undone, PublishLost
<1>12. ASSUME NEW i \in DOMAIN p
       PROVE  Final(i) \in DOMAIN e /\ p[i].events < e[Final(i)].events
  <2>1. Final(i) \in DOMAIN d /\ p[i].events < d[Final(i)].events
    BY <1>3 DEF Pending
  <2> QED BY <1>3, <1>9, <1>10, <2>1 DEF Agree
<1>13. Pending({d, e}, d, e, p)
  BY <1>9, <1>11, <1>12, PendingRenamed
<1>14. Goto("sync_last") /\ prev' = p
  BY <1>3 DEF Publish
<1>15. PICK b \in Calls : /\ b = call' /\ b.step = "sync_last"
                          /\ b.new = c.new /\ b.expected = c.expected
                          /\ b.base = c.base
  BY <1>1, <1>3, <1>14, StepOn DEF Steps
<1>16. Records(e) = With(Records(d), id, k)
  BY <1>7, <1>9, RecordsWith
<1>17. Differ(d, e) \subseteq {id}
  BY <1>9 DEF Differ, Alike
<1>18. id \notin DOMAIN Records(d)
  BY <1>4 DEF Records, Recorded
<1>19. Based(b, {d, e}, d, e, p)
  BY <1>1, <1>2, <1>3, <1>4, <1>5, <1>15, <1>16, <1>17, <1>18
     DEF Based, Preparing, Before
<1>20. Stored' = {d, e}
  BY <1>2, <1>3, <1>5
<1> QED BY <1>2, <1>3, <1>5, <1>13, <1>14, <1>15, <1>19, <1>20, RNext

(* The new state and the record are exchanged.                             *)
LEMMA ExchangeBased ==
  ASSUME RInv, Exchange, DInv'
  PROVE  PendingInv' /\ BaseInv'
<1>1. InCall /\ call # None /\ call.step = "exchange"
  BY DEF Exchange, At, InCall, RInv
<1>2. PICK id \in Ids, d \in Dirs, e \in Dirs, k \in Journals :
        /\ id = call.new.id /\ k = call.new /\ k.id = id
        /\ d = dir /\ Whole(d) /\ d \in Stored
        /\ e = Exchanged(d, Temp(id), Final(id)) /\ e = dir' /\ Whole(e)
        /\ Stored' = Stored \cup {e} /\ log'[1] = log[1]
  <2>1. PICK x : x = Exchanged(dir, Temp(call.new.id), Final(call.new.id))
    OBVIOUS
  <2>2. log' = Append(log, x)
    BY <2>1 DEF Exchange, ChangeDir
  <2> QED BY <1>1, <2>1, <2>2, Changed
<1>3. PICK S \in SUBSET Dirs, f \in Dirs, p \in Registers, c \in Calls :
        /\ S = Stored /\ f = log[1] /\ p = prev /\ c = call
        /\ Pending(S, f, d, p) /\ Based(c, S, f, d, p)
        /\ \A i \in DOMAIN p : i \in Ids /\ p[i] \in Journals
  BY <1>1, <1>2, RState
<1>4. PICK old \in Journals : /\ old = call.expected /\ call.expected # None
                              /\ k.events = old.events + 1
  BY <1>1, <1>2, CallTypes DEF CallInv
<1>5. /\ log = <<d>> /\ HasTemp(d) = {id} /\ d[Temp(id)] = k
      /\ Final(id) \in DOMAIN d /\ d[Final(id)] = old
  BY <1>1, <1>2, <1>4, PlaceAt DEF Before, Settled
<1>6. S = {d} /\ f = d /\ Temp(id) \in DOMAIN d
  BY <1>3, <1>5 DEF Stored, HasTemp
<1>7. Final(id) # Temp(id) /\ Final(id).id = id /\ Temp(id).id = id
  BY NameTypes
<1>8. /\ DOMAIN e = DOMAIN d /\ e[Final(id)] = k /\ e[Temp(id)] = old
      /\ \A x \in DOMAIN d : x # Temp(id) /\ x # Final(id) => e[x] = d[x]
  <2>1. PICK a \in DOMAIN d, b \in DOMAIN d :
          a = Temp(id) /\ b = Final(id) /\ a # b
    BY <1>5, <1>6, <1>7
  <2>2. e = Exchanged(d, a, b)
    BY <1>2, <2>1
  <2>3. /\ DOMAIN e = DOMAIN d /\ e[a] = d[b] /\ e[b] = d[a]
        /\ \A x \in DOMAIN d : x # a /\ x # b => e[x] = d[x]
    BY <2>1, <2>2, ExchangedTypes
  <2> QED BY <1>5, <2>1, <2>3
<1>9. /\ old.events \in Nat /\ k.events \in Nat /\ old # None /\ k # None
  BY JournalTypes
<1>10. \A x \in FileNames : x.id # id => Agree(d, e, x)
  BY <1>7, <1>8 DEF Agree
<1>11. \A i \in Ids : i # id => Alike(d, e, i) /\ Agree(d, e, Final(i))
  BY <1>10, OthersAlike
<1>12. PICK q : q = With(p, id, old)
  OBVIOUS
<1>13. /\ DOMAIN q = DOMAIN p \cup {id} /\ q[id] = old
       /\ \A i \in DOMAIN p : i # id => q[i] = p[i]
  BY <1>12 DEF With
<1>14. Undone({d, e}, d, e, q, id)
  <2>1. ~HoldsDisplaced(d, id)
    BY <1>4, <1>5, <1>9 DEF HoldsDisplaced
  <2>2. HoldsDisplaced(e, id)
    BY <1>4, <1>5, <1>6, <1>8, <1>9 DEF HoldsDisplaced, HasTemp, Recorded
  <2> QED BY <1>5, <1>6, <1>13, <2>1, <2>2 DEF Undone, ExchangeLost
<1>15. ASSUME NEW i \in DOMAIN q
       PROVE  Final(i) \in DOMAIN e /\ q[i].events < e[Final(i)].events
  <2>1. CASE i = id
    BY <1>4, <1>5, <1>8, <1>9, <1>13, <2>1
  <2>2. CASE i # id
    <3>1. /\ i \in DOMAIN p /\ i \in Ids /\ q[i] = p[i]
          /\ Final(i) \in DOMAIN d /\ p[i].events < d[Final(i)].events
      BY <1>3, <1>13, <2>2 DEF Pending
    <3> QED BY <1>11, <2>2, <3>1 DEF Agree
  <2> QED BY <2>1, <2>2
<1>16. Pending({d, e}, d, e, q)
  BY <1>11, <1>14, <1>15, PendingRenamed
<1>17. Goto("sync_exchange") /\ prev' = q
  BY <1>2, <1>3, <1>4, <1>12 DEF Exchange
<1>18. PICK b \in Calls : /\ b = call' /\ b.step = "sync_exchange"
                          /\ b.new = c.new /\ b.expected = c.expected
                          /\ b.base = c.base
  BY <1>1, <1>3, <1>17, StepOn DEF Steps
<1>19. Records(e) = With(Records(d), id, k)
  BY <1>5, <1>8, <1>11, RecordsWith
<1>20. Differ(d, e) \subseteq {id}
  BY <1>11 DEF Differ, Alike
<1>21. id \in DOMAIN Records(d) /\ Records(d)[id] = old
  BY <1>5 DEF Records, Recorded
<1>22. Based(b, {d, e}, d, e, q)
  BY <1>1, <1>2, <1>3, <1>4, <1>6, <1>12, <1>18, <1>19, <1>20, <1>21
     DEF Based, Preparing, Before
<1>23. Stored' = {d, e}
  BY <1>2, <1>3, <1>6
<1> QED BY <1>2, <1>3, <1>6, <1>16, <1>17, <1>18, <1>22, <1>23, RNext

(* The displaced state is archived.                                        *)
LEMMA ArchiveBased ==
  ASSUME RInv, Archive, DInv'
  PROVE  PendingInv' /\ BaseInv'
<1>1. InCall /\ call # None /\ call.step = "archive"
  BY DEF Archive, At, InCall, RInv
<1>2. PICK id \in Ids, d \in Dirs, e \in Dirs, k \in Journals :
        /\ id = call.new.id /\ k = call.new /\ k.id = id
        /\ d = dir /\ Whole(d) /\ d \in Stored
        /\ e = Renamed(d, Temp(id), HistoryName(call.expected))
        /\ e = dir' /\ Whole(e)
        /\ Stored' = Stored \cup {e} /\ log'[1] = log[1]
  <2>1. PICK x : x = Renamed(dir, Temp(call.new.id),
                             HistoryName(call.expected))
    OBVIOUS
  <2>2. log' = Append(log, x)
    BY <2>1 DEF Archive, ChangeDir
  <2> QED BY <1>1, <2>1, <2>2, Changed
<1>3. PICK S \in SUBSET Dirs, f \in Dirs, p \in Registers, c \in Calls :
        /\ S = Stored /\ f = log[1] /\ p = prev /\ c = call
        /\ Pending(S, f, d, p) /\ Based(c, S, f, d, p)
        /\ \A i \in DOMAIN p : i \in Ids /\ p[i] \in Journals
  BY <1>1, <1>2, RState
<1>4. PICK old \in Journals : /\ old = call.expected /\ call.expected # None
                              /\ k.events = old.events + 1 /\ old.id = id
  BY <1>1, <1>2, CallTypes DEF CallInv
<1>5. /\ log = <<d>> /\ HasTemp(d) = {id} /\ d[Temp(id)] = old
      /\ Final(id) \in DOMAIN d /\ d[Final(id)] = k
  BY <1>1, <1>2, <1>4, PlaceAt DEF Before, Settled
<1>6. S = {d} /\ f = d /\ Temp(id) \in DOMAIN d
  BY <1>3, <1>5 DEF Stored, HasTemp
<1>7. Final(id) # Temp(id) /\ Final(id).id = id /\ Temp(id).id = id
  BY NameTypes
<1>8. /\ old.events \in Nat /\ k.events \in Nat /\ old # None /\ k # None
  BY JournalTypes
<1>9. PICK h \in FileNames : /\ h = HistoryName(old) /\ h.id = id
                             /\ h.kind = "history" /\ h \notin DOMAIN d
                             /\ h # Temp(id) /\ h # Final(id)
  BY <1>2, <1>4, JournalTypes, NameTypes DEF Archive
<1>10. /\ DOMAIN e = (DOMAIN d \ {Temp(id)}) \cup {h}
       /\ \A x \in DOMAIN d : x # Temp(id) => e[x] = d[x]
  BY <1>2, <1>4, <1>9 DEF Renamed
<1>11. \A x \in FileNames : x.id # id => Agree(d, e, x)
  BY <1>7, <1>9, <1>10 DEF Agree
<1>12. \A i \in Ids : i # id => Alike(d, e, i) /\ Agree(d, e, Final(i))
  BY <1>11, OthersAlike
<1>13. Final(id) \in DOMAIN e /\ e[Final(id)] = k /\ Agree(d, e, Final(id))
  BY <1>5, <1>7, <1>10 DEF Agree
<1>14. id \in DOMAIN p
  BY <1>1, <1>2, <1>3, <1>4 DEF Based, Before, With
<1>15. Undone({d, e}, d, e, p, id)
  <2>1. HoldsDisplaced(d, id)
    BY <1>4, <1>5, <1>6, <1>8 DEF HoldsDisplaced, HasTemp, Recorded
  <2>2. Temp(id) \notin DOMAIN e
    BY <1>9, <1>10
  <2>3. ~HoldsDisplaced(e, id)
    BY <2>2 DEF HoldsDisplaced, HasTemp
  <2>4. Named(d, id) # Named(e, id)
    <3>1. h \in DOMAIN e /\ ~Agree(d, e, h) /\ h.kind # "temp"
      BY <1>9, <1>10 DEF Agree
    <3> QED BY <1>9, <3>1, NamedTells
  <2> QED BY <1>5, <1>13, <1>14, <2>1, <2>2, <2>3, <2>4
          DEF Undone, ArchiveLost
<1>16. ASSUME NEW i \in DOMAIN p
       PROVE  Final(i) \in DOMAIN e /\ p[i].events < e[Final(i)].events
  <2>1. /\ i \in Ids /\ Final(i) \in DOMAIN d
        /\ p[i].events < d[Final(i)].events
    BY <1>3 DEF Pending
  <2> QED BY <1>12, <1>13, <2>1 DEF Agree
<1>17. Pending({d, e}, d, e, p)
  BY <1>12, <1>15, <1>16, PendingRenamed
<1>18. Goto("sync_last") /\ prev' = p
  BY <1>3 DEF Archive
<1>19. PICK b \in Calls : /\ b = call' /\ b.step = "sync_last"
                          /\ b.new = c.new /\ b.expected = c.expected
                          /\ b.base = c.base
  BY <1>1, <1>3, <1>18, StepOn DEF Steps
<1>20. Records(e) = Records(d)
  BY <1>12, <1>13, AgreeRecords
<1>21. Differ(d, e) \subseteq {id}
  BY <1>12 DEF Differ, Alike
<1>22. Based(b, {d, e}, d, e, p)
  BY <1>1, <1>2, <1>3, <1>4, <1>6, <1>19, <1>20, <1>21
     DEF Based, Preparing, Before
<1>23. Stored' = {d, e}
  BY <1>2, <1>3, <1>6
<1> QED BY <1>2, <1>3, <1>6, <1>17, <1>18, <1>19, <1>22, <1>23, RNext

(* The abstract state between calls.                                       *)
Displaced(d) == {id \in Ids : HoldsDisplaced(d, id)}

ViewOf(S, f, d, p) ==
  [record |-> Records(d), previous |-> p,
   staged |-> HasTemp(d) \ Displaced(d), displaced |-> Displaced(d),
   created |-> {id \in HasTemp(d) \ Displaced(d) :
                  \E x \in S : Temp(id) \notin DOMAIN x},
   unsynced |-> Differ(f, d)]

(* The abstract state between calls is read off the directory, what a      *)
(* crash may leave, and the last displaced states.                         *)
LEMMA ViewIs ==
  /\ View = ViewOf(Stored, log[1], dir, prev)
  /\ View' = ViewOf(Stored', log'[1], dir', prev')
<1>1. \A id \in Ids : TempIsDurable(id)
                        <=> ~ \E x \in Stored : Temp(id) \notin DOMAIN x
  BY DEF TempIsDurable, Stored, HasTemp
<1>2. \A id \in Ids : TempIsDurable(id)'
                        <=> ~ \E x \in Stored' : Temp(id) \notin DOMAIN x
  BY DEF TempIsDurable, Stored, HasTemp
<1>3. \A d : HasTemp(d) \subseteq Ids
  BY DEF HasTemp
<1>4. View = ViewOf(Stored, log[1], dir, prev)
  BY <1>1, <1>3 DEF View, ViewOf, Displaced, Differ
<1>5. View' = ViewOf(Stored', log'[1], dir', prev')
  BY <1>2, <1>3 DEF View, ViewOf, Displaced, Differ
<1> QED BY <1>4, <1>5

(* A directory without staging files.                                      *)
LEMMA NoTempView ==
  ASSUME NEW S, NEW f, NEW d, NEW p, HasTemp(d) = {},
         NEW v, v = ViewOf(S, f, d, p)
  PROVE  /\ v.record = Records(d) /\ v.previous = p
         /\ v.staged = {} /\ v.displaced = {} /\ v.created = {}
         /\ v.unsynced = Differ(f, d)
<1>1. Displaced(d) = {}
  BY DEF Displaced, HoldsDisplaced
<1> QED BY <1>1 DEF ViewOf

(* One that holds the new state, or a part of it, under a temporary name.  *)
LEMMA StagedView ==
  ASSUME NEW S, NEW f, NEW d, NEW p, NEW id \in Ids, HasTemp(d) = {id},
         ~HoldsDisplaced(d, id), NEW v, v = ViewOf(S, f, d, p)
  PROVE  /\ v.record = Records(d) /\ v.previous = p
         /\ v.staged = {id} /\ v.displaced = {}
         /\ (\E x \in S : Temp(id) \notin DOMAIN x) => v.created = {id}
         /\ (\A x \in S : Temp(id) \in DOMAIN x) => v.created = {}
         /\ v.unsynced = Differ(f, d)
<1>1. Displaced(d) = {}
  BY DEF Displaced, HoldsDisplaced
<1> QED BY <1>1 DEF ViewOf

(* One that holds the displaced state under it.                            *)
LEMMA DisplacedView ==
  ASSUME NEW S, NEW f, NEW d, NEW p, NEW id \in Ids, HasTemp(d) = {id},
         HoldsDisplaced(d, id), NEW v, v = ViewOf(S, f, d, p)
  PROVE  /\ v.record = Records(d) /\ v.previous = p
         /\ v.staged = {} /\ v.displaced = {id} /\ v.created = {}
         /\ v.unsynced = Differ(f, d)
<1>1. Displaced(d) = {id}
  BY DEF Displaced, HoldsDisplaced
<1> QED BY <1>1 DEF ViewOf

(* A call begins: DurableStore stays as it is.                             *)
LEMMA NewCallBased ==
  ASSUME RInv, call = None, Readable, UNCHANGED <<log, prev>>,
         NEW k, NEW x,
         call' = [new |-> k, expected |-> x, step |-> "create",
                  base |-> View],
         call' # None
  PROVE  PendingInv' /\ BaseInv' /\ Seen' = Seen
<1>1. PICK v : v = View /\ v = ViewOf(Stored, log[1], dir, prev)
  BY ViewIs
<1>2. PICK S, f, d, p : /\ S = Stored /\ f = log[1] /\ d = dir /\ p = prev
                        /\ Pending(S, f, d, p)
  BY DEF RInv, PendingInv
<1>3. Stored' = S /\ log'[1] = f /\ dir' = d /\ prev' = p
  BY <1>2 DEF Stored, dir
<1>4. PICK c : c = call' /\ c.new = k /\ c.step = "create" /\ c.base = v
               /\ c.expected = x
  BY <1>1
<1>5. /\ v.record = Records(d) /\ v.previous = p
      /\ v.staged = {} /\ v.displaced = {} /\ v.created = {}
      /\ v.unsynced = Differ(f, d)
  <2>1. HasTemp(d) = {} /\ v = ViewOf(S, f, d, p)
    BY <1>1, <1>2 DEF Readable
  <2> QED BY <2>1, NoTempView
<1>6. Based(c, S, f, d, p)
  BY <1>4, <1>5 DEF Based, Preparing, Before
<1>7. PendingInv' /\ BaseInv'
  BY <1>2, <1>3, <1>4, <1>6, RNext
<1>8. Seen = v /\ Seen' = v
  BY <1>1, <1>4 DEF Seen
<1> QED BY <1>7, <1>8

(* A register is set in DurableStore as it is here.                        *)
LEMMA SameWith == \A r, id, j : Abs!With(r, id, j) = With(r, id, j)
BY DEF Abs!With, With

(* The call returns Ok.                                                    *)
LEMMA SyncLastBased ==
  ASSUME RInv, SyncLast, DInv'
  PROVE  PendingInv' /\ BaseInv' /\ AbsNext
<1>1. InCall /\ call # None /\ call.step = "sync_last"
  BY DEF SyncLast, At, InCall, RInv
<1>2. PICK id \in Ids, d \in Dirs, k \in Journals :
        id = call.new.id /\ d = dir /\ k = call.new /\ k.id = id
  BY <1>1, CallTypes
<1>3. PICK S \in SUBSET Dirs, f \in Dirs, p \in Registers, c \in Calls :
        /\ S = Stored /\ f = log[1] /\ p = prev /\ c = call
        /\ Pending(S, f, d, p) /\ Based(c, S, f, d, p)
  BY <1>1, <1>2, RState
<1>4. log' = <<d>> /\ prev' = p /\ call' = None
  BY <1>2, <1>3 DEF SyncLast, Return
<1>5. dir' = d /\ Stored' = {d} /\ log'[1] = d
  BY <1>4, LogSettled
<1>6. PendingInv'
  <2>1. Pending({d}, d, d, p)
    BY <1>3, PendingSettled DEF Pending
  <2> QED BY <1>4, <1>5, <2>1 DEF PendingInv
<1>7. BaseInv'
  BY <1>4 DEF BaseInv
<1>8. PICK u : /\ u = Seen /\ u = c.base
               /\ u.staged = {} /\ u.displaced = {}
               /\ Records(d) = With(u.record, id, k)
               /\ IF c.expected = None
                  THEN id \notin DOMAIN u.record /\ p = u.previous
                  ELSE /\ id \in DOMAIN u.record
                       /\ u.record[id] = c.expected
                       /\ p = With(u.previous, id, c.expected)
  BY <1>1, <1>2, <1>3 DEF Seen, Based, Before
<1>9. PICK v : v = Seen' /\ v = ViewOf({d}, d, d, p)
  BY <1>4, <1>5, ViewIs DEF Seen
<1>10. /\ v.record = Records(d) /\ v.previous = p
       /\ v.staged = {} /\ v.displaced = {} /\ v.created = {}
       /\ v.unsynced = {}
  <2>1. HasTemp(d) = {} /\ Differ(d, d) = {}
    BY <1>1, <1>2, PlaceAt DEF Differ
  <2> QED BY <1>9, <2>1, NoTempView
<1>11. CASE c.expected = None
  <2>1. Abs!NewStored(k)
    BY <1>2, <1>8, <1>9, <1>10, <1>11, SameWith
       DEF Abs!NewStored, Abs!Exists
  <2> QED BY <1>6, <1>7, <2>1 DEF AbsNext
<1>12. CASE c.expected # None
  <2>1. PICK old \in Journals : old = c.expected
    BY <1>1, <1>3, <1>12, CallTypes
  <2>2. Abs!UpdateStored(old, k)
    BY <1>2, <1>8, <1>9, <1>10, <1>12, <2>1, SameWith
       DEF Abs!UpdateStored, Abs!Matches, Abs!Exchange, Abs!Exists
  <2> QED BY <1>6, <1>7, <2>2 DEF AbsNext
<1> QED BY <1>11, <1>12

(* Where a failing call has come to: the store it began with is u, the one *)
(* it leaves is v.                                                         *)
FailedAt(id, k, c, d, f, S, p, u, v) ==
  /\ id = c.new.id /\ k = c.new /\ k.id = id
  /\ u = Seen /\ u = c.base /\ v = Seen' /\ v = ViewOf(S, f, d, p)
  /\ Based(c, S, f, d, p)
  /\ c.step \in Steps
  /\ c.expected \in Journals \cup {None}
  /\ c.step = "publish" => c.expected = None
  /\ c.step \in {"exchange", "sync_exchange", "archive"} =>
       c.expected # None
  /\ HasTemp(d) = IF c.step \in {"create", "sync_last"} THEN {} ELSE {id}
  /\ c.step \in Before =>
       IF c.expected = None
       THEN Final(id) \notin DOMAIN d
       ELSE Final(id) \in DOMAIN d /\ d[Final(id)] = c.expected
  /\ c.step \notin Before => Final(id) \in DOMAIN d /\ d[Final(id)] = k
  /\ c.step = "write" => d[Temp(id)] = None
  /\ c.step \in {"staged", "publish", "exchange"} => d[Temp(id)] = k
  /\ c.step \in {"sync_exchange", "archive"} => d[Temp(id)] = c.expected
  /\ c.step \in Settled => S = {d} /\ f = d
  /\ c.expected # None => k.events = c.expected.events + 1

(* PersistFails ends a call wherever it has come to.                       *)
LEMMA FailedFacts ==
  ASSUME RInv, PersistFails
  PROVE  /\ PendingInv' /\ BaseInv'
         /\ \E id \in Ids, k \in Journals, c \in Calls, d \in Dirs,
               f \in Dirs, S \in SUBSET Dirs, p \in Registers :
            \E u, v :
              FailedAt(id, k, c, d, f, S, p, u, v)
<1>1. InCall /\ call # None
  BY DEF PersistFails, InCall, RInv
<1>2. PICK id \in Ids, d \in Dirs, k \in Journals :
        id = call.new.id /\ d = dir /\ k = call.new /\ k.id = id
  BY <1>1, CallTypes
<1>3. PICK S \in SUBSET Dirs, f \in Dirs, p \in Registers, c \in Calls :
        /\ S = Stored /\ f = log[1] /\ p = prev /\ c = call
        /\ Pending(S, f, d, p) /\ Based(c, S, f, d, p)
  BY <1>1, <1>2, RState
<1>4. call' = None /\ log' = log /\ prev' = p
  BY <1>3 DEF PersistFails, Return
<1>5. dir' = d /\ Stored' = S /\ log'[1] = f
  BY <1>2, <1>3, <1>4 DEF dir, Stored
<1>6. PendingInv' /\ BaseInv'
  BY <1>3, <1>4, <1>5 DEF PendingInv, BaseInv
<1>7. PICK u, v : /\ u = Seen /\ u = c.base /\ v = Seen'
                  /\ v = ViewOf(S, f, d, p)
  BY <1>1, <1>3, <1>4, <1>5, ViewIs DEF Seen
<1>8. /\ c.step = "publish" => c.expected = None
      /\ c.step \in {"exchange", "sync_exchange", "archive"} =>
           c.expected # None
      /\ c.expected # None => k.events = c.expected.events + 1
      /\ c.step \in Steps /\ c.expected \in Journals \cup {None}
  BY <1>1, <1>2, <1>3, CallTypes DEF CallInv
<1>9. /\ HasTemp(d) =
           IF c.step \in {"create", "sync_last"} THEN {} ELSE {id}
      /\ c.step \in Before =>
           IF c.expected = None
           THEN Final(id) \notin DOMAIN d
           ELSE Final(id) \in DOMAIN d /\ d[Final(id)] = c.expected
      /\ c.step \notin Before =>
           Final(id) \in DOMAIN d /\ d[Final(id)] = k
      /\ c.step = "write" => d[Temp(id)] = None
      /\ c.step \in {"staged", "publish", "exchange"} => d[Temp(id)] = k
      /\ c.step \in {"sync_exchange", "archive"} =>
           d[Temp(id)] = c.expected
      /\ c.step \in Settled => log = <<d>>
  BY <1>1, <1>2, <1>3, PlaceAt
<1>10. c.step \in Settled => S = {d} /\ f = d
  BY <1>3, <1>9 DEF Stored
<1>11. FailedAt(id, k, c, d, f, S, p, u, v)
  BY <1>2, <1>3, <1>7, <1>8, <1>9, <1>10 DEF FailedAt
<1> QED BY <1>6, <1>11

(* A failed call leaves what DurableStore says it may.                     *)
LEMMA FailedStep ==
  ASSUME NEW id \in Ids, NEW k \in Journals, NEW c \in Calls, NEW d \in Dirs,
         NEW f \in Dirs, NEW S \in SUBSET Dirs, NEW p \in Registers,
         NEW u, NEW v, FailedAt(id, k, c, d, f, S, p, u, v)
  PROVE  [AbsNext]_(Abs!storeVars)
<1>1. /\ u = Seen /\ v = Seen' /\ k.id = id
      /\ u.staged = {} /\ u.displaced = {} /\ u.created = {}
      /\ v = ViewOf(S, f, d, p)
  BY DEF FailedAt, Based
<1>2. k.events \in Nat /\ k # None
  BY JournalTypes
<1>3. PICK old \in Journals \cup {None} :
        /\ old = c.expected
        /\ old # None => old.events \in Nat /\ k.events = old.events + 1
  BY JournalTypes DEF FailedAt
<1>4. CASE c.step = "create"
  <2>1. HasTemp(d) = {}
    BY <1>4 DEF FailedAt
  <2>2. /\ v.record = Records(d) /\ v.previous = p
        /\ v.staged = {} /\ v.displaced = {} /\ v.created = {}
        /\ v.unsynced = Differ(f, d)
    BY <1>1, <2>1, NoTempView
  <2>3. /\ u.record = Records(d) /\ u.previous = p
        /\ u.unsynced = Differ(f, d)
    BY <1>4 DEF FailedAt, Based, Preparing, Before
  <2> QED BY <1>1, <2>2, <2>3 DEF Abs!storeVars
<1>5. CASE c.step \in {"write", "staged", "publish", "exchange"}
  <2>1. HasTemp(d) = {id}
    BY <1>5 DEF FailedAt
  <2>2. /\ IF old = None
           THEN Final(id) \notin DOMAIN d
           ELSE Final(id) \in DOMAIN d /\ d[Final(id)] = old
        /\ d[Temp(id)] \in {None, k}
    BY <1>3, <1>5 DEF FailedAt, Before
  <2>3. ~HoldsDisplaced(d, id)
    BY <1>2, <1>3, <2>2 DEF HoldsDisplaced, Recorded
  <2>4. /\ v.record = Records(d) /\ v.previous = p
        /\ v.staged = {id} /\ v.displaced = {}
        /\ (\E x \in S : Temp(id) \notin DOMAIN x) => v.created = {id}
        /\ (\A x \in S : Temp(id) \in DOMAIN x) => v.created = {}
        /\ v.unsynced = Differ(f, d)
    BY <1>1, <2>1, <2>3, StagedView
  <2>5. u.record = Records(d) /\ u.previous = p
    <3>1. c.step \in Before
      BY <1>5 DEF Before
    <3>2. u = c.base /\ Based(c, S, f, d, p)
      BY DEF FailedAt
    <3> QED BY <3>1, <3>2 DEF Based
  <2>6. \/ v.created = {id} /\ v.unsynced = u.unsynced
        \/ v.created = {} /\ v.unsynced = {}
    <3>1. CASE c.step \in {"write", "staged"}
      BY <2>4, <3>1 DEF FailedAt, Based, Preparing
    <3>2. CASE c.step \in {"publish", "exchange"}
      <4>1. S = {d} /\ f = d
        BY <3>2 DEF FailedAt, Settled
      <4>2. Temp(id) \in DOMAIN d /\ Differ(d, d) = {}
        BY <2>1 DEF HasTemp, Differ
      <4> QED BY <2>4, <4>1, <4>2
    <3> QED BY <1>5, <3>1, <3>2
  <2>7. Abs!StagingLeft(k)
    BY <1>1, <2>4, <2>5, <2>6 DEF Abs!StagingLeft
  <2>8. CASE old = None
    BY <2>7 DEF AbsNext, Abs!NewFails
  <2>9. CASE old # None
    <3>1. id \in DOMAIN Records(d) /\ Records(d)[id] = old
      BY <2>2, <2>9 DEF Records, Recorded
    <3>2. Abs!Matches(old, k)
      BY <1>1, <2>5, <3>1 DEF Abs!Matches, Abs!Exists
    <3>3. Abs!UpdateFails(old, k) /\ old \in Journals
      BY <2>7, <2>9, <3>2 DEF Abs!UpdateFails
    <3> QED BY <3>3 DEF AbsNext
  <2> QED BY <2>8, <2>9
<1>6. CASE c.step \in {"sync_exchange", "archive"}
  <2>1. HasTemp(d) = {id} /\ old # None
    BY <1>3, <1>6 DEF FailedAt
  <2>2. /\ Final(id) \in DOMAIN d /\ d[Final(id)] = k
        /\ d[Temp(id)] = old
    BY <1>3, <1>6 DEF FailedAt, Before
  <2>3. HoldsDisplaced(d, id)
    BY <1>2, <1>3, <2>1, <2>2 DEF HoldsDisplaced, Recorded
  <2>4. /\ v.record = Records(d) /\ v.previous = p
        /\ v.staged = {} /\ v.displaced = {id} /\ v.created = {}
        /\ v.unsynced = Differ(f, d)
    BY <1>1, <2>1, <2>3, DisplacedView
  <2>5. /\ Records(d) = With(u.record, id, k)
        /\ id \in DOMAIN u.record /\ u.record[id] = old
        /\ p = With(u.previous, id, old)
        /\ Differ(f, d) \subseteq {id}
    BY <1>3, <1>6, <2>1 DEF FailedAt, Based, Before, Preparing
  <2>6. v.unsynced \in {{}, {id}}
    BY <2>4, <2>5
  <2>7. Abs!UpdateDisplaced(old, k)
    BY <1>1, <2>4, <2>5, <2>6, SameWith
       DEF Abs!UpdateDisplaced, Abs!Matches, Abs!Exchange, Abs!Exists
  <2>8. Abs!UpdateFails(old, k) /\ old \in Journals
    BY <2>1, <2>7 DEF Abs!UpdateFails
  <2> QED BY <2>8 DEF AbsNext
<1>7. CASE c.step = "sync_last"
  <2>1. HasTemp(d) = {} /\ Final(id) \in DOMAIN d
    BY <1>7 DEF FailedAt, Before
  <2>2. /\ v.record = Records(d) /\ v.previous = p
        /\ v.staged = {} /\ v.displaced = {} /\ v.created = {}
        /\ v.unsynced = Differ(f, d)
    BY <1>1, <2>1, NoTempView
  <2>3. /\ Records(d) = With(u.record, id, k)
        /\ Differ(f, d) \subseteq {id}
        /\ IF old = None
           THEN /\ id \notin DOMAIN u.record /\ p = u.previous
                /\ Final(id) \notin DOMAIN f
           ELSE /\ id \in DOMAIN u.record /\ u.record[id] = old
                /\ p = With(u.previous, id, old)
    BY <1>3, <1>7 DEF FailedAt, Based, Before, Preparing
  <2>4. CASE old = None
    <3>1. Named(f, id) # Named(d, id)
      <4>1. ~Agree(f, d, Final(id))
        BY <2>1, <2>3, <2>4 DEF Agree
      <4> QED BY <4>1, NamedTells, NameTypes
    <3>2. v.unsynced = {id}
      BY <2>2, <2>3, <3>1 DEF Differ
    <3>3. Abs!NewUnsynced(k)
      BY <1>1, <2>2, <2>3, <2>4, <3>2, SameWith
         DEF Abs!NewUnsynced, Abs!Exists
    <3> QED BY <3>3 DEF AbsNext, Abs!NewFails
  <2>5. CASE old # None
    <3>1. v.unsynced \in {{}, {id}}
      BY <2>2, <2>3
    <3>2. Abs!UpdateArchived(old, k)
      BY <1>1, <2>2, <2>3, <2>5, <3>1, SameWith
         DEF Abs!UpdateArchived, Abs!Matches, Abs!Exchange, Abs!Exists
    <3>3. Abs!UpdateFails(old, k) /\ old \in Journals
      BY <2>5, <3>2 DEF Abs!UpdateFails
    <3> QED BY <3>3 DEF AbsNext
  <2> QED BY <2>4, <2>5
<1> QED BY <1>4, <1>5, <1>6, <1>7 DEF FailedAt, Steps

(* What a crash leaves of an ID when the disk keeps d of the directories   *)
(* in S and e is the one in place: ex, pub and arch are the IDs whose      *)
(* exchange, publication or archiving is undone, gone those whose staging  *)
(* file is.                                                                *)
CrashedAt(S, d, e, p, ex, pub, arch, gone, id) ==
  /\ Final(id) \in DOMAIN d <=> Final(id) \in DOMAIN e /\ id \notin pub
  /\ Final(id) \in DOMAIN d =>
       d[Final(id)] = IF id \in ex THEN p[id] ELSE e[Final(id)]
  /\ id \in DOMAIN p =>
       /\ d[Final(id)] # p[id] <=> id \notin ex
       /\ id \notin ex => /\ Final(id) \in DOMAIN d
                          /\ p[id].events < d[Final(id)].events
  /\ HoldsDisplaced(d, id) <=>
       (HoldsDisplaced(e, id) /\ id \notin ex) \/ id \in arch
  /\ Temp(id) \in DOMAIN d /\ ~HoldsDisplaced(d, id) <=>
       \/ /\ Temp(id) \in DOMAIN e /\ ~HoldsDisplaced(e, id)
          /\ id \notin gone
       \/ id \in ex \/ id \in pub

(* A crash takes back at most the last rename of an ID and the creation of *)
(* its staging file.                                                       *)
LEMMA CrashAt ==
  ASSUME NEW S \in SUBSET Dirs, NEW f, NEW d \in S, NEW e \in Dirs, Whole(e),
         NEW p \in Registers, Pending(S, f, e, p),
         NEW L, L = Differ(d, e),
         NEW ex, ex = L \cap Displaced(e),
         NEW pub, pub = (L \ Displaced(e)) \ DOMAIN p,
         NEW arch, arch = (L \ Displaced(e)) \cap DOMAIN p,
         NEW gone,
         gone = {i \in HasTemp(e) \ Displaced(e) :
                   /\ \E x \in S : Temp(i) \notin DOMAIN x
                   /\ i \notin HasTemp(d) \ Displaced(d)},
         NEW id \in Ids
  PROVE  CrashedAt(S, d, e, p, ex, pub, arch, gone, id)
<1>1. \/ Alike(d, e, id) \/ PublishLost(d, e, p, id)
      \/ ExchangeLost(d, e, p, id)
      \/ /\ ArchiveLost(d, e, p, id)
         /\ \E c \in S : Temp(id) \notin DOMAIN c
  BY DEF Pending, Undone
<1>2. id \in DOMAIN p =>
        /\ Final(id) \in DOMAIN e /\ p[id].events < e[Final(id)].events
        /\ e[Final(id)] # p[id]
  <2>1. ASSUME id \in DOMAIN p
        PROVE  /\ Final(id) \in DOMAIN e
               /\ p[id].events < e[Final(id)].events
               /\ p[id].events \in Nat
    <3>1. p[id] \in Journals
      BY <2>1 DEF Registers
    <3> QED BY <2>1, <3>1, JournalTypes DEF Pending
  <2> QED BY <2>1
<1>3. /\ id \in L <=> Named(d, id) # Named(e, id)
      /\ id \in ex <=> id \in L /\ HoldsDisplaced(e, id)
      /\ id \in pub <=> id \in L /\ ~HoldsDisplaced(e, id)
                                 /\ id \notin DOMAIN p
      /\ id \in arch <=> id \in L /\ ~HoldsDisplaced(e, id)
                                  /\ id \in DOMAIN p
  BY DEF Differ, Displaced
<1>4. id \in gone <=> /\ Temp(id) \in DOMAIN e /\ ~HoldsDisplaced(e, id)
                      /\ \E x \in S : Temp(id) \notin DOMAIN x
                      /\ ~(Temp(id) \in DOMAIN d /\ ~HoldsDisplaced(d, id))
  BY DEF HasTemp, Displaced
<1>5. /\ HoldsDisplaced(d, id) => Temp(id) \in DOMAIN d
                                  /\ Final(id) \in DOMAIN d
      /\ HoldsDisplaced(e, id) => Temp(id) \in DOMAIN e
  BY DEF HoldsDisplaced, HasTemp, Recorded
<1>6. Final(id).kind # "temp" /\ Final(id).id = id
  BY NameTypes
<1>7. CASE Alike(d, e, id)
  <2>1. Agree(d, e, Final(id)) /\ id \notin L
    BY <1>3, <1>7, AlikeTells DEF Alike
  <2> QED BY <1>2, <1>3, <1>4, <1>7, <2>1 DEF CrashedAt, Agree, Alike
<1>8. CASE PublishLost(d, e, p, id)
  <2>1. ~Agree(d, e, Final(id))
    BY <1>8 DEF PublishLost, Agree
  <2>2. id \in L
    BY <1>3, <1>6, <2>1, NamedTells
  <2> QED BY <1>3, <1>5, <1>8, <2>2 DEF CrashedAt, PublishLost
<1>9. CASE ExchangeLost(d, e, p, id)
  <2>1. ~Agree(d, e, Final(id))
    BY <1>2, <1>9 DEF ExchangeLost, Agree
  <2>2. id \in L
    BY <1>3, <1>6, <2>1, NamedTells
  <2> QED BY <1>2, <1>3, <1>9, <2>2 DEF CrashedAt, ExchangeLost
<1>10. CASE /\ ArchiveLost(d, e, p, id)
            /\ \E c \in S : Temp(id) \notin DOMAIN c
  BY <1>2, <1>3, <1>4, <1>5, <1>10 DEF CrashedAt, ArchiveLost
<1> QED BY <1>1, <1>7, <1>8, <1>9, <1>10

(* The host goes down: what is lost is what DurableStore says may be.      *)
LEMMA HostCrashBased ==
  ASSUME RInv, HostCrash
  PROVE  PendingInv' /\ BaseInv' /\ AbsNext
<1>1. PICK S \in SUBSET Dirs, f \in Dirs, p \in Registers, e \in Dirs :
        /\ S = Stored /\ f = log[1] /\ p = prev /\ e = dir /\ Whole(e)
        /\ Pending(S, f, e, p)
  BY LogTypes DEF RInv, DInv, DiskInv, AckInv, PendingInv
<1>2. PICK d, q :
        /\ d \in S /\ log' = <<d>> /\ prev' = q
        /\ q = [id \in {x \in DOMAIN p : d[Final(x)] # p[x]} |-> p[id]]
  <2>1. PICK i \in DOMAIN log :
          /\ log' = <<log[i]>>
          /\ prev' = [id \in {x \in DOMAIN prev :
                                log[i][Final(x)] # prev[x]} |-> prev[id]]
    BY DEF HostCrash
  <2>2. PICK d \in S : d = log[i]
    BY <1>1 DEF Stored
  <2> QED BY <1>1, <2>1, <2>2
<1>3. call = None /\ call' = None
  BY DEF HostCrash
<1>4. dir' = d /\ Stored' = {d} /\ log'[1] = d
  BY <1>2, LogSettled
<1>5. PICK u : u = Seen /\ u = ViewOf(S, f, e, p)
  BY <1>1, <1>3, ViewIs DEF Seen
<1>6. PICK v : v = Seen' /\ v = ViewOf({d}, d, d, q)
  BY <1>2, <1>3, <1>4, ViewIs DEF Seen
<1>7. PICK L, ex, pub, arch, gone :
        /\ L = Differ(d, e)
        /\ ex = L \cap Displaced(e)
        /\ pub = (L \ Displaced(e)) \ DOMAIN p
        /\ arch = (L \ Displaced(e)) \cap DOMAIN p
        /\ gone = {i \in HasTemp(e) \ Displaced(e) :
                     /\ \E x \in S : Temp(i) \notin DOMAIN x
                     /\ i \notin HasTemp(d) \ Displaced(d)}
  OBVIOUS
<1>8. ASSUME NEW id \in Ids
      PROVE  CrashedAt(S, d, e, p, ex, pub, arch, gone, id)
  BY <1>1, <1>2, <1>7, CrashAt
<1>9. DOMAIN p \subseteq Ids /\ L \subseteq Ids
  BY <1>7 DEF Registers, Differ
<1>10. DOMAIN q = DOMAIN p \ ex /\ \A id \in DOMAIN q : q[id] = p[id]
  BY <1>2, <1>8, <1>9 DEF CrashedAt
<1>11. PendingInv'
  <2>1. \A id \in DOMAIN q :
          Final(id) \in DOMAIN d /\ q[id].events < d[Final(id)].events
    BY <1>8, <1>9, <1>10 DEF CrashedAt
  <2>2. Pending({d}, d, d, q)
    BY <2>1, PendingSettled
  <2> QED BY <1>2, <1>4, <2>2 DEF PendingInv
<1>12. BaseInv'
  BY <1>3 DEF BaseInv
<1>13. L \subseteq u.unsynced
  <2>1. CASE d = f
    BY <1>5, <1>7, <2>1 DEF ViewOf
  <2>2. CASE d # f
    <3>1. \A id \in Ids : Alike(d, e, id)
      BY <1>1, <1>2, <2>2 DEF Pending
    <3> QED BY <1>7, <3>1 DEF Differ, Alike
  <2> QED BY <2>1, <2>2
<1>14. gone \subseteq u.created
  BY <1>5, <1>7 DEF ViewOf
<1>15. v.record = [x \in DOMAIN u.record \ pub |->
                     IF x \in ex THEN u.previous[x] ELSE u.record[x]]
  <2>1. /\ u.record = Records(e) /\ u.previous = p /\ v.record = Records(d)
    BY <1>5, <1>6 DEF ViewOf
  <2>2. Recorded(d) = Recorded(e) \ pub
    BY <1>8 DEF CrashedAt, Recorded
  <2>3. DOMAIN Records(e) = Recorded(e)
    BY DEF Records
  <2>4. \A x \in Recorded(d) :
          d[Final(x)] = IF x \in ex THEN p[x] ELSE Records(e)[x]
    BY <1>8, <2>2 DEF CrashedAt, Records, Recorded
  <2> QED BY <2>1, <2>2, <2>3, <2>4 DEF Records
<1>16. v.previous = [x \in DOMAIN u.previous \ ex |-> u.previous[x]]
  <2>1. u.previous = p /\ v.previous = q
    BY <1>5, <1>6 DEF ViewOf
  <2>2. q = [x \in DOMAIN p \ ex |-> p[x]]
    BY <1>2, <1>10
  <2> QED BY <2>1, <2>2
<1>17. v.staged = (u.staged \ gone) \cup ex \cup pub
  <2>1. /\ u.staged = HasTemp(e) \ Displaced(e)
        /\ v.staged = HasTemp(d) \ Displaced(d)
    BY <1>5, <1>6 DEF ViewOf
  <2>2. ASSUME NEW id \in Ids
        PROVE  id \in v.staged <=>
                 id \in (u.staged \ gone) \cup ex \cup pub
    BY <1>8, <2>1 DEF CrashedAt, HasTemp, Displaced
  <2>3. v.staged \subseteq Ids /\ u.staged \subseteq Ids
    BY <2>1 DEF HasTemp
  <2>4. ex \subseteq Ids /\ pub \subseteq Ids
    BY <1>7, <1>9
  <2> QED BY <2>2, <2>3, <2>4
<1>18. v.displaced = (u.displaced \ ex) \cup arch
  <2>1. u.displaced = Displaced(e) /\ v.displaced = Displaced(d)
    BY <1>5, <1>6 DEF ViewOf
  <2>2. ASSUME NEW id \in Ids
        PROVE  id \in v.displaced <=> id \in (u.displaced \ ex) \cup arch
    BY <1>8, <2>1 DEF CrashedAt, Displaced
  <2>3. /\ v.displaced \subseteq Ids /\ u.displaced \subseteq Ids
        /\ arch \subseteq Ids
    BY <1>7, <1>9, <2>1 DEF Displaced
  <2> QED BY <2>2, <2>3
<1>19. v.created = {} /\ v.unsynced = {}
  BY <1>6 DEF ViewOf, HasTemp, Differ
<1>20. /\ ex = L \cap u.displaced
       /\ pub = (L \ u.displaced) \ DOMAIN u.previous
       /\ arch = (L \ u.displaced) \cap DOMAIN u.previous
  BY <1>5, <1>7 DEF ViewOf
<1>21. Abs!LoseUnsynced(gone, L)
  BY <1>5, <1>6, <1>15, <1>16, <1>17, <1>18, <1>19, <1>20
     DEF Abs!LoseUnsynced, Abs!Without
<1>22. Abs!StoreCrash
  BY <1>5, <1>13, <1>14, <1>21 DEF Abs!StoreCrash
<1> QED BY <1>11, <1>12, <1>22 DEF AbsNext

(* Every step maps to one of DurableStore, or leaves it as it is.          *)
LEMMA RStep ==
  ASSUME RInv, [Next]_vars
  PROVE  RInv' /\ [AbsNext]_(Abs!storeVars)
<1>1. DInv'
  BY DiskStep DEF RInv
<1>2. ASSUME PendingInv', BaseInv', Seen' = Seen
      PROVE  RInv' /\ [AbsNext]_(Abs!storeVars)
  BY <1>1, <1>2 DEF RInv, Abs!storeVars
<1>3. ASSUME NEW k \in Journals, PersistNew(k)
      PROVE  RInv' /\ [AbsNext]_(Abs!storeVars)
  <2>1. PICK x : x = None
    OBVIOUS
  <2>2. /\ call = None /\ Readable /\ UNCHANGED <<log, prev>>
        /\ call' = [new |-> k, expected |-> x, step |-> "create",
                    base |-> View]
    BY <1>3, <2>1 DEF PersistNew
  <2>3. call' # None
    <3>1. PICK b \in Views : b = View
      BY ViewTypes DEF RInv
    <3>2. call' \in Calls
      BY <2>1, <2>2, <3>1 DEF Calls
    <3> QED BY <3>2, NoneAssumption
  <2> QED BY <1>2, <2>2, <2>3, NewCallBased
<1>4. ASSUME NEW e \in Journals, NEW k \in Journals, PersistIfMatches(e, k)
      PROVE  RInv' /\ [AbsNext]_(Abs!storeVars)
  <2>1. /\ call = None /\ Readable /\ UNCHANGED <<log, prev>>
        /\ call' = [new |-> k, expected |-> e, step |-> "create",
                    base |-> View]
    BY <1>4 DEF PersistIfMatches
  <2>2. call' # None
    <3>1. PICK b \in Views : b = View
      BY ViewTypes DEF RInv
    <3>2. call' \in Calls
      BY <2>1, <3>1 DEF Calls
    <3> QED BY <3>2, NoneAssumption
  <2> QED BY <1>2, <2>1, <2>2, NewCallBased
<1>5. ASSUME \/ CreateStaging \/ WriteStaging \/ SyncStaging
             \/ Publish \/ Exchange \/ SyncExchange \/ Archive
      PROVE  RInv' /\ [AbsNext]_(Abs!storeVars)
  <2>1. PendingInv' /\ BaseInv'
    BY <1>1, <1>5, CreateStagingBased, WriteStagingBased, SyncBased,
       PublishBased, ExchangeBased, ArchiveBased
  <2>2. PICK s \in Steps : Goto(s)
    BY <1>5 DEF CreateStaging, WriteStaging, SyncStaging, Publish, Exchange,
                SyncExchange, Archive, Steps
  <2>3. InCall
    BY <1>5 DEF CreateStaging, WriteStaging, SyncStaging, Publish, Exchange,
                SyncExchange, Archive, At, InCall, RInv
  <2>4. Seen' = Seen
    BY <2>2, <2>3, StepOn DEF Seen, InCall
  <2> QED BY <1>2, <2>1, <2>4
<1>6. ASSUME PersistFails PROVE RInv' /\ [AbsNext]_(Abs!storeVars)
  <2>1. PendingInv' /\ BaseInv'
    BY <1>6, FailedFacts
  <2>2. [AbsNext]_(Abs!storeVars)
    BY <1>6, FailedFacts, FailedStep
  <2> QED BY <1>1, <2>1, <2>2 DEF RInv
<1>7. ASSUME SyncLast \/ HostCrash
      PROVE  RInv' /\ [AbsNext]_(Abs!storeVars)
  BY <1>1, <1>7, SyncLastBased, HostCrashBased DEF RInv
<1>8. ASSUME Reader \/ UNCHANGED vars
      PROVE  RInv' /\ [AbsNext]_(Abs!storeVars)
  <2>1. UNCHANGED <<log, call, prev>>
    BY <1>8 DEF Reader, StartAll, ReadNames, LoadOne, ReadNamesAgain,
                RestatOne, FinishAll, EndAll, vars
  <2>2. dir' = dir /\ Stored' = Stored /\ log'[1] = log[1]
    BY <2>1 DEF dir, Stored
  <2>3. PendingInv' /\ BaseInv'
    BY <2>1, <2>2 DEF RInv, PendingInv, BaseInv
  <2>4. Seen' = Seen
    BY <2>1, <2>2, ViewIs DEF Seen
  <2> QED BY <1>2, <2>3, <2>4
<1> QED BY <1>3, <1>4, <1>5, <1>6, <1>7, <1>8 DEF Next, Writer

(* The store starts as DurableStore does.                                  *)
LEMMA InitBased ==
  ASSUME Init
  PROVE  RInv /\ Abs!StoreInit
<1>1. PICK d : d = <<>> /\ DOMAIN d = {}
  OBVIOUS
<1>2. log = <<d>> /\ prev = d /\ call = None
  BY <1>1 DEF Init
<1>3. dir = d /\ Stored = {d} /\ log[1] = d
  BY <1>2 DEF dir, Stored
<1>4. PendingInv
  <2>1. Pending({d}, d, d, d)
    BY <1>1, PendingSettled
  <2> QED BY <1>2, <1>3, <2>1 DEF PendingInv
<1>5. BaseInv
  BY <1>2 DEF BaseInv
<1>6. PICK v : v = Seen /\ v = ViewOf({d}, d, d, d)
  BY <1>2, <1>3, ViewIs DEF Seen
<1>7. HasTemp(d) = {} /\ Differ(d, d) = {} /\ Recorded(d) = {}
  BY <1>1 DEF HasTemp, Differ, Recorded
<1>8. Records(d) = <<>>
  BY <1>7 DEF Records
<1>9. /\ v.record = <<>> /\ v.previous = <<>>
      /\ v.staged = {} /\ v.displaced = {} /\ v.created = {}
      /\ v.unsynced = {}
  BY <1>1, <1>6, <1>7, <1>8, NoTempView
<1> QED BY <1>4, <1>5, <1>6, <1>9, InitDisk DEF RInv, Abs!StoreInit

(* ImplementsDurableStore: seen one call at a time, whatever of its steps  *)
(* fails and whatever a crash takes back, the directory is the store a     *)
(* session relies on.                                                      *)
THEOREM ImplementsDurableStoreHolds == Spec => ImplementsDurableStore
<1>1. Init => RInv /\ Abs!StoreInit
  BY InitBased
<1>2. RInv /\ [Next]_vars => RInv' /\ [AbsNext]_(Abs!storeVars)
  BY RStep
<1> QED BY <1>1, <1>2, PTL DEF Spec, ImplementsDurableStore

-----------------------------------------------------------------------------
(* The isolated writer of the staging file (write_staged_file, between     *)
(* CreateStaging and WriteStaging above), for records of every length.     *)

Durable == file = [written |-> Length, synced |-> TRUE]

(* The file has the two fields of a staging file.                          *)
IsFile == file = [written |-> file.written, synced |-> file.synced]

(* The child has not come to a result.                                     *)
Working == child \in {"none", "forked", "poll", "open", "write"}

(* The inductive invariant: nothing is reported before it is done, nothing *)
(* is asked of the child before the file exists, and the parent does not   *)
(* end before the child.                                                   *)
WInv ==
  /\ file # Nil => IsFile
  /\ Working => outcome = Nil /\ report = Nil
  /\ outcome = "done" => Durable
  /\ report = "done" => Durable
  /\ parent \in {"setup", "forked", "send"} =>
       request = Nil /\ ~cancelled /\ ~shut
  /\ parent \in {"setup", "forked"} =>
       /\ child \in {"none", "forked", "poll", "exited"}
       /\ outcome = Nil /\ report = Nil /\ file = Nil
  /\ parent = "setup" => child = "none"
  /\ child \in {"open", "write", "report"} => parent = "wait"
  /\ child = "write" => IsFile
  /\ child = "poll" => parent \in {"forked", "send", "wait"}
  /\ parent \in {"setup", "forked", "send", "wait", "ok", "error", "dead"}
  /\ parent \in {"ok", "error"} => child \in {"none", "exited"}
  /\ parent = "dead" => child \in {"none", "forked", "exited"}
  /\ parent = "ok" => Durable

(* Before the call.                                                        *)
LEMMA InitWInv ==
  ASSUME WriterInit
  PROVE  WInv
  BY WriterAssumption DEF WriterInit, WInv, Working, Durable

(* The steps of the process that persists the journal.                     *)
LEMMA ParentKeepsWInv ==
  ASSUME WInv, ParentStep \/ ParentKilled
  PROVE  WInv'
<1> USE WriterAssumption DEF WInv, Working, parentVars,
            childVars
<1>1. CASE SetupFails \/ Fork
  BY <1>1 DEF SetupFails, Fork, Durable, IsFile
<1>2. CASE CreateFile
  <2>1. file' # Nil => file' = [written |-> 0, synced |-> FALSE]
    BY <1>2 DEF CreateFile
  <2>2. (file # Nil => IsFile)'
    BY <2>1 DEF IsFile
  <2>3. QED
    BY <1>2, <2>2 DEF CreateFile
<1>3. CASE SendRequest \/ SendFails
  BY <1>3 DEF SendRequest, SendFails, Durable, IsFile
<1>4. CASE WaitThenError
  BY <1>4 DEF WaitThenError, Durable, IsFile
<1>7. CASE WaitThenOk
  BY <1>7 DEF WaitThenOk, Durable, IsFile
<1>5. CASE ParentKilled
  BY <1>5 DEF ParentKilled, Durable, IsFile
<1>6. QED
  BY <1>1, <1>2, <1>3, <1>4, <1>5, <1>7 DEF ParentStep

(* The steps of the isolated writer.                                       *)
LEMMA ChildKeepsWInv ==
  ASSUME WInv, ChildStep \/ ChildFails
  PROVE  WInv'
<1> USE WriterAssumption DEF WInv, Working, parentVars,
            childVars, Exit
<1>1. CASE Arm
  BY <1>1 DEF Arm, Durable, IsFile
<1>7. CASE Poll
  BY <1>7 DEF Poll, Durable, IsFile
<1>8. CASE OpenWriter
  BY <1>8 DEF OpenWriter, Durable, IsFile
<1>2. CASE Write
  <2>1. IsFile
    BY <1>2 DEF Write
  <2>2. file' = file \/ file' = [file EXCEPT !.written = @ + 1]
    BY <1>2 DEF Write
  <2>3. IsFile'
    BY <2>1, <2>2 DEF IsFile
  <2>4. QED
    BY <1>2, <2>3 DEF Write
<1>3. CASE Sync
  <2>1. IsFile
    BY <1>3 DEF Sync
  <2>2. IsFile'
    BY <1>3, <2>1 DEF Sync, IsFile
  <2>3. outcome' = "done" => Durable'
    BY <1>3 DEF Sync, Durable
  <2>4. QED
    BY <1>3, <2>2, <2>3 DEF Sync
<1>4. CASE SendReport
  BY <1>4 DEF SendReport, Durable, IsFile
<1>5. CASE ChildFails
  BY <1>5 DEF ChildFails, Durable, IsFile
<1>6. QED
  BY <1>1, <1>2, <1>3, <1>4, <1>5, <1>7, <1>8 DEF ChildStep

(* The invariant of both processes, however their system calls fail and    *)
(* whoever is killed when.                                                 *)
THEOREM WriterInductive ==
  WriterSpec => []WInv
<1>1. WInv /\ [WriterNext]_(writerVars) => WInv'
  <2> SUFFICES ASSUME WInv, [WriterNext]_(writerVars) PROVE WInv'
    OBVIOUS
  <2>1. CASE UNCHANGED writerVars
    BY <2>1 DEF writerVars, parentVars, childVars,
                WInv, Working, Durable, IsFile
  <2>2. QED
    BY <2>1, ParentKeepsWInv, ChildKeepsWInv DEF WriterNext
<1>2. QED
  BY InitWInv, <1>1, PTL DEF WriterSpec

(* write_staged_file returns Ok only for a complete and synced file.       *)
THEOREM OkMeansDurableHolds ==
  WriterSpec => []OkMeansDurable
<1>1. WInv => OkMeansDurable
  BY DEF WInv, Durable, OkMeansDurable
<1>2. QED
  BY <1>1, WriterInductive, PTL

(* No writer is left when write_staged_file has returned, or the process   *)
(* that called it is dead.                                                 *)
THEOREM NoWriterLeftHolds ==
  WriterSpec => []NoWriterLeft
<1>1. WInv => NoWriterLeft
  BY DEF WInv, NoWriterLeft
<1>2. QED
  BY <1>1, WriterInductive, PTL
=============================================================================
