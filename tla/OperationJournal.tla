-------------------------- MODULE OperationJournal --------------------------
(***************************************************************************)
(* The operation journal of lsm_planner (execution_guard.rs) and the       *)
(* validation a durable record passes whenever it is read or written       *)
(* (lsm_executor, journal_store.rs).  The two were written apart: the      *)
(* planner appends events and bindings as an operation advances, the store *)
(* reconstructs earlier states of a record from its last one and refuses   *)
(* it when a binding does not fit.                                         *)
(*                                                                         *)
(* Result<(), JournalError> is a set: a transition returns the singleton   *)
(* of the new journal, and {} where the code returns an error and leaves   *)
(* the journal alone.                                                      *)
(***************************************************************************)
EXTENDS Option, Naturals, Sequences, FiniteSets

CONSTANT
  Fingerprint(_)   \* SHA-256 of the serialized value

Phases == {"Planned", "HostLockHeld", "IdentityRevalidated",
           "PreconditionsVerified", "Approved", "Executing", "Verifying",
           "Completed", "Aborted", "RecoveryRequired"}
TerminalPhases == {"Completed", "Aborted", "RecoveryRequired"}
(* Phases at or after the boundary where a storage tool may have run.      *)
MutationPhases == {"Executing", "Verifying", "Completed", "RecoveryRequired"}

-----------------------------------------------------------------------------
(* Bindings.  "id" is the fingerprint each binding carries of itself.      *)

ApprovalId(a) ==
  Fingerprint(<<a.plan, a.evidence, a.target, a.session, a.preconditions>>)

ExactApprovalBinding(plan, evidence, target, session, preconditions) ==
  LET a == [plan |-> plan, evidence |-> evidence, target |-> target,
            session |-> session, preconditions |-> preconditions]
  IN  [plan |-> plan, evidence |-> evidence, target |-> target,
       session |-> session, preconditions |-> preconditions,
       id |-> ApprovalId(a)]

ExecutionId(b) ==
  Fingerprint(<<b.journal, b.plan, b.approval, b.manifest, b.identity,
                b.steps, b.approved>>)

ExecutionStartBinding(journal, plan, approval, manifest, identity, steps, approved) ==
  LET b == [journal |-> journal, plan |-> plan, approval |-> approval,
            manifest |-> manifest, identity |-> identity, steps |-> steps,
            approved |-> approved]
  IN  [journal |-> journal, plan |-> plan, approval |-> approval,
       manifest |-> manifest, identity |-> identity, steps |-> steps,
       approved |-> approved, id |-> ExecutionId(b)]

(* A boundary of schema 1 has no final step; schema 2 adds it.             *)
BoundaryId(b) ==
  Fingerprint(IF b.schema = 1
              THEN <<b.execution, b.completed, b.next, b.identity>>
              ELSE <<b.execution, b.completed, b.next, b.identity,
                     b.final, b.finalIdentity>>)

VerifiedBoundary(execution, completed, next, identity) ==
  LET b == [schema |-> 1, execution |-> execution, completed |-> completed,
            next |-> next, identity |-> identity,
            final |-> None, finalIdentity |-> None, id |-> None]
  IN  [b EXCEPT !.id = BoundaryId(b)]

(* Nonempty, without the step 0 and without repetition.                    *)
MutationSteps(steps) ==
  /\ steps # <<>>
  /\ \A i \in DOMAIN steps : steps[i] # 0
  /\ \A i, j \in DOMAIN steps : steps[i] = steps[j] => i = j

AdjacentSteps(steps, completed, next) ==
  \E i \in 1..(Len(steps) - 1) : steps[i] = completed /\ steps[i + 1] = next

-----------------------------------------------------------------------------
(* The state machine: OperationJournal::new and OperationJournal::apply.   *)

NewJournal(id, plan, baseline) ==
  [id |-> id, plan |-> plan, baseline |-> baseline, phase |-> "Planned",
   mutated |-> FALSE, approval |-> None, execution |-> None,
   boundary |-> None, events |-> <<>>]

IsTerminal(j) == j.phase \in TerminalPhases

(* push_event together with the assignment of the phase.                   *)
Advance(j, to, code) ==
  [j EXCEPT !.phase = to,
            !.events = Append(@, [from |-> j.phase, to |-> to, code |-> code])]

Ok(accepted, next) == IF accepted THEN {next} ELSE {}

HostLockAcquired(j) ==
  Ok(j.phase = "Planned", Advance(j, "HostLockHeld", "host-lock-acquired"))

IdentityRevalidated(j, fresh) ==
  Ok(j.phase = "HostLockHeld" /\ fresh = j.baseline,
     Advance(j, "IdentityRevalidated", "identity-revalidated"))

PreconditionsVerified(j) ==
  Ok(j.phase = "IdentityRevalidated",
     Advance(j, "PreconditionsVerified", "preconditions-verified"))

(* The approval names this plan and this target, and the fingerprint of    *)
(* the journal as it stands before the approval is recorded.               *)
ExactPlanApproved(j, plan, a) ==
  Ok(/\ j.phase = "PreconditionsVerified"
     /\ plan = j.plan
     /\ a.plan = j.plan
     /\ a.target = j.baseline
     /\ a.id = ApprovalId(a)
     /\ a.preconditions = Fingerprint(j),
     [Advance(j, "Approved", "exact-plan-approved") EXCEPT !.approval = a])

(* build_execution_start_binding: Err is {}.                               *)
BuildExecutionStart(j, manifest, fresh, steps) ==
  IF /\ j.phase = "Approved" /\ ~j.mutated
     /\ j.execution = None /\ j.boundary = None /\ j.approval # None
     /\ fresh = j.baseline
     /\ MutationSteps(steps)
  THEN {ExecutionStartBinding(j.id, j.plan, j.approval.id, manifest, fresh,
                              steps, Fingerprint(j))}
  ELSE {}

ExecutionStarted(j, b) ==
  Ok(/\ j.phase = "Approved"
     /\ j.approval # None
     /\ b.journal = j.id
     /\ b.plan = j.plan
     /\ b.approval = j.approval.id
     /\ b.identity = j.baseline
     /\ b.id = ExecutionId(b)
     /\ b.approved = Fingerprint(j),
     [Advance(j, "Executing", "execution-started")
        EXCEPT !.mutated = TRUE, !.execution = b])

VerificationStarted(j) ==
  Ok(j.phase = "Executing",
     Advance(j, "Verifying", "verification-started"))

(* The pair must be adjacent in the frozen steps.  That it continues from  *)
(* the previous boundary is left to the callers.                           *)
VerificationPassedContinue(j, completed, next, fresh) ==
  Ok(/\ j.phase = "Verifying"
     /\ j.execution # None
     /\ completed # 0 /\ next # 0 /\ completed # next
     /\ AdjacentSteps(j.execution.steps, completed, next),
     [Advance(j, "Executing", "verification-passed-continue")
        EXCEPT !.boundary = VerifiedBoundary(j.execution.id, completed,
                                             next, fresh)])

VerificationPassedComplete(j, completed, fresh) ==
  LET final == [j.boundary EXCEPT !.schema = 2, !.final = completed,
                                  !.finalIdentity = fresh]
  IN  Ok(/\ j.phase = "Verifying"
         /\ j.execution # None
         /\ Len(j.execution.steps) >= 2
         /\ j.execution.steps[Len(j.execution.steps)] = completed
         /\ j.boundary # None
         /\ j.boundary.execution = j.execution.id
         /\ j.boundary.next = completed
         /\ j.boundary.id = BoundaryId(j.boundary),
         [Advance(j, "Completed", "verification-passed-complete")
            EXCEPT !.boundary = [final EXCEPT !.id = BoundaryId(final)]])

Completed(j) ==
  Ok(/\ j.phase = "Verifying"
     /\ j.execution # None
     /\ Len(j.execution.steps) <= 1,
     Advance(j, "Completed", "completed"))

(* Faulty form: an interrupted operation counts as never started.          *)
InterruptedAsUnstarted(j) ==
  Ok(~IsTerminal(j),
     [Advance(j, "Aborted", "interrupted-before-mutation")
        EXCEPT !.mutated = FALSE])

Interrupted(j) ==
  Ok(~IsTerminal(j),
     IF j.mutated \/ j.phase \in {"Executing", "Verifying"}
     THEN Advance(j, "RecoveryRequired", "interrupted-after-mutation-boundary")
     ELSE Advance(j, "Aborted", "interrupted-before-mutation"))

(* Faulty forms: an abort that ignores the mutation boundary, and one that *)
(* withdraws the approval.                                                 *)
AbortAlways(j) == Ok(~IsTerminal(j), Advance(j, "Aborted", "aborted"))

AbortWithdrawing(j) ==
  Ok(~IsTerminal(j),
     [(IF j.mutated
       THEN Advance(j, "RecoveryRequired", "abort-after-mutation-boundary")
       ELSE Advance(j, "Aborted", "aborted")) EXCEPT !.approval = None])

Abort(j) ==
  Ok(~IsTerminal(j),
     IF j.mutated
     THEN Advance(j, "RecoveryRequired", "abort-after-mutation-boundary")
     ELSE Advance(j, "Aborted", "aborted"))

ResumeDisposition(j) ==
  CASE j.phase = "Completed" -> "Complete"
    [] j.phase \in {"Executing", "Verifying", "RecoveryRequired"} ->
         "RecoveryRequired"
    [] OTHER -> "RestartFromFreshPlan"

-----------------------------------------------------------------------------
(* What the store accepts: validate_journal and the three binding          *)
(* validators, applied to every record it loads or is asked to write.      *)

PreMutationPhases ==
  {"Planned", "HostLockHeld", "IdentityRevalidated", "PreconditionsVerified",
   "Approved"}

AllowedTransitions ==
  {<<"Planned", "HostLockHeld">>, <<"HostLockHeld", "IdentityRevalidated">>,
   <<"IdentityRevalidated", "PreconditionsVerified">>,
   <<"PreconditionsVerified", "Approved">>, <<"Approved", "Executing">>,
   <<"Executing", "Verifying">>, <<"Verifying", "Executing">>,
   <<"Verifying", "Completed">>, <<"Executing", "RecoveryRequired">>,
   <<"Verifying", "RecoveryRequired">>}
  \cup (PreMutationPhases \X {"Aborted"})

PhaseBefore(events, i) == IF i = 1 THEN "Planned" ELSE events[i - 1].to

EventChainValid(j) ==
  /\ \A i \in DOMAIN j.events :
       /\ j.events[i].from = PhaseBefore(j.events, i)
       /\ <<j.events[i].from, j.events[i].to>> \in AllowedTransitions
  /\ j.phase = PhaseBefore(j.events, Len(j.events) + 1)

(* Positions of the events from one phase to another; position() in the    *)
(* code takes the first.                                                   *)
EventsFromTo(j, from, to) ==
  {i \in DOMAIN j.events : j.events[i].from = from /\ j.events[i].to = to}

First(positions) == CHOOSE i \in positions : \A k \in positions : i <= k

HasEvent(j, code) == \E i \in DOMAIN j.events : j.events[i].code = code

(* The journal as it was before its event at position i.                   *)
StateBefore(j, i, phase, approval) ==
  [j EXCEPT !.phase = phase, !.mutated = FALSE, !.approval = approval,
            !.execution = None, !.boundary = None,
            !.events = SubSeq(@, 1, i - 1)]

ApprovalBindingValid(j) ==
  LET approvals == EventsFromTo(j, "PreconditionsVerified", "Approved")
  IN  IF j.approval = None THEN approvals = {}
      ELSE /\ approvals # {}
           /\ j.approval.plan = j.plan
           /\ j.approval.target = j.baseline
           /\ j.approval.id = ApprovalId(j.approval)
           /\ j.approval.preconditions =
                Fingerprint(StateBefore(j, First(approvals),
                                        "PreconditionsVerified", None))

ExecutionBindingValid(j) ==
  LET starts == EventsFromTo(j, "Approved", "Executing")
  IN  IF j.execution = None THEN starts = {}
      ELSE /\ starts # {}
           /\ MutationSteps(j.execution.steps)
           /\ j.execution.journal = j.id
           /\ j.execution.plan = j.plan
           /\ j.approval # None
           /\ j.execution.approval = j.approval.id
           /\ j.execution.identity = j.baseline
           /\ j.execution.id = ExecutionId(j.execution)
           /\ j.execution.approved =
                Fingerprint(StateBefore(j, First(starts), "Approved",
                                        j.approval))

FinalBindingValid(j) ==
  LET b == j.boundary
      terminal == HasEvent(j, "verification-passed-complete")
      steps == j.execution.steps
  IN  \/ /\ b.final = None /\ b.finalIdentity = None
         /\ b.schema = 1
         /\ ~terminal
         /\ ~(j.phase = "Completed" /\ Len(steps) > 1)
      \/ /\ b.final # None /\ b.finalIdentity # None
         /\ b.schema = 2
         /\ terminal
         /\ j.phase = "Completed"
         /\ steps[Len(steps)] = b.final
         /\ b.next = b.final

BoundaryBindingValid(j) ==
  LET b == j.boundary
  IN  IF b = None THEN ~HasEvent(j, "verification-passed-continue")
      ELSE /\ HasEvent(j, "verification-passed-continue")
           /\ b.completed # 0 /\ b.next # 0 /\ b.completed # b.next
           /\ j.execution # None
           /\ b.execution = j.execution.id
           /\ AdjacentSteps(j.execution.steps, b.completed, b.next)
           /\ b.id = BoundaryId(b)
           /\ FinalBindingValid(j)
           /\ j.phase \in MutationPhases

ValidJournal(j) ==
  /\ EventChainValid(j)
  /\ j.mutated = (j.phase \in MutationPhases)
  /\ ApprovalBindingValid(j)
  /\ ExecutionBindingValid(j)
  /\ BoundaryBindingValid(j)

(* history_matches_final: an archived state must be an earlier state of    *)
(* the current record.                                                     *)
EventsExtend(short, long) ==
  Len(short) < Len(long) /\ SubSeq(long, 1, Len(short)) = short

HistoryMatchesFinal(history, final) ==
  /\ history.id = final.id
  /\ history.plan = final.plan
  /\ history.baseline = final.baseline
  /\ history.approval \in {None, final.approval}
  /\ history.execution \in {None, final.execution}
  /\ EventsExtend(history.events, final.events)

(* The test persist_if_matches makes before it touches the directory.      *)
UpdateExtends(expected, journal) ==
  /\ ValidJournal(expected)
  /\ ValidJournal(journal)
  /\ expected.id = journal.id
  /\ expected.plan = journal.plan
  /\ expected.baseline = journal.baseline
  /\ EventsExtend(expected.events, journal.events)
=============================================================================
