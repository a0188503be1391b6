--------------------------- MODULE JournalMachine ---------------------------
(***************************************************************************)
(* One operation journal and every call its callers could make on it,      *)
(* right or wrong: any transition at any time, approvals and execution     *)
(* bindings made for another plan, another target, an earlier state of the *)
(* journal, or altered after they were sealed.  A call the journal rejects *)
(* changes nothing and is not a step.                                      *)
(***************************************************************************)
EXTENDS OperationJournal

CONSTANTS
  JournalId,      \* the ID of this journal
  Plans,          \* plan IDs; the journal's own is one of them
  Identities,     \* target identity digests; the baseline is one of them
  OwnPlan, Baseline,
  StepSequences,  \* mutation step sequences a manifest may freeze
  MaxHistory      \* bound on the length of the history

ASSUME JournalAssumption ==
  /\ OwnPlan \in Plans
  /\ Baseline \in Identities
  /\ StepSequences \subseteq Seq(Nat)
  /\ MaxHistory \in Nat

VARIABLES
  journal,  \* the journal
  history   \* the states it has been in, oldest first

machineVars == <<journal, history>>

(* What the callers may present.                                           *)
StepIds == UNION {{steps[i] : i \in DOMAIN steps} : steps \in StepSequences}

(* None stands for an absent step and an absent identity.                  *)
ASSUME PresentedAssumption == None \notin Identities \cup StepIds

KnownStates == {journal} \cup {history[i] : i \in DOMAIN history}

(* Sealed for any plan, target and known state of the journal.             *)
Approvals ==
  {ExactApprovalBinding(p, "evidence", t, "session", Fingerprint(state)) :
     p \in Plans, t \in Identities, state \in KnownStates}

(* An approval whose evidence was exchanged after it was sealed.           *)
AlteredApprovals == {[a EXCEPT !.evidence = "other"] : a \in Approvals}

Rebound(b) == [b EXCEPT !.id = ExecutionId(b)]

SealedExecutions ==
  UNION {BuildExecutionStart(state, "manifest", t, steps) :
           state \in KnownStates, t \in Identities, steps \in StepSequences}

(* Bindings of another plan, identity or state, sealed correctly, and one  *)
(* altered after it was sealed.                                            *)
Redirected(b, p, t) == Rebound([b EXCEPT !.plan = p, !.identity = t])
Redated(b, state)   == Rebound([b EXCEPT !.approved = Fingerprint(state)])
Altered(b)          == [b EXCEPT !.manifest = "other"]

Executions ==
  SealedExecutions
  \cup {Redirected(b, p, t) :
          b \in SealedExecutions, p \in Plans, t \in Identities}
  \cup {Redated(b, history[1]) : b \in SealedExecutions}
  \cup {Altered(b) : b \in SealedExecutions}

-----------------------------------------------------------------------------
MachineInit ==
  /\ journal = NewJournal(JournalId, OwnPlan, Baseline)
  /\ history = <<>>

Accept(next) ==
  /\ Len(journal.events) < MaxHistory
  /\ next # {}
  /\ journal' \in next
  /\ history' = Append(history, journal)

AcquireLock == Accept(HostLockAcquired(journal))
Revalidate  == \E t \in Identities : Accept(IdentityRevalidated(journal, t))
Verify      == Accept(PreconditionsVerified(journal))
Approve     == \E p \in Plans, a \in Approvals \cup AlteredApprovals :
                 Accept(ExactPlanApproved(journal, p, a))
Start       == \E b \in Executions : Accept(ExecutionStarted(journal, b))
Rediscover  == Accept(VerificationStarted(journal))
Continue    == \E c, n \in StepIds, t \in Identities :
                 Accept(VerificationPassedContinue(journal, c, n, t))
CompleteAll == \E c \in StepIds, t \in Identities :
                 Accept(VerificationPassedComplete(journal, c, t))
CompleteOne == Accept(Completed(journal))
Interrupt   == Accept(Interrupted(journal))
AbortIt     == Accept(Abort(journal))

MachineNext ==
  \/ AcquireLock \/ Revalidate \/ Verify \/ Approve \/ Start \/ Rediscover
  \/ Continue \/ CompleteAll \/ CompleteOne \/ Interrupt \/ AbortIt

MachineSpec == MachineInit /\ [][MachineNext]_machineVars

-----------------------------------------------------------------------------
(* Whatever sequence of calls produced it, the store accepts the journal:  *)
(* it passes the validation of every write and reload (validate_journal),  *)
(* every earlier state is an accepted archive of it, and the last change   *)
(* is one persist_if_matches would store.  A reachable record that its own *)
(* store refused would strand a mutation unrecorded, and one archive that  *)
(* does not fit would make every later all() fail.                         *)
StoreAccepts ==
  /\ ValidJournal(journal)
  /\ \A i \in DOMAIN history : HistoryMatchesFinal(history[i], journal)
  /\ history # <<>> => UpdateExtends(history[Len(history)], journal)

(* resume_disposition proposes a restart from a fresh plan only for a      *)
(* journal that never was past the mutation boundary, by any path.         *)
RestartOnlyBeforeMutation ==
  ResumeDisposition(journal) = "RestartFromFreshPlan" =>
    /\ ~journal.mutated
    /\ \A i \in DOMAIN history : ~history[i].mutated
=============================================================================
