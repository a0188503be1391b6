------------------------------- MODULE Session -------------------------------
(***************************************************************************)
(* What a growth, a creation and a migration have in common: a snapshot,   *)
(* a plan made from it, a consent that is held open, and a machine that    *)
(* others share.  Each stage opens a gate to the next one or ends the run. *)
(***************************************************************************)
EXTENDS OperatorConsent

VARIABLES
  seen,      \* the snapshot the session works from
  plan,      \* the preview
  consent,   \* the file at the consent path
  lease,     \* the file the session holds open
  stage, why

hostVars == <<host, was, meddled>>
sessionVars == <<seen, plan, consent, lease, stage, why>>

Terminal == {"done", "stopped", "recovery", "created", "tail_ready", "refused", "lost",
             "migrated", "kept", "astray"}

\* A gate that refuses ends the run: before the durable start nothing has
\* happened, after it the journal goes to RecoveryRequired.
Ended(end, reason) == stage' = end /\ why' = reason
Advanced(to) == stage' = to /\ UNCHANGED why

\* Gate: on to the next stage, or the end.
Gate(open, to, end, reason) ==
  IF open THEN Advanced(to) ELSE Ended(end, reason)

\* A step that leaves the machine alone.
Looks == UNCHANGED <<host, meddled>> /\ Settled

HostInit == host \in Hosts /\ was = host /\ meddled = 0
SessionInit ==
  /\ seen = None /\ plan = None /\ consent = None /\ lease = None
  /\ stage \in {"idle", "creating", "migrating"} /\ why = None

\* Others change the machine, or the operator's consent.
Interfere ==
  /\ stage \notin Terminal
  /\ \/ Meddle /\ UNCHANGED sessionVars
     \/ /\ lease # None /\ consent # None /\ meddled < MaxInterference
        /\ meddled' = meddled + 1 /\ consent' \in ConsentChanges(consent)
        /\ UNCHANGED <<host, was, seen, plan, lease, stage, why>>
=============================================================================
