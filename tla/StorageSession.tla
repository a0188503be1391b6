--------------------------- MODULE StorageSession ---------------------------
(***************************************************************************)
(* A host and one session on it: a growth, a creation or a swap migration. *)
(* The host storage lock keeps sessions of this program apart, not those   *)
(* of others.                                                              *)
(***************************************************************************)
EXTENDS GrowSession, CreateSession, SwapSession

createVars == <<activation>>
swapVars == <<migration>>

Init == HostInit /\ SessionInit /\ GrowInit /\ CreateInit /\ MigrateInit

Next ==
  \/ Grow /\ UNCHANGED <<createVars, swapVars>>
  \/ Create /\ UNCHANGED <<growVars, swapVars>>
  \/ Migrate /\ UNCHANGED <<growVars, createVars>>
  \/ Interfere /\ UNCHANGED <<growVars, createVars, swapVars>>

Spec == Init /\ [][Next]_<<hostVars, sessionVars, growVars, createVars, swapVars>>

(* What the planner says about a disk is arithmetic about sectors, and it is *)
(* right to the sector: the ranges offered for something new, and the gain   *)
(* of a layout that does not exist yet.                                      *)
GeometryExact == SourcesExact /\ OpportunityHonest

(* Whatever others did to the host meanwhile, what a session reports at its  *)
(* end is true of the machine: a volume of the approved size with its        *)
(* filesystem, one partition at the frozen sectors, a swapfile in place of a *)
(* partition.  A preflight answers for one machine, not for parts of two.    *)
OutcomesHeld == CompletedAsPlanned /\ AllocationHeld /\ MigrationHeld
=============================================================================
