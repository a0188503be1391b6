---------------------------- MODULE StagedWriter ----------------------------
(***************************************************************************)
(* JournalDir::write_staged_file (journal_fd.rs): a staging file is created *)
(* by the process that persists a journal and written by a child it forks, *)
(* which holds the only writable descriptor.  The two talk over a socket   *)
(* pair: the parent sends the identity of the file it created, the child   *)
(* reports when it has written and synced it.  A shared flag cancels the   *)
(* child when the request cannot be sent.  Every system call may fail, and *)
(* either process may be killed between any two steps.                     *)
(***************************************************************************)
EXTENDS Naturals

CONSTANTS
  Nil,     \* no message, no file, no result
  Length   \* number of write calls the record takes

ASSUME WriterAssumption ==
  /\ Length \in Nat \ {0}
  /\ Nil \notin {"done", "error", "identity"}

VARIABLES
  parent,     \* "setup", "forked", "send", "wait", "ok", "error", "dead"
  failed,     \* local_error or send_error
  request,    \* message to the child: Nil, "identity" or "error"
  shut,       \* the parent's side is shut down for writing
  cancelled,  \* the shared flag
  child,      \* "none", "forked", "poll", "open", "write", "report", "exited"
  status,     \* exit status of the child, or Killed
  report,     \* message to the parent: Nil, "done" or "error"
  outcome,    \* what the child is about to report
  file        \* the staging file, or Nil

parentVars == <<parent, failed, request, shut, cancelled>>
childVars  == <<child, status, report, outcome>>
writerVars == <<parentVars, childVars, file>>

Killed == 137   \* by a signal: WIFEXITED is false

WriterInit ==
  /\ parent = "setup" /\ failed = FALSE /\ request = Nil
  /\ shut = FALSE /\ cancelled = FALSE
  /\ child = "none" /\ status = Nil /\ report = Nil /\ outcome = Nil
  /\ file = Nil

-----------------------------------------------------------------------------
(* The parent.                                                             *)

(* SIGCHLD disposition, shared mapping, socket pair, signal mask, fork.    *)
SetupFails ==
  /\ parent = "setup"
  /\ parent' = "error"
  /\ UNCHANGED <<failed, request, shut, cancelled, childVars, file>>

Fork ==
  /\ parent = "setup"
  /\ parent' = "forked" /\ child' = "forked"
  /\ UNCHANGED <<failed, request, shut, cancelled, status, report, outcome,
                 file>>

(* O_CREAT | O_EXCL; the signal mask, the creation or fstat may fail.      *)
CreateFile ==
  /\ parent = "forked"
  /\ parent' = "send"
  /\ \/ file' = [written |-> 0, synced |-> FALSE] /\ failed' \in BOOLEAN
     \/ UNCHANGED file /\ failed' = TRUE
  /\ UNCHANGED <<request, shut, cancelled, childVars>>

SendRequest ==
  /\ parent = "send"
  /\ parent' = "wait"
  /\ request' = IF failed THEN "error" ELSE "identity"
  /\ UNCHANGED <<failed, shut, cancelled, childVars, file>>

(* The flag first; the shutdown after it may be denied.                    *)
SendFails ==
  /\ parent = "send"
  /\ parent' = "wait"
  /\ failed' = TRUE /\ cancelled' = TRUE /\ shut' \in BOOLEAN
  /\ UNCHANGED <<request, childVars, file>>

(* Faulty form: an error of the request is returned without waiting.       *)
WaitUnlessFailed ==
  /\ parent = "wait" /\ (child = "exited" \/ failed)
  /\ parent' = "error"
  /\ UNCHANGED <<failed, request, shut, cancelled, childVars, file>>

(* waitpid, then any check fails: our own error, the status, the report,   *)
(* the identity of the file.                                               *)
WaitThenError ==
  /\ parent = "wait" /\ child = "exited"
  /\ parent' = "error"
  /\ UNCHANGED <<failed, request, shut, cancelled, childVars, file>>

WaitThenOk ==
  /\ parent = "wait" /\ child = "exited"
  /\ ~failed
  /\ status = 0 /\ report = "done"
  /\ file # Nil
  /\ parent' = "ok"
  /\ UNCHANGED <<failed, request, shut, cancelled, childVars, file>>

ParentKilled ==
  /\ parent \notin {"ok", "error", "dead"}
  /\ parent' = "dead"
  /\ IF child \in {"none", "forked", "exited"}
     THEN UNCHANGED <<child, status>>
     ELSE child' = "exited" /\ status' = Killed
  /\ UNCHANGED <<failed, request, shut, cancelled, report, outcome, file>>

-----------------------------------------------------------------------------
(* The child.                                                              *)

Exit(s) == child' = "exited" /\ status' = s

(* prctl(PR_SET_PDEATHSIG), and the parent may have died before it.        *)
Arm ==
  /\ child = "forked"
  /\ \/ parent # "dead" /\ child' = "poll" /\ UNCHANGED status
     \/ Exit(75)
  /\ UNCHANGED <<parentVars, report, outcome, file>>

(* Faulty form: the loop waits for the request alone.                      *)
PollRequestOnly ==
  /\ child = "poll"
  /\ request # Nil \/ shut
  /\ IF request = "identity"
     THEN child' = "open" /\ UNCHANGED status
     ELSE Exit(76)
  /\ UNCHANGED <<parentVars, report, outcome, file>>

(* Every second the loop looks at the flag again; an end of file is a      *)
(* message of length zero.                                                 *)
Poll ==
  /\ child = "poll"
  /\ cancelled \/ request # Nil \/ shut
  /\ IF ~cancelled /\ request = "identity"
     THEN child' = "open" /\ UNCHANGED status
     ELSE Exit(IF cancelled THEN 77 ELSE 76)
  /\ UNCHANGED <<parentVars, report, outcome, file>>

(* open_verified_writer: the file of the request, or nothing.              *)
OpenWriter ==
  /\ child = "open"
  /\ \/ file # Nil /\ child' = "write" /\ UNCHANGED outcome
     \/ child' = "report" /\ outcome' = "error"
  /\ UNCHANGED <<parentVars, status, report, file>>

Write ==
  /\ child = "write" /\ file.written < Length
  /\ \/ file' = [file EXCEPT !.written = @ + 1] /\ UNCHANGED <<child, outcome>>
     \/ child' = "report" /\ outcome' = "error" /\ UNCHANGED file
  /\ UNCHANGED <<parentVars, status, report>>

(* Faulty form: the file is reported as done without an fsync.             *)
SyncNothing ==
  /\ child = "write" /\ file.written = Length
  /\ outcome' = "done"
  /\ child' = "report"
  /\ UNCHANGED <<parentVars, status, report, file>>

Sync ==
  /\ child = "write" /\ file.written = Length
  /\ \/ file' = [written |-> Length, synced |-> TRUE]
        /\ outcome' \in {"done", "error"}
     \/ UNCHANGED file /\ outcome' = "error"
  /\ child' = "report"
  /\ UNCHANGED <<parentVars, status, report>>

SendReport ==
  /\ child = "report"
  /\ \/ report' = outcome /\ Exit(IF outcome = "done" THEN 0 ELSE 2)
     \/ UNCHANGED report /\ Exit(1)
  /\ UNCHANGED <<parentVars, outcome, file>>

ChildFails ==
  /\ child \in {"poll", "open", "write", "report"}
  /\ \/ child = "poll" /\ Exit(78)
     \/ child # "poll" /\ Exit(Killed)
  /\ UNCHANGED <<parentVars, report, outcome, file>>

-----------------------------------------------------------------------------
ParentStep == \/ SetupFails \/ Fork \/ CreateFile \/ SendRequest \/ SendFails
              \/ WaitThenError \/ WaitThenOk
ChildStep == Arm \/ Poll \/ OpenWriter \/ Write \/ Sync \/ SendReport

WriterNext == ParentStep \/ ChildStep \/ ParentKilled \/ ChildFails

(* Both processes are scheduled; nobody need be killed.                    *)
WriterSpec ==
  /\ WriterInit /\ [][WriterNext]_writerVars
  /\ WF_writerVars(ParentStep) /\ WF_writerVars(ChildStep)

-----------------------------------------------------------------------------
(* The record of a staging file that may be published is complete and on   *)
(* disk: Ok is never returned for a partial or an unsynced file.           *)
OkMeansDurable ==
  parent = "ok" => file = [written |-> Length, synced |-> TRUE]

(* Once the call has returned, or the process that made it is dead, no     *)
(* writer is left that could still change the file under a name that was   *)
(* published or kept as evidence.                                          *)
NoWriterLeft ==
  parent \in {"ok", "error", "dead"} => child \in {"none", "forked", "exited"}

(* The call returns although the request could not be sent and even the    *)
(* shutdown of the socket was denied: waitpid never waits for a child that *)
(* nobody will wake.                                                       *)
CallReturns == (parent = "setup") ~> (parent \in {"ok", "error", "dead"})
=============================================================================
