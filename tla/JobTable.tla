------------------------------- MODULE JobTable -------------------------------
(***************************************************************************)
(* The "jobs" table as every writer sees it: the job_status enumeration    *)
(* and the BEFORE UPDATE trigger that rejects an illegal status change     *)
(* (sql/010, redeclared by sql/017).  The lease library, the repository    *)
(* used by the production worker and the owner's controls all write        *)
(* through this trigger, so their modules share these definitions.         *)
(***************************************************************************)

\* job_status; "absent" stands for a job whose row has not been inserted yet.
Statuses == {"absent", "queued", "leased", "running", "succeeded", "failed",
             "dead_letter", "owner_cancelled"}

HeldStatuses == {"leased", "running"}

\* A mutant of SuccessorsOf: a cancelled job may be requeued like a failed one.
SuccessorsOfReopening ==
  [queued          |-> {"leased", "owner_cancelled"},
   leased          |-> {"queued", "running", "failed", "dead_letter", "owner_cancelled"},
   running         |-> {"succeeded", "failed", "dead_letter", "leased", "queued",
                        "owner_cancelled"},
   failed          |-> {"queued", "dead_letter"},
   succeeded       |-> {},
   dead_letter     |-> {"queued"},
   owner_cancelled |-> {"queued"}]

\* What enforce_job_status_transition lets a status be updated to.
SuccessorsOf ==
  [queued          |-> {"leased", "owner_cancelled"},
   leased          |-> {"queued", "running", "failed", "dead_letter", "owner_cancelled"},
   running         |-> {"succeeded", "failed", "dead_letter", "leased", "queued",
                        "owner_cancelled"},
   failed          |-> {"queued", "dead_letter"},
   succeeded       |-> {},
   dead_letter     |-> {"queued"},
   owner_cancelled |-> {}]

MayMove(from, to) == from = to \/ to \in SuccessorsOf[from]
=============================================================================
