----------------------------- MODULE StatusRows -----------------------------
(***************************************************************************)
(* The status columns of the tables pipeline_runs, jobs, job_steps and     *)
(* executions, and what the Postgres stores write to them.  A timestamp is *)
(* modelled by whether it is set.  An absent row is a row with status      *)
(* "absent".                                                               *)
(***************************************************************************)
EXTENDS LifecycleStates

NoRow      == [status |-> "absent", started |-> FALSE, finished |-> FALSE]
NoExecRow  == [status |-> "absent", completed |-> FALSE]

(* INSERT: ensureID and setDefaultStatus give a fresh id and "pending".    *)
NewRow     == [status |-> "pending", started |-> FALSE, finished |-> FALSE]
NewExecRow == [status |-> "pending", completed |-> FALSE]

(* startedFinishedForStatus and completedAtForStatus: which timestamp a    *)
(* status sets.                                                            *)
SetsStarted(status)  == status = "running"
SetsFinished(status) == status \in {"success", "failed", "canceled"}

\* Slip: both timestamp columns are overwritten, also with NULL.
OverwriteStatus(row, status) ==
  IF row.status = "absent" THEN row
  ELSE [row EXCEPT !.status   = status,
                   !.started  = SetsStarted(status),
                   !.finished = SetsFinished(status)]

(* UPDATE ... SET status = $1, ..._at = COALESCE($2, ..._at) WHERE id.  No *)
(* row matches an absent id; nothing compares the old status to the new.   *)
UpdateStatus(row, status) ==
  IF row.status = "absent" THEN row
  ELSE [row EXCEPT !.status   = status,
                   !.started  = @ \/ SetsStarted(status),
                   !.finished = @ \/ SetsFinished(status)]

UpdateExecution(row, status) ==
  IF row.status = "absent" THEN row
  ELSE [row EXCEPT !.status = status, !.completed = @ \/ SetsFinished(status)]
=============================================================================
