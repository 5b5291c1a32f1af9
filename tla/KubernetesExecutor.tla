------------------------- MODULE KubernetesExecutor -------------------------
(***************************************************************************)
(* The Kubernetes Job behind one execution, and the three calls of the     *)
(* executor on it.  A Job object is a record:                              *)
(*   pod      what its one pod does: BackoffLimit is 0 and RestartPolicy   *)
(*            is Never, so there is one pod and it runs once; "waiting" is *)
(*            a Job whose pod the controller has not created yet           *)
(*   posted   the Job controller has posted the Complete or the Failed     *)
(*            condition; it does so some time after the pod has exited     *)
(*   deleted  the object has been deleted                                  *)
(***************************************************************************)
EXTENDS LifecycleStates

Pods == {"none", "waiting", "active", "exited0", "exited1"}
Jobs == [pod : Pods, posted : BOOLEAN, deleted : BOOLEAN]

NoJob == [pod |-> "none", posted |-> FALSE, deleted |-> FALSE]

(* Submit creates the Job; no producer of specs sets Timeout, so it has no *)
(* activeDeadlineSeconds and nothing bounds how long the pod runs.         *)
SubmittedJob == [pod |-> "waiting", posted |-> FALSE, deleted |-> FALSE]

(* Cancel deletes the Job; deleting it again changes nothing.              *)
CancelJob(job) == [job EXCEPT !.deleted = TRUE]

(* Status can read the Job.                                                *)
Readable(job) == job.pod # "none" /\ ~job.deleted

(* The pod may still do work.                                              *)
Live(job) == Readable(job) /\ job.pod \in {"waiting", "active"}

\* Slip: a Job without a Complete condition counts as failed.
FailedUnlessComplete(job) ==
  IF job.pod = "active" THEN "running"
  ELSE IF job.posted /\ job.pod = "exited0" THEN "succeeded"
  ELSE "failed"

(* jobToStatus: active pods first, then the condition, otherwise pending.  *)
jobToStatus(job) ==
  IF job.pod = "active" THEN "running"
  ELSE IF ~job.posted THEN "pending"
  ELSE IF job.pod = "exited0" THEN "succeeded"
  ELSE "failed"

(* What the cluster may do next to a Job, on its own.                      *)
ClusterMoves(job) ==
  IF ~Readable(job) THEN {}
  ELSE CASE job.pod = "waiting" -> {[job EXCEPT !.pod = "active"]}
         [] job.pod = "active"  -> {[job EXCEPT !.pod = p] : p \in {"exited0", "exited1"}}
         [] OTHER -> IF job.posted THEN {} ELSE {[job EXCEPT !.posted = TRUE]}
=============================================================================
