----------------------- MODULE OrchestratorRefinement -----------------------
(***************************************************************************)
(* A call of Orchestrator.Run implements GatedExecution.                   *)
(***************************************************************************)
EXTENDS OrchestratorInvariant

(* What has become of a step's command, told from its Job: a pod that has  *)
(* exited keeps its result when the object is deleted.                     *)
Outcome(job) ==
  CASE job.pod = "none"    -> "waiting"
    [] job.pod = "exited0" -> "passed"
    [] job.pod = "exited1" -> "failed"
    [] OTHER               -> IF job.deleted THEN "killed" ELSE "running"

(* The result of the run is what its row says once it is terminal.         *)
Verdict(row) == IF RunTerminal(row.status) THEN row.status ELSE "open"

Gated == INSTANCE GatedExecution WITH
           Tasks  <- Steps,
           Order  <- {p \in Steps \X Steps : Before(p[1], p[2])},
           task   <- [s \in Steps |-> Outcome(kjob[s])],
           result <- Verdict(runRow)

(* Every command is begun at most once, in the order of the configuration  *)
(* and never after the run has been closed; the run's row gets one         *)
(* terminal status and keeps it.  This is what runs, rows, goroutines and  *)
(* polling together implement.                                             *)
GatedSpec == Gated!Spec

(* The run is open for as long as Run is at work.                          *)
OpenInv == ~Stopped => ~RunTerminal(runRow.status)
=============================================================================
