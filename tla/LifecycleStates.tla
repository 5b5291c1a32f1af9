-------------------------- MODULE LifecycleStates --------------------------
(***************************************************************************)
(* The state values persisted by Shipinator and the two state machines     *)
(* over them: pipeline runs (pipeline_run_fsm.go) and the jobs and steps   *)
(* of a run (stage_fsm.go).  "absent" stands for "no such row".            *)
(***************************************************************************)
EXTENDS Naturals

RunStates   == {"pending", "running", "success", "failed", "canceled"}
StageStates == {"pending", "running", "succeeded", "failed"}

(* Phases an executor may report (executor.go).                            *)
Phases == {"pending", "running", "succeeded", "failed", "canceled"}

pipelineRunTransitions ==
  [s \in RunStates |->
     CASE s = "pending" -> {"running", "failed", "canceled"}
       [] s = "running" -> {"success", "failed", "canceled"}
       [] OTHER         -> {}]

stageTransitions ==
  [s \in StageStates |->
     CASE s = "pending" -> {"running"}
       [] s = "running" -> {"succeeded", "failed"}
       [] OTHER         -> {}]

RunTerminal(s)   == s \in {"success", "failed", "canceled"}
StageTerminal(s) == s \in {"succeeded", "failed"}

\* Slip: only success ends an execution.
PhaseSucceeded(s) == s = "succeeded"

PhaseTerminal(s) == s \in {"succeeded", "failed", "canceled"}

(* ValidateTransition: staying put is always allowed, otherwise the target *)
(* must be listed.  A state outside the machine has no transitions.        *)
RunTransitionOK(cur, target) ==
  \/ cur = target
  \/ cur \in RunStates /\ target \in pipelineRunTransitions[cur]

StageTransitionOK(cur, target) ==
  \/ cur = target
  \/ cur \in StageStates /\ target \in stageTransitions[cur]
=============================================================================
