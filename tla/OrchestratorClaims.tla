------------------------- MODULE OrchestratorClaims -------------------------
(***************************************************************************)
(* A statement of the repository about a call of Orchestrator.Run that the *)
(* code does not keep.                                                     *)
(***************************************************************************)
EXTENDS OrchestratorProperties

(* A step row in a terminal state has finished_at.  states.go:3-5: the     *)
(* literals are in one place and "can never silently diverge";             *)
(* job_step_test.go:106-120 expects FinishedAt of a step that succeeded.   *)
(* The store knows "success", the orchestrator writes "succeeded".         *)
TerminalStepsHaveFinishedAt ==
  \A s \in Steps : StageTerminal(stepRow[s].status) => stepRow[s].finished
=============================================================================
