---------------------- MODULE OrchestratorRowInvariant ----------------------
(***************************************************************************)
(* What the rows hold at each point of the control of Run and of a step:   *)
(* the inductive invariant behind RowTimes, StepRowTruth,                  *)
(* OrphansAreExplained and StatusesFollowFsm.                              *)
(***************************************************************************)
EXTENDS OrchestratorInvariant

RunningRow == [status |-> "running", started |-> TRUE, finished |-> FALSE]

(* A row that has left "pending" keeps started_at, and one with            *)
(* finished_at is terminal.                                                *)
TimesOK(row, terminal) ==
  /\ row.status \notin {"absent", "pending"} => row.started
  /\ row.finished => terminal

(* The run's row follows Run from StartRun to Finalize.                    *)
RunRowInv ==
  /\ pc = "start" => runRow = NewRow
  /\ pc \notin {"start", "returned", "crashed"} => runRow = RunningRow
  /\ pc = "finalize" => verdict \in {"success", "failed", "canceled"}
  /\ TimesOK(runRow, RunTerminal(runRow.status))

(* The row of a stage's job follows runStage.                              *)
JobRowInv ==
  \A st \in Stages :
    /\ st > stage \/ (st = stage /\ pc = "createJob") => jobRow[st] = NoRow
    /\ st = stage /\ pc = "startJob" => jobRow[st] = NewRow
    /\ st = stage /\ InStage => jobRow[st] = RunningRow
    /\ TimesOK(jobRow[st], StageTerminal(jobRow[st].status))

(* A step's row follows runStep.                                           *)
StepRowPart(s) ==
  /\ stepPc[s] \in {"idle", "create"} => stepRow[s] = NoStepRow
  /\ stepPc[s] = "start" => stepRow[s].status = "pending" /\ ~stepRow[s].finished
  /\ stepPc[s] \in {"submit", "record", "poll", "report", "finish"} =>
       stepRow[s].status = "running" /\ stepRow[s].started /\ ~stepRow[s].finished
  /\ TimesOK(stepRow[s], StageTerminal(stepRow[s].status))

(* The row of its execution follows executeAndPoll and poll.               *)
ExecRowPart(s) ==
  /\ stepPc[s] \in {"idle", "create", "start", "submit", "record"} => execRow[s] = NoExecRow
  /\ stepPc[s] \in {"poll", "report"} => execRow[s].status # "absent"
  /\ stepPc[s] = "report" => phase[s] \in {"pending", "running", "succeeded", "failed"}

(* What the two rows say of the command.                                   *)
TruthPart(s) ==
  /\ "succeeded" \in {stepRow[s].status, execRow[s].status} => Passed(s)
  /\ Undisturbed =>
       /\ stepPc[s] = "report" /\ phase[s] = "failed" => kjob[s].pod = "exited1"
       /\ "failed" \in {stepRow[s].status, execRow[s].status} => kjob[s].pod = "exited1"
       /\ stepPc[s] = "finish" => execRow[s].status = IF stepErr[s] THEN "failed" ELSE "succeeded"
       /\ StageTerminal(stepRow[s].status) => execRow[s].status = stepRow[s].status

(* Whoever stops watching a Job knows that it is over, or has an excuse.   *)
WatchPart(s) ==
  /\ kjob[s].posted => kjob[s].pod \in {"exited0", "exited1"}
  /\ stepPc[s] = "report" /\ PhaseTerminal(phase[s]) => ~Live(kjob[s])
  /\ Live(kjob[s]) =>
       \/ stepPc[s] \in {"record", "poll", "report"}
       \/ faults > 0
       \/ ctxDone /\ execRow[s].status \in {"absent", "pending"}

StepPart(s) == StepRowPart(s) /\ ExecRowPart(s) /\ TruthPart(s) /\ WatchPart(s)

RowInv ==
  /\ RunRowInv
  /\ JobRowInv
  /\ \A s \in Steps : StepPart(s)
=============================================================================
