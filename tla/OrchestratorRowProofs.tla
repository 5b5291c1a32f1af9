------------------------ MODULE OrchestratorRowProofs -----------------------
(***************************************************************************)
(* Theorems about the rows one call of Orchestrator.Run leaves in the      *)
(* database, about the Jobs it leaves in the cluster, and about what a run *)
(* leaves behind when it returns: the deployed artifact, the groups of the *)
(* steps and how what Run returns agrees with the rows.  For every         *)
(* configuration and every bound on the failures.                          *)
(***************************************************************************)
EXTENDS OrchestratorResultInvariant, OrchestratorProofs

-----------------------------------------------------------------------------
(* The operators the actions are built from.                               *)

(* UpdateStatus of a row that is there: the status is written, a time is   *)
(* set and none is lost.                                                   *)
LEMMA UpdateEffect ==
  ASSUME NEW row \in RunRow \cup Rows \cup StepRow, row.status # "absent", NEW st
  PROVE  /\ UpdateStatus(row, st).status = st
         /\ UpdateStatus(row, st).started = (row.started \/ SetsStarted(st))
         /\ UpdateStatus(row, st).finished = (row.finished \/ SetsFinished(st))
<1>1. CASE row \in RunRow
  BY <1>1 DEF UpdateStatus, RunRow
<1>2. CASE row \in Rows
  BY <1>2 DEF UpdateStatus, Rows
<1>3. CASE row \in StepRow
  BY <1>3 DEF UpdateStatus, StepRow
<1> QED
  BY <1>1, <1>2, <1>3

(* The row of an execution takes any status.                               *)
LEMMA ExecutionEffect ==
  ASSUME NEW row \in ExecRow, row.status # "absent", NEW p
  PROVE  UpdateExecution(row, p).status = p
  BY DEF UpdateExecution, ExecRow

(* A row that is started is the running row.                               *)
LEMMA StartedRow ==
  UpdateStatus(NewRow, "running") = RunningRow
  BY DEF UpdateStatus, NewRow, RunningRow, SetsStarted, SetsFinished

(* A call that returned nil took effect, and one that did not had a        *)
(* failure, or a context that is done.                                     *)
LEMMA CallFact ==
  ASSUME TypeOK, NEW ctxBound \in BOOLEAN, NEW ok \in BOOLEAN, NEW done \in BOOLEAN,
         Call(ctxBound, ok, done)
  PROVE  /\ ok => done
         /\ faults \in Nat /\ faults' \in Nat /\ faults' >= faults
         /\ ~ok => faults' > 0 \/ (ctxBound /\ ctxDone)
  BY DEF Call, Fault, TypeOK

-----------------------------------------------------------------------------
(* The parts of a step.                                                    *)

(* Time does nothing to a step: its rows, its Job and its goroutine stay.  *)
Untouched(t) ==
  /\ stepRow'[t] = stepRow[t] /\ execRow'[t] = execRow[t] /\ kjob'[t] = kjob[t]
  /\ stepPc'[t] = stepPc[t] /\ stepErr'[t] = stepErr[t] /\ phase'[t] = phase[t]

(* Failures and the cancellation are never taken back.                     *)
Onward ==
  /\ faults \in Nat /\ faults' \in Nat /\ faults' >= faults
  /\ ctxDone \in BOOLEAN /\ ctxDone' \in BOOLEAN /\ (ctxDone => ctxDone')

(* What is said of a step stays true when a step of the system leaves it   *)
(* alone: failures and the end of the context only excuse more.            *)
LEMMA UntouchedKeeps ==
  ASSUME NEW t \in Steps, StepPart(t), Untouched(t), Onward
  PROVE  StepPart(t)'
<1> USE DEF Untouched
<1>1. StepRowPart(t)' /\ ExecRowPart(t)'
  BY DEF StepPart, StepRowPart, ExecRowPart, TimesOK
<1>2. Undisturbed' => Undisturbed
  BY DEF Undisturbed, Onward
<1>3. TruthPart(t)'
  BY <1>2 DEF StepPart, TruthPart, Passed
<1>4. faults > 0 => faults' > 0
  BY DEF Onward
<1>5. WatchPart(t)'
  BY <1>4 DEF StepPart, WatchPart, Onward
<1> QED
  BY <1>1, <1>3, <1>5 DEF StepPart

(* The goroutine of a step touches nothing of Run, and of other steps.     *)
LEMMA StepFrame ==
  ASSUME TypeOK, NEW s \in Steps, StepGoroutine(s)
  PROVE  /\ UNCHANGED <<mainVars, runRow, jobRow>>
         /\ Onward
         /\ \A t \in Steps : t # s => Untouched(t)
<1> USE DEF mainVars, dbVars, stepVars, vars
<1>1. UNCHANGED <<mainVars, runRow, jobRow, ctxDone>>
  BY DEF StepGoroutine, CreateStep, StartStep, StartStepOr, Submit, SubmitOr, RecordExecution, PollDone,
         StopPolling, PollRetry, PollTick, Report, FinishStep, FinishStepAs
<1>2. Onward
  <2>1. faults' = faults \/ \E ctxBound, ok, done \in BOOLEAN : Call(ctxBound, ok, done)
    BY DEF StepGoroutine, CreateStep, StartStep, StartStepOr, Submit, SubmitOr, RecordExecution,
           PollDone, StopPolling, PollRetry, PollTick, Report, FinishStep, FinishStepAs
  <2> QED
    BY <1>1, <2>1, CallFact DEF Onward, TypeOK
<1>3. \A t \in Steps : t # s => Untouched(t)
  <2> USE DEF Untouched, TypeOK
  <2>1. CASE CreateStep(s) \/ StartStep(s) \/ FinishStep(s)
    BY <2>1 DEF CreateStep, StartStep, StartStepOr, FinishStep, FinishStepAs
  <2>2. CASE Submit(s) \/ PollDone(s)
    BY <2>2 DEF Submit, SubmitOr, PollDone, StopPolling
  <2>3. CASE RecordExecution(s) \/ Report(s)
    BY <2>3 DEF RecordExecution, Report
  <2>4. CASE PollRetry(s) \/ PollTick(s)
    BY <2>4 DEF PollRetry, PollTick
  <2> QED
    BY <2>1, <2>2, <2>3, <2>4 DEF StepGoroutine
<1> QED
  BY <1>1, <1>2, <1>3

(* What the calls of one goroutine do to its own step.                     *)
LEMMA GoroutineKeeps ==
  ASSUME Inv, Inv', NEW s \in Steps, StepPart(s), StepGoroutine(s)
  PROVE  StepPart(s)'
<1> USE DEF mainVars, dbVars, stepVars
<1>0. TypeOK /\ StepInv /\ TypeOK' /\ StepInv'
  BY DEF Inv, OwnInv
<1>1. /\ stepRow[s] \in StepRow /\ execRow[s] \in ExecRow /\ kjob[s] \in Jobs
      /\ stepPc[s] \in {"idle", "create", "start", "submit", "record", "poll", "report",
                        "finish", "done", "dead"}
      /\ stepErr[s] \in BOOLEAN /\ phase[s] \in Phases
      /\ faults \in Nat /\ ctxDone \in BOOLEAN
  BY <1>0 DEF TypeOK, StepRow, ExecRow
<1>2. Onward
  BY <1>0, StepFrame
<1>3. Undisturbed' => Undisturbed
  BY <1>2 DEF Undisturbed, Onward
<1>4. CASE CreateStep(s)
  <2>1. PICK ok \in BOOLEAN, done \in BOOLEAN :
          /\ Call(TRUE, ok, done)
          /\ stepRow' = IF done THEN [stepRow EXCEPT ![s] = NewStepRow(BatchGroup)] ELSE stepRow
          /\ stepPc' = [stepPc EXCEPT ![s] = IF ok THEN "start" ELSE "done"]
    BY <1>4 DEF CreateStep
  <2>2. stepRow'[s] = (IF done THEN NewStepRow(BatchGroup) ELSE NoStepRow)
    BY <1>0, <1>4, <2>1 DEF CreateStep, TypeOK, StepPart, StepRowPart
  <2>3. stepPc'[s] = (IF ok THEN "start" ELSE "done") /\ (ok => done)
    BY <1>0, <2>1, CallFact DEF TypeOK
  <2>4. execRow' = execRow /\ kjob' = kjob /\ execRow[s] = NoExecRow /\ kjob[s] = NoJob
    BY <1>0, <1>4 DEF CreateStep, StepPart, ExecRowPart, StepInv
  <2>5. StepRowPart(s)' /\ ExecRowPart(s)'
    BY <2>2, <2>3, <2>4 DEF StepRowPart, ExecRowPart, TimesOK, NewStepRow, NoStepRow
  <2>6. TruthPart(s)' /\ WatchPart(s)'
    BY <2>2, <2>3, <2>4 DEF TruthPart, WatchPart, NewStepRow, NoStepRow, NoExecRow, NoJob,
                            Live, Readable, StageTerminal
  <2> QED  BY <2>5, <2>6 DEF StepPart
<1>5. CASE StartStep(s)
  <2>1. PICK ok \in BOOLEAN, done \in BOOLEAN :
          /\ Call(TRUE, ok, done)
          /\ stepRow' = IF done THEN [stepRow EXCEPT ![s] = UpdateStatus(@, "running")]
                        ELSE stepRow
          /\ stepPc' = [stepPc EXCEPT ![s] = IF ok THEN "submit" ELSE "done"]
    BY <1>5 DEF StartStep, StartStepOr
  <2>2. stepPc[s] = "start" /\ stepRow[s].status = "pending" /\ ~stepRow[s].finished
    BY <1>5 DEF StartStep, StartStepOr, StepPart, StepRowPart
  <2>3. IF done THEN stepRow'[s].status = "running" /\ stepRow'[s].started /\ ~stepRow'[s].finished
        ELSE stepRow'[s] = stepRow[s]
    <3>1. stepRow'[s] = IF done THEN UpdateStatus(stepRow[s], "running") ELSE stepRow[s]
      BY <1>0, <2>1 DEF TypeOK
    <3>2. stepRow[s] \in RunRow \cup Rows \cup StepRow /\ stepRow[s].status # "absent"
      BY <1>1, <2>2
    <3>3. /\ UpdateStatus(stepRow[s], "running").status = "running"
          /\ UpdateStatus(stepRow[s], "running").started
          /\ ~UpdateStatus(stepRow[s], "running").finished
      BY <2>2, <3>2, UpdateEffect DEF SetsStarted, SetsFinished
    <3> QED  BY <3>1, <3>3
  <2>4. stepPc'[s] = (IF ok THEN "submit" ELSE "done") /\ (ok => done)
    BY <1>0, <2>1, CallFact DEF TypeOK
  <2>5. execRow' = execRow /\ kjob' = kjob /\ execRow[s] = NoExecRow /\ kjob[s] = NoJob
    BY <1>0, <1>5, <2>2 DEF StartStep, StartStepOr, StepPart, ExecRowPart, StepInv
  <2>6. StepRowPart(s)' /\ ExecRowPart(s)'
    BY <2>2, <2>3, <2>4, <2>5 DEF StepRowPart, ExecRowPart, TimesOK
  <2>7. TruthPart(s)' /\ WatchPart(s)'
    BY <2>2, <2>3, <2>4, <2>5 DEF TruthPart, WatchPart, NoExecRow, NoJob, Live, Readable,
                                  StageTerminal
  <2> QED  BY <2>6, <2>7 DEF StepPart
<1>6. CASE Submit(s)
  <2>1. PICK ok \in BOOLEAN, done \in BOOLEAN :
          /\ Call(TRUE, ok, done)
          /\ stepPc' = [stepPc EXCEPT ![s] = IF ok THEN "record" ELSE "finish"]
    BY <1>6 DEF Submit, SubmitOr
  <2>2. stepPc[s] = "submit" /\ stepRow' = stepRow /\ execRow' = execRow /\ ctxDone' = ctxDone
    BY <1>6 DEF Submit, SubmitOr
  <2>3. /\ execRow[s] = NoExecRow
        /\ stepRow[s].status = "running" /\ stepRow[s].started /\ ~stepRow[s].finished
    BY <2>2 DEF StepPart, ExecRowPart, StepRowPart
  <2>4. /\ stepPc'[s] = (IF ok THEN "record" ELSE "finish")
        /\ ~ok => faults' > 0 \/ ctxDone
    BY <1>0, <2>1, CallFact DEF TypeOK
  <2>5. StepRowPart(s)' /\ ExecRowPart(s)'
    BY <2>2, <2>3, <2>4 DEF StepRowPart, ExecRowPart, TimesOK
  <2>6. TruthPart(s)' /\ WatchPart(s)'
    <3>1. kjob'[s] \in {NoJob, SubmittedJob}
      BY <1>0, <1>6 DEF Submit, SubmitOr, StepInv, TypeOK
    <3> QED
      BY <2>2, <2>3, <2>4, <1>2, <3>1 DEF TruthPart, WatchPart, NoExecRow, StageTerminal,
            Undisturbed, Onward, NoJob, SubmittedJob
  <2> QED  BY <2>5, <2>6 DEF StepPart
<1>7. CASE RecordExecution(s)
  <2>1. PICK ok \in BOOLEAN, done \in BOOLEAN :
          /\ Call(TRUE, ok, done)
          /\ execRow' = IF done THEN [execRow EXCEPT ![s] = NewExecRow] ELSE execRow
          /\ stepPc' = [stepPc EXCEPT ![s] = IF ok THEN "poll" ELSE "finish"]
    BY <1>7 DEF RecordExecution
  <2>2. /\ stepPc[s] = "record" /\ stepRow' = stepRow /\ kjob' = kjob
        /\ ctxDone' = ctxDone
    BY <1>7 DEF RecordExecution
  <2>3. /\ execRow[s] = NoExecRow
        /\ stepRow[s].status = "running" /\ stepRow[s].started /\ ~stepRow[s].finished
    BY <2>2 DEF StepPart, ExecRowPart, StepRowPart
  <2>4. execRow'[s] = IF done THEN NewExecRow ELSE NoExecRow
    BY <1>0, <2>1, <2>3 DEF TypeOK
  <2>5. /\ stepPc'[s] = (IF ok THEN "poll" ELSE "finish") /\ (ok => done)
        /\ ~ok => faults' > 0 \/ ctxDone
    BY <1>0, <2>1, CallFact DEF TypeOK
  <2>6. StepRowPart(s)' /\ ExecRowPart(s)'
    BY <2>2, <2>3, <2>4, <2>5 DEF StepRowPart, ExecRowPart, TimesOK, NewExecRow
  <2>7. TruthPart(s)' /\ WatchPart(s)'
    BY <2>2, <2>3, <2>4, <2>5, <1>2 DEF StepPart, TruthPart, WatchPart, NewExecRow, NoExecRow,
                                        StageTerminal, Undisturbed, Onward
  <2> QED  BY <2>6, <2>7 DEF StepPart
<1>8. CASE PollDone(s)
  <2>1. PICK ok \in BOOLEAN, done \in BOOLEAN :
          /\ Call(FALSE, ok, done)
          /\ kjob' = IF done THEN [kjob EXCEPT ![s] = CancelJob(@)] ELSE kjob
    BY <1>8 DEF PollDone, StopPolling
  <2>2. /\ stepPc[s] = "poll" /\ ctxDone /\ ctxDone' = ctxDone
        /\ stepRow' = stepRow /\ execRow' = execRow /\ stepPc'[s] = "finish"
    BY <1>0, <1>8 DEF PollDone, StopPolling, TypeOK
  <2>3. done \/ faults' > 0
    BY <1>0, <2>1, CallFact
  <2>4. /\ kjob'[s] = IF done THEN CancelJob(kjob[s]) ELSE kjob[s]
        /\ CancelJob(kjob[s]).pod = kjob[s].pod /\ CancelJob(kjob[s]).deleted
        /\ CancelJob(kjob[s]).posted = kjob[s].posted
    BY <1>0, <1>1, <2>1 DEF TypeOK, CancelJob, Jobs
  <2>5. StepRowPart(s)' /\ ExecRowPart(s)'
    BY <2>2 DEF StepPart, StepRowPart, ExecRowPart, TimesOK
  <2>6. TruthPart(s)'
    BY <2>2, <2>4 DEF StepPart, TruthPart, Passed, Undisturbed
  <2>7. WatchPart(s)'
    BY <2>2, <2>3, <2>4 DEF StepPart, WatchPart, Live, Readable
  <2> QED  BY <2>5, <2>6, <2>7 DEF StepPart
<1>9. CASE PollRetry(s)
  BY <1>2, <1>9, UntouchedKeeps DEF PollRetry, vars, Untouched
<1>10. CASE PollTick(s)
  <2>1. /\ stepPc[s] = "poll" /\ stepPc'[s] = "report"
        /\ phase'[s] = jobToStatus(kjob[s])
        /\ stepRow' = stepRow /\ execRow' = execRow /\ kjob' = kjob
        /\ faults' = faults /\ ctxDone' = ctxDone
    BY <1>0, <1>10 DEF PollTick, TypeOK
  <2>2. kjob[s].posted => kjob[s].pod \in {"exited0", "exited1"}
    BY DEF StepPart, WatchPart
  <2>3. /\ phase'[s] \in {"pending", "running", "succeeded", "failed"}
        /\ phase'[s] \in {"succeeded", "failed"} => ~Live(kjob[s])
        /\ phase'[s] = "failed" => kjob[s].pod = "exited1"
    BY <2>1, <2>2 DEF jobToStatus, Live
  <2>4. StepRowPart(s)' /\ ExecRowPart(s)'
    BY <2>1, <2>3 DEF StepPart, StepRowPart, ExecRowPart, TimesOK
  <2>5. TruthPart(s)'
    BY <2>1, <2>3 DEF StepPart, TruthPart, Passed, Undisturbed
  <2>6. WatchPart(s)'
    BY <2>1, <2>3 DEF StepPart, WatchPart, PhaseTerminal
  <2> QED  BY <2>4, <2>5, <2>6 DEF StepPart
<1>11. CASE Report(s)
  <2>1. PICK ok \in BOOLEAN, done \in BOOLEAN :
          /\ Call(TRUE, ok, done)
          /\ execRow' = IF done THEN [execRow EXCEPT ![s] = UpdateExecution(@, phase[s])]
                        ELSE execRow
    BY <1>11 DEF Report
  <2>2. /\ stepPc[s] = "report" /\ stepRow' = stepRow /\ kjob' = kjob /\ phase' = phase
        /\ ctxDone' = ctxDone
        /\ IF PhaseTerminal(phase[s])
           THEN stepPc'[s] = "finish" /\ stepErr'[s] = PhaseIsError(phase[s])
           ELSE stepPc'[s] = "poll"
    BY <1>0, <1>11 DEF Report, TypeOK
  <2>3. /\ execRow[s].status # "absent"
        /\ phase[s] \in {"pending", "running", "succeeded", "failed"}
        /\ phase[s] = "succeeded" => Passed(s)
        /\ stepRow[s].status = "running" /\ stepRow[s].started /\ ~stepRow[s].finished
    BY <1>0, <2>2 DEF StepPart, ExecRowPart, StepRowPart, StepInv
  <2>4. execRow'[s].status = IF done THEN phase[s] ELSE execRow[s].status
    BY <1>0, <1>1, <2>1, <2>3, ExecutionEffect DEF TypeOK
  <2>5. done \/ faults' > 0 \/ ctxDone
    BY <1>0, <2>1, CallFact
  <2>6. StepRowPart(s)' /\ ExecRowPart(s)'
    BY <2>2, <2>3, <2>4 DEF StepRowPart, ExecRowPart, TimesOK
  <2>7. TruthPart(s)'
    <3>1. "succeeded" \in {stepRow'[s].status, execRow'[s].status} => Passed(s)'
      BY <2>2, <2>3, <2>4 DEF StepPart, TruthPart, Passed
    <3>2. ASSUME Undisturbed'
          PROVE  done /\ Undisturbed
      BY <1>2, <1>3, <2>2, <2>5, <3>2 DEF Undisturbed, Onward
    <3>3. Undisturbed' /\ "failed" \in {stepRow'[s].status, execRow'[s].status} =>
            kjob'[s].pod = "exited1"
      BY <2>2, <2>3, <2>4, <3>2 DEF StepPart, TruthPart
    <3>4. Undisturbed' /\ stepPc'[s] = "finish" =>
            execRow'[s].status = IF stepErr'[s] THEN "failed" ELSE "succeeded"
      BY <2>2, <2>3, <2>4, <3>2 DEF PhaseTerminal, PhaseIsError
    <3> QED
      BY <2>2, <2>3, <3>1, <3>3, <3>4 DEF TruthPart, StageTerminal
  <2>8. WatchPart(s)'
    BY <1>2, <2>2, <2>3, <2>4 DEF StepPart, WatchPart, Onward
  <2> QED  BY <2>6, <2>7, <2>8 DEF StepPart
<1>12. CASE FinishStep(s)
  <2>1. PICK ok \in BOOLEAN, done \in BOOLEAN :
          /\ Call(FALSE, ok, done)
          /\ stepRow' = IF done
                        THEN [stepRow EXCEPT ![s] =
                                UpdateStatus(@, IF stepErr[s] THEN "failed" ELSE "succeeded")]
                        ELSE stepRow
    BY <1>12 DEF FinishStep, FinishStepAs
  <2>2. /\ stepPc[s] = "finish" /\ stepPc'[s] = "done"
        /\ execRow' = execRow /\ kjob' = kjob /\ ctxDone' = ctxDone
    BY <1>0, <1>12 DEF FinishStep, FinishStepAs, TypeOK
  <2>3. /\ stepRow[s].status = "running" /\ stepRow[s].started /\ ~stepRow[s].finished
        /\ ~stepErr[s] => Passed(s)
    BY <1>0, <2>2 DEF StepPart, StepRowPart, StepInv
  <2>4. IF done
        THEN /\ stepRow'[s].status = (IF stepErr[s] THEN "failed" ELSE "succeeded")
             /\ stepRow'[s].started
        ELSE stepRow'[s] = stepRow[s]
    <3> DEFINE end == IF stepErr[s] THEN "failed" ELSE "succeeded"
    <3>1. stepRow'[s] = IF done THEN UpdateStatus(stepRow[s], end) ELSE stepRow[s]
      BY <1>0, <2>1 DEF TypeOK
    <3>2. stepRow[s] \in RunRow \cup Rows \cup StepRow /\ stepRow[s].status # "absent"
      BY <1>1, <2>3
    <3>3. /\ UpdateStatus(stepRow[s], end).status = end
          /\ UpdateStatus(stepRow[s], end).started = (stepRow[s].started \/ SetsStarted(end))
      BY <3>2, UpdateEffect
    <3> QED  BY <2>3, <3>1, <3>3
  <2>5. StepRowPart(s)' /\ ExecRowPart(s)'
    BY <2>2, <2>3, <2>4 DEF StepRowPart, ExecRowPart, TimesOK, StageTerminal
  <2>6. TruthPart(s)'
    BY <1>3, <2>2, <2>3, <2>4 DEF StepPart, TruthPart, Passed, StageTerminal
  <2>7. WatchPart(s)'
    BY <1>2, <2>2 DEF StepPart, WatchPart, Onward
  <2> QED  BY <2>5, <2>6, <2>7 DEF StepPart
<1> QED
  BY <1>4, <1>5, <1>6, <1>7, <1>8, <1>9, <1>10, <1>11, <1>12 DEF StepGoroutine

(* As long as Run stays where it is and writes no row of its own, these    *)
(* rows keep what is said of them.                                         *)
LEMMA StillRows ==
  ASSUME RunRowInv, JobRowInv, UNCHANGED <<mainVars, runRow, jobRow>>
  PROVE  RunRowInv' /\ JobRowInv'
  BY DEF RunRowInv, JobRowInv, InStage, mainVars, TimesOK

(* A goroutine writes its own step, and no row of the run or of a job.     *)
LEMMA GoroutineKeepsRows ==
  ASSUME Inv, Inv', RowInv, NEW s \in Steps, StepGoroutine(s)
  PROVE  RowInv'
<1>1. \A t \in Steps : StepPart(t)'
  BY StepFrame, GoroutineKeeps, UntouchedKeeps DEF RowInv, Inv, OwnInv
<1> QED
  BY <1>1, StepFrame, StillRows DEF RowInv, Inv, OwnInv

(* The cluster, other people, the caller and a crash write no row.         *)
LEMMA EnvironmentKeepsRows ==
  ASSUME Inv, Inv', RowInv,
         \/ \E s \in Steps : ClusterStep(s) \/ VanishJob(s)
         \/ CancelRun \/ Crash \/ Finished \/ UNCHANGED vars
  PROVE  RowInv'
<1> USE DEF mainVars, dbVars, stepVars, vars
<1>0. TypeOK
  BY DEF Inv, OwnInv
<1>1. ASSUME NEW s \in Steps, ClusterStep(s) \/ VanishJob(s)
      PROVE  RowInv'
  <2>1. UNCHANGED <<dbVars, mainVars, stepVars, ctxDone>> /\ Onward
    BY <1>0, <1>1 DEF ClusterStep, VanishJob, Fault, Onward, TypeOK
  <2>2. \A t \in Steps : t # s => Untouched(t)
    BY <1>0, <1>1, <2>1 DEF ClusterStep, VanishJob, Untouched, TypeOK
  <2>3. kjob[s] \in Jobs /\ StepPart(s)
    BY <1>0 DEF TypeOK, RowInv
  <2>4. /\ kjob'[s].pod # kjob[s].pod =>
             kjob[s].pod \in {"waiting", "active"} /\ Live(kjob[s])
        /\ kjob'[s].posted => kjob'[s].pod \in {"exited0", "exited1"}
        /\ Live(kjob'[s]) => Live(kjob[s])
    <3>1. CASE ClusterStep(s)
      <4>1. PICK job \in ClusterMoves(kjob[s]) : kjob'[s] = job
        BY <1>0, <3>1 DEF ClusterStep, TypeOK
      <4> QED
        BY <2>3, <4>1 DEF ClusterMoves, Live, Readable, Jobs, Pods, StepPart, WatchPart
    <3>2. CASE VanishJob(s)
      <4>1. kjob'[s] = CancelJob(kjob[s])
        BY <1>0, <3>2 DEF VanishJob, TypeOK
      <4> QED
        BY <2>3, <4>1 DEF CancelJob, Live, Readable, Jobs, StepPart, WatchPart
    <3> QED  BY <1>1, <3>1, <3>2
  <2>5. StepRowPart(s)' /\ ExecRowPart(s)'
    BY <2>1, <2>3 DEF StepPart, StepRowPart, ExecRowPart, TimesOK
  <2>6. TruthPart(s)'
    <3>1. Undisturbed' => Undisturbed
      BY <2>1 DEF Undisturbed, Onward
    <3> QED
      BY <2>1, <2>3, <2>4, <3>1 DEF StepPart, TruthPart, Passed
  <2>7. WatchPart(s)'
    BY <2>1, <2>3, <2>4 DEF StepPart, WatchPart, Onward
  <2>8. \A t \in Steps : StepPart(t)'
    BY <2>1, <2>2, <2>5, <2>6, <2>7, UntouchedKeeps DEF StepPart, RowInv
  <2> QED
    BY <2>1, <2>8, StillRows DEF RowInv
<1>2. CASE CancelRun \/ Finished \/ UNCHANGED vars
  <2>1. UNCHANGED <<dbVars, mainVars, stepVars, kjob>> /\ Onward
    <3>1. UNCHANGED <<dbVars, mainVars, stepVars, kjob, faults>>
      BY <1>2 DEF CancelRun, Finished
    <3>2. faults \in Nat
      BY <1>0 DEF TypeOK
    <3>3. ctxDone' = ctxDone \/ ctxDone' = TRUE
      BY <1>2 DEF CancelRun, Finished
    <3>4. ctxDone \in BOOLEAN /\ ctxDone' \in BOOLEAN /\ (ctxDone => ctxDone')
      BY <1>0, <3>3, Zenon DEF TypeOK
    <3> QED  BY <3>1, <3>2, <3>4 DEF Onward
  <2>2. \A t \in Steps : Untouched(t)
    BY <2>1 DEF Untouched
  <2> QED
    BY <2>1, <2>2, StillRows, UntouchedKeeps DEF RowInv
<1>3. CASE Crash
  <2>1. faults \in Nat /\ faults' = faults + 1 /\ ctxDone' = ctxDone
    BY <1>0, <1>3 DEF Crash, Fault, TypeOK
  <2>2. ASSUME NEW t \in Steps PROVE StepPart(t)'
    <3>1. stepPc'[t] \in {stepPc[t], "dead"} /\ StepPart(t)
      BY <1>3 DEF Crash, RowInv
    <3>2. UNCHANGED <<dbVars, kjob, stepErr, phase>>
      BY <1>3 DEF Crash
    <3> QED
      BY <2>1, <3>1, <3>2 DEF StepPart, StepRowPart, ExecRowPart, TruthPart, WatchPart, TimesOK,
                              Passed, Undisturbed
  <2>3. RunRowInv' /\ JobRowInv'
    BY <1>3 DEF Crash, RowInv, RunRowInv, JobRowInv, InStage, TimesOK
  <2> QED
    BY <2>2, <2>3 DEF RowInv
<1> QED
  BY <1>1, <1>2, <1>3

(* The next stage has no job yet.                                          *)
LEMMA EnterRows ==
  ASSUME TypeOK, NEW st \in Nat, EnterStageAfter(st), st >= stage
  PROVE  /\ pc' \in {"decide", "createJob"}
         /\ pc' = "createJob" => stage' \in Stages /\ stage' > st
         /\ stage' \in Nat /\ stage' >= stage
  BY DEF EnterStageAfter, TypeOK, Stages, Build, Test, Deploy

(* What Run does to its own row and to those of its jobs.                  *)
LEMMA MainKeepsRows ==
  ASSUME Inv, Inv', RowInv, Main
  PROVE  RowInv'
<1> USE DEF mainVars, dbVars, stepVars
<1>0. TypeOK /\ TypeOK' /\ ControlInv /\ FrontierInv /\ RunRowInv /\ JobRowInv
  BY DEF Inv, OwnInv, RowInv
<1>1. Onward
  <2>1. faults' = faults \/ \E ctxBound, ok, done \in BOOLEAN : Call(ctxBound, ok, done)
    BY DEF Main, StartRun, CreateJob, StartJob, FinishJob, FinishJobUnder, Decide, Finalize,
           FinalizeUnder, LaunchBatch, JoinBatch, RegisterArtifact, RegisteredAll, ResolveArtifact
  <2>2. ctxDone' = ctxDone
    BY DEF Main, StartRun, CreateJob, StartJob, FinishJob, FinishJobUnder, Decide, Finalize,
           FinalizeUnder, LaunchBatch, JoinBatch, RegisterArtifact, RegisteredAll, ResolveArtifact
  <2> QED  BY <1>0, <2>1, <2>2, CallFact DEF Onward, TypeOK
<1>2. \A t \in Steps : StepPart(t)'
  <2>1. CASE LaunchBatch
    <3>1. ASSUME NEW t \in Steps PROVE StepPart(t)'
      <4>1. t \in InBatch => stepPc[t] = "idle"
        <5>1. ASSUME t \in InBatch PROVE stepPc[t] = "idle"
          <6>1. pc = "launch" /\ ~failed /\ InStage /\ Advancing
            BY <1>0, <2>1 DEF LaunchBatch, ControlInv, InStage, Advancing
          <6>2. stage \in Stages /\ cursor \in 1..StepCount(stage)
            BY <1>0, <6>1, StepCountType DEF ControlInv, TypeOK
          <6>3. t[1] = stage /\ t[2] \in Batch(stage, cursor)
            BY <5>1 DEF InBatch
          <6>4. t[2] >= cursor
            BY <6>2, <6>3, BatchFact
          <6>5. Ahead(t)
            BY <6>1, <6>3, <6>4 DEF Ahead
          <6> QED  BY <1>0, <6>1, <6>5 DEF FrontierInv
        <5> QED  BY <5>1
      <4>2. /\ stepPc'[t] = (IF t \in InBatch THEN "create" ELSE stepPc[t])
            /\ UNCHANGED <<stepRow, execRow, kjob, stepErr, phase, ctxDone, faults>>
        BY <2>1 DEF LaunchBatch
      <4>3. StepPart(t)
        BY DEF RowInv
      <4> QED
        BY <4>1, <4>2, <4>3 DEF StepPart, StepRowPart, ExecRowPart, TruthPart, WatchPart, TimesOK,
                                Passed, Undisturbed
    <3> QED  BY <3>1
  <2>2. CASE ~LaunchBatch
    <3>1. UNCHANGED <<stepVars, stepRow, execRow, kjob>>
      BY <2>2 DEF Main, StartRun, CreateJob, StartJob, FinishJob, FinishJobUnder, Decide, Finalize,
              FinalizeUnder, JoinBatch, RegisterArtifact, RegisteredAll, ResolveArtifact
    <3> QED  BY <1>1, <3>1, UntouchedKeeps DEF RowInv, Untouched
  <2> QED  BY <2>1, <2>2
<1>3. SUFFICES RunRowInv' /\ JobRowInv'
  BY <1>2 DEF RowInv
<1>4. runRow \in RunRow /\ \A st \in Stages : jobRow[st] \in Rows
  BY <1>0 DEF TypeOK, RunRow
<1>5. CASE StartRun
  <2>1. PICK ok \in BOOLEAN, done \in BOOLEAN :
          /\ Call(TRUE, ok, done)
          /\ runRow' = IF done THEN UpdateStatus(runRow, "running") ELSE runRow
          /\ IF ok THEN EnterStageAfter(0) ELSE pc' = "returned" /\ UNCHANGED stage
    BY <1>5 DEF StartRun
  <2>2. stage = 0 /\ runRow = NewRow /\ UNCHANGED jobRow
    BY <1>0, <1>5 DEF StartRun, ControlInv, RunRowInv
  <2>3. (ok => done) /\ runRow' = IF done THEN RunningRow ELSE NewRow
    BY <1>0, <2>1, <2>2, CallFact, StartedRow
  <2>4. ok => pc' \in {"decide", "createJob"} /\ stage' \in Nat
    BY <1>0, <2>1, <2>2, EnterRows, 0 \in Nat, 0 >= 0
  <2>5. RunRowInv'
    <3>1. pc' \in {"decide", "createJob", "returned"} /\ (ok \/ pc' = "returned")
      BY <2>1, <2>4
    <3>2. /\ pc' # "returned" => runRow' = RunningRow
          /\ TimesOK(runRow', RunTerminal(runRow'.status))
      BY <2>3, <3>1 DEF TimesOK, RunningRow, NewRow, RunTerminal
    <3> QED  BY <3>1, <3>2 DEF RunRowInv
  <2>6. JobRowInv'
    BY <1>0, <2>1, <2>2, <2>4 DEF JobRowInv, InStage, Stages, Build, Test, Deploy
  <2> QED  BY <2>5, <2>6
<1>6. CASE CreateJob
  <2>1. PICK ok \in BOOLEAN, done \in BOOLEAN :
          /\ Call(TRUE, ok, done)
          /\ jobRow' = IF done THEN [jobRow EXCEPT ![stage] = NewRow] ELSE jobRow
          /\ pc' = IF ok THEN "startJob" ELSE "decide"
    BY <1>6 DEF CreateJob
  <2>2. pc = "createJob" /\ UNCHANGED <<stage, runRow>> /\ (ok => done)
    BY <1>0, <1>6, <2>1, CallFact DEF CreateJob
  <2>3. RunRowInv'
    BY <1>0, <2>1, <2>2 DEF RunRowInv
  <2>4. \A st \in Stages : jobRow'[st] = IF done /\ st = stage THEN NewRow ELSE jobRow[st]
    BY <1>0, <2>1 DEF TypeOK
  <2>5. stage \in Stages
    BY <1>0, <2>2 DEF ControlInv
  <2>6. JobRowInv'
    BY <1>0, <2>1, <2>2, <2>4, <2>5 DEF JobRowInv, InStage, TimesOK, NewRow, Stages, Build, Test, Deploy
  <2> QED  BY <2>3, <2>6
<1>7. CASE StartJob
  <2>1. PICK ok \in BOOLEAN, done \in BOOLEAN :
          /\ Call(TRUE, ok, done)
          /\ jobRow' = IF done THEN [jobRow EXCEPT ![stage] = UpdateStatus(@, "running")] ELSE jobRow
          /\ pc' = IF ~ok THEN "decide" ELSE IF stage = Deploy THEN "resolve" ELSE "launch"
    BY <1>7 DEF StartJob
  <2>2. pc = "startJob" /\ UNCHANGED <<stage, runRow>> /\ (ok => done)
    BY <1>0, <1>7, <2>1, CallFact DEF StartJob
  <2>3. RunRowInv'
    BY <1>0, <2>1, <2>2 DEF RunRowInv
  <2>4. stage \in Stages /\ jobRow[stage] = NewRow
    BY <1>0, <2>2 DEF ControlInv, JobRowInv
  <2>5. \A st \in Stages : jobRow'[st] = IF done /\ st = stage THEN RunningRow ELSE jobRow[st]
    BY <1>0, <2>1, <2>4, StartedRow DEF TypeOK
  <2>6. JobRowInv'
    BY <1>0, <2>1, <2>2, <2>4, <2>5 DEF JobRowInv, InStage, TimesOK, RunningRow, Stages, Build, Test, Deploy
  <2> QED  BY <2>3, <2>6
<1>8. CASE FinishJob
  <2> DEFINE end == IF failed THEN "failed" ELSE "succeeded"
  <2>1. PICK ok \in BOOLEAN, done \in BOOLEAN :
          jobRow' = IF done THEN [jobRow EXCEPT ![stage] = UpdateStatus(@, end)] ELSE jobRow
    BY <1>8 DEF FinishJob, FinishJobUnder
  <2>2. /\ pc = "finishJob" /\ UNCHANGED runRow
        /\ stage \in Stages /\ jobRow[stage] = RunningRow
    BY <1>0, <1>8 DEF FinishJob, FinishJobUnder, ControlInv, JobRowInv, InStage
  <2>3. /\ UpdateStatus(RunningRow, end).status = end
        /\ UpdateStatus(RunningRow, end).started
    BY DEF UpdateStatus, RunningRow
  <2>4. \A st \in Stages :
          jobRow'[st] = IF done /\ st = stage THEN UpdateStatus(RunningRow, end) ELSE jobRow[st]
    BY <1>0, <2>1, <2>2 DEF TypeOK
  <2>5. /\ pc' \in {"decide", "createJob"} /\ stage' \in Nat /\ stage' >= stage
        /\ pc' = "createJob" => stage' > stage
    <3>1. CASE failed
      BY <1>8, <2>2, <3>1 DEF FinishJob, FinishJobUnder, Stages, Build, Test, Deploy
    <3>2. CASE ~failed
      <4>1. EnterStageAfter(stage) /\ stage \in Nat
        BY <1>8, <2>2, <3>2 DEF FinishJob, FinishJobUnder, Stages, Build, Test, Deploy
      <4> QED  BY <1>0, <4>1, EnterRows
    <3> QED  BY <3>1, <3>2
  <2>6. RunRowInv'
    BY <1>0, <2>2, <2>5 DEF RunRowInv
  <2>7. JobRowInv'
    <3>1. ASSUME NEW st \in Stages
          PROVE  /\ st > stage' \/ (st = stage' /\ pc' = "createJob") => jobRow'[st] = NoRow
                 /\ TimesOK(jobRow'[st], StageTerminal(jobRow'[st].status))
      BY <1>0, <2>2, <2>3, <2>4, <2>5 DEF JobRowInv, TimesOK, StageTerminal, Stages, Build, Test, Deploy
    <3> QED  BY <2>5, <3>1 DEF JobRowInv, InStage
  <2> QED  BY <2>6, <2>7
<1>9. CASE Decide
  BY <1>0, <1>9 DEF Decide, RunRowInv, JobRowInv, InStage
<1>10. CASE Finalize
  <2>1. pc = "finalize" /\ pc' = "returned" /\ UNCHANGED <<stage, jobRow, verdict>>
    BY <1>10 DEF Finalize, FinalizeUnder
  <2>2. runRow = RunningRow /\ verdict \in {"success", "failed", "canceled"}
    BY <1>0, <2>1 DEF RunRowInv
  <2>3. runRow' = runRow \/ runRow' = UpdateStatus(runRow, verdict)
    BY <1>10 DEF Finalize, FinalizeUnder
  <2>4. /\ UpdateStatus(RunningRow, verdict).status = verdict
        /\ UpdateStatus(RunningRow, verdict).started
    BY DEF UpdateStatus, RunningRow
  <2>5. RunRowInv'
    BY <1>0, <2>1, <2>2, <2>3, <2>4 DEF RunRowInv, TimesOK, RunTerminal
  <2>6. JobRowInv'
    BY <1>0, <2>1 DEF JobRowInv, InStage
  <2> QED  BY <2>5, <2>6
<1>11. CASE LaunchBatch \/ JoinBatch \/ RegisterArtifact \/ RegisteredAll \/ ResolveArtifact
  <2>1. InStage /\ InStage' /\ UNCHANGED <<runRow, jobRow, stage>>
    BY <1>11 DEF LaunchBatch, JoinBatch, RegisterArtifact, RegisteredAll, ResolveArtifact,
                 NextBatch, InStage
  <2> QED
    BY <1>0, <2>1 DEF RunRowInv, JobRowInv, InStage
<1> QED
  BY <1>5, <1>6, <1>7, <1>8, <1>9, <1>10, <1>11 DEF Main

(* At the start only the run's row is there.                               *)
LEMMA InitRows == Init => RowInv
<1> SUFFICES ASSUME Init PROVE RowInv
  OBVIOUS
<1>1. RunRowInv /\ JobRowInv
  BY DEF Init, RunRowInv, JobRowInv, TimesOK, NewRow, NoRow, InStage, RunTerminal
<1>2. ASSUME NEW s \in Steps PROVE StepPart(s)
  BY DEF Init, StepPart, StepRowPart, ExecRowPart, TruthPart, WatchPart, TimesOK, NoStepRow,
         NoExecRow, NoJob, Live, Readable, StageTerminal
<1> QED
  BY <1>1, <1>2 DEF RowInv

(* RowInv is inductive relative to Inv.                                    *)
LEMMA NextKeepsRows == Inv /\ RowInv /\ [Next]_vars => RowInv'
<1> SUFFICES ASSUME Inv, Inv', RowInv, [Next]_vars PROVE RowInv'
  BY NextKeeps
<1> QED
  BY GoroutineKeepsRows, EnvironmentKeepsRows, MainKeepsRows DEF Next

-----------------------------------------------------------------------------
(* The theorems.                                                           *)

(* The rows follow the control of Run and of its goroutines.               *)
THEOREM RowInvariance == Spec => [](Inv /\ RowInv)
  BY InitRows, NextKeepsRows, InitInv, NextKeeps, PTL DEF Spec

(* Timestamps agree with statuses in every row, although each UPDATE sets  *)
(* one column at most (startedFinishedForStatus, COALESCE).                *)
THEOREM TimesAgree == Spec => []RowTimes
<1>1. RowInv => RowTimes
  BY DEF RowInv, RunRowInv, JobRowInv, StepPart, StepRowPart, TimesOK, RowTimes, RunTerminal, StageTerminal
<1> QED  BY <1>1, RowInvariance, PTL

(* Step and execution rows say "succeeded" of commands that exited 0 only, *)
(* and undisturbed they say "failed" of those that exited 1 (poll, Report).*)
THEOREM RowsTellTheTruth == Spec => []StepRowTruth
<1>1. RowInv => StepRowTruth
  BY DEF RowInv, StepPart, TruthPart, StepRowTruth
<1> QED  BY <1>1, RowInvariance, PTL

(* No Job is forgotten without a failed call or a cancellation before its  *)
(* execution was recorded (executeAndPoll, poll).                          *)
THEOREM NoJobIsForgotten == Spec => []OrphansAreExplained
<1>1. RowInv => OrphansAreExplained
  BY DEF RowInv, StepPart, WatchPart, OrphansAreExplained
<1> QED  BY <1>1, RowInvariance, PTL

-----------------------------------------------------------------------------
(* The state machines.                                                     *)

(* From the rows RowInv describes, the writes of jobs and steps are listed *)
(* in stageTransitions.                                                    *)
LEMMA StageMoves ==
  /\ Follows(NoRow, NewRow) /\ Follows(NewRow, RunningRow)
  /\ \A row : Follows(row, row)
  /\ \A row, next : row.status = "absent" /\ next.status = "pending" => Follows(row, next)
  /\ \A row, next : row.status = "pending" /\ next.status = "running" => Follows(row, next)
  /\ \A row, next : row.status = "running" /\ next.status \in {"succeeded", "failed"} =>
       Follows(row, next)
  BY DEF Follows, StageTransitionOK, stageTransitions, StageStates, NoRow, NewRow, RunningRow

(* The writes of the run's row are listed in pipelineRunTransitions.       *)
LEMMA RunMoves ==
  /\ RunTransitionOK("pending", "running")
  /\ \A st : RunTransitionOK(st, st)
  /\ \A st \in {"success", "failed", "canceled"} : RunTransitionOK("running", st)
  BY DEF RunTransitionOK, pipelineRunTransitions, RunStates

(* A goroutine writes the row of its own step, from one state to the next. *)
LEMMA GoroutineFollows ==
  ASSUME Inv, RowInv, NEW s \in Steps, StepGoroutine(s)
  PROVE  RowsFollow
<1>0. TypeOK /\ StepPart(s) /\ stepRow[s] \in RunRow \cup Rows \cup StepRow
  BY DEF Inv, OwnInv, RowInv, TypeOK, StepRow
<1>1. Follows(stepRow[s], stepRow'[s])
  <2>1. CASE CreateStep(s)
    <3>1. stepRow[s].status = "absent"
      BY <1>0, <2>1 DEF CreateStep, StepPart, StepRowPart, NoStepRow
    <3>2. stepRow'[s] = stepRow[s] \/ stepRow'[s].status = "pending"
      BY <1>0, <2>1 DEF CreateStep, TypeOK, NewStepRow
    <3> QED  BY <3>1, <3>2, StageMoves
  <2>2. CASE StartStep(s)
    <3>1. stepRow[s].status = "pending"
      BY <1>0, <2>2 DEF StartStep, StartStepOr, StepPart, StepRowPart
    <3>2. stepRow'[s] = stepRow[s] \/ stepRow'[s] = UpdateStatus(stepRow[s], "running")
      BY <1>0, <2>2 DEF StartStep, StartStepOr, TypeOK
    <3>3. UpdateStatus(stepRow[s], "running").status = "running"
      BY <1>0, <3>1, UpdateEffect
    <3> QED  BY <3>1, <3>2, <3>3, StageMoves
  <2>3. CASE FinishStep(s)
    <3> DEFINE end == IF stepErr[s] THEN "failed" ELSE "succeeded"
    <3>1. stepRow[s].status = "running"
      BY <1>0, <2>3 DEF FinishStep, FinishStepAs, StepPart, StepRowPart
    <3>2. stepRow'[s] = stepRow[s] \/ stepRow'[s] = UpdateStatus(stepRow[s], end)
      BY <1>0, <2>3 DEF FinishStep, FinishStepAs, TypeOK
    <3>3. UpdateStatus(stepRow[s], end).status = end
      BY <1>0, <3>1, UpdateEffect
    <3> QED  BY <3>1, <3>2, <3>3, StageMoves
  <2>4. CASE Submit(s) \/ RecordExecution(s) \/ PollDone(s) \/ PollRetry(s) \/ PollTick(s) \/ Report(s)
    <3>1. stepRow' = stepRow
      BY <2>4 DEF Submit, SubmitOr, RecordExecution, PollDone, StopPolling, PollRetry, PollTick,
              Report, vars, dbVars
    <3> QED  BY <3>1, StageMoves
  <2> QED  BY <2>1, <2>2, <2>3, <2>4 DEF StepGoroutine
<1>2. UNCHANGED <<runRow, jobRow>> /\ \A t \in Steps : t # s => stepRow'[t] = stepRow[t]
  BY <1>0, StepFrame DEF Untouched
<1> QED
  BY <1>1, <1>2, StageMoves, RunMoves DEF RowsFollow

(* Run writes the rows of the run and of the stage it is in.               *)
LEMMA MainFollows ==
  ASSUME Inv, RowInv, Main
  PROVE  RowsFollow
<1> USE DEF dbVars
<1>0. TypeOK /\ RunRowInv /\ JobRowInv /\ ControlInv
  BY DEF Inv, OwnInv, RowInv
<1>1. stepRow' = stepRow
  BY DEF Main, StartRun, CreateJob, StartJob, FinishJob, FinishJobUnder, Decide, Finalize,
         FinalizeUnder, LaunchBatch, JoinBatch, RegisterArtifact, RegisteredAll, ResolveArtifact
<1>2. RunTransitionOK(runRow.status, runRow'.status)
  <2>1. CASE StartRun
    <3>1. runRow = NewRow /\ runRow' \in {NewRow, RunningRow}
      BY <1>0, <2>1, StartedRow DEF StartRun, RunRowInv
    <3> QED  BY <3>1, RunMoves DEF NewRow, RunningRow
  <2>2. CASE Finalize
    <3>1. runRow = RunningRow /\ verdict \in {"success", "failed", "canceled"}
      BY <1>0, <2>2 DEF Finalize, FinalizeUnder, RunRowInv
    <3>2. runRow' = runRow \/ runRow' = UpdateStatus(runRow, verdict)
      BY <2>2 DEF Finalize, FinalizeUnder
    <3>3. UpdateStatus(RunningRow, verdict).status = verdict
      BY DEF UpdateStatus, RunningRow
    <3> QED  BY <3>1, <3>2, <3>3, RunMoves DEF RunningRow
  <2>3. CASE ~StartRun /\ ~Finalize
    <3>1. runRow' = runRow
      BY <2>3 DEF Main, CreateJob, StartJob, FinishJob, FinishJobUnder, Decide, LaunchBatch,
              JoinBatch, RegisterArtifact, RegisteredAll, ResolveArtifact
    <3> QED  BY <3>1, RunMoves
  <2> QED  BY <2>1, <2>2, <2>3
<1>3. ASSUME NEW st \in Stages PROVE Follows(jobRow[st], jobRow'[st])
  <2>1. CASE CreateJob
    <3>1. jobRow'[st] = jobRow[st] \/ (st = stage /\ jobRow'[st] = NewRow)
      BY <1>0, <2>1 DEF CreateJob, TypeOK
    <3>2. st = stage => jobRow[st] = NoRow
      BY <1>0, <2>1 DEF CreateJob, JobRowInv
    <3> QED  BY <3>1, <3>2, StageMoves
  <2>2. CASE StartJob
    <3>1. jobRow'[st] = jobRow[st] \/ (st = stage /\ jobRow'[st] = UpdateStatus(jobRow[st], "running"))
      BY <1>0, <2>2 DEF StartJob, TypeOK
    <3>2. st = stage => jobRow[st] = NewRow
      BY <1>0, <2>2 DEF StartJob, JobRowInv
    <3> QED  BY <3>1, <3>2, StageMoves, StartedRow
  <2>3. CASE FinishJob
    <3> DEFINE end == IF failed THEN "failed" ELSE "succeeded"
    <3>1. jobRow'[st] = jobRow[st] \/ (st = stage /\ jobRow'[st] = UpdateStatus(jobRow[st], end))
      BY <1>0, <2>3 DEF FinishJob, FinishJobUnder, TypeOK
    <3>2. st = stage => jobRow[st] = RunningRow
      BY <1>0, <2>3 DEF FinishJob, FinishJobUnder, JobRowInv, InStage
    <3>3. UpdateStatus(RunningRow, end).status = end
      BY DEF UpdateStatus, RunningRow
    <3> QED  BY <3>1, <3>2, <3>3, StageMoves DEF RunningRow
  <2>4. CASE ~CreateJob /\ ~StartJob /\ ~FinishJob
    <3>1. jobRow' = jobRow
      BY <2>4 DEF Main, StartRun, Decide, Finalize, FinalizeUnder, LaunchBatch, JoinBatch,
              RegisterArtifact, RegisteredAll, ResolveArtifact
    <3> QED  BY <3>1, StageMoves
  <2> QED  BY <2>1, <2>2, <2>3, <2>4
<1> QED
  BY <1>1, <1>2, <1>3, StageMoves DEF RowsFollow

(* Every step of the system takes listed transitions.                      *)
LEMMA NextFollows == Inv /\ RowInv /\ [Next]_vars => RowsFollow
<1> SUFFICES ASSUME Inv, RowInv, [Next]_vars PROVE RowsFollow
  OBVIOUS
<1>1. CASE \/ \E s \in Steps : ClusterStep(s) \/ VanishJob(s)
           \/ CancelRun \/ Crash \/ Finished \/ UNCHANGED vars
  <2>1. UNCHANGED <<runRow, jobRow, stepRow>>
    BY <1>1 DEF ClusterStep, VanishJob, CancelRun, Crash, Finished, vars, dbVars
  <2> QED  BY <2>1, StageMoves, RunMoves DEF RowsFollow
<1> QED
  BY <1>1, GoroutineFollows, MainFollows DEF Next

(* Rows of runs, jobs and steps only take transitions of their machines    *)
(* (pipeline_run_fsm.go, stage_fsm.go), which nobody checks at run time.   *)
THEOREM TransitionsAreListed == Spec => StatusesFollowFsm
  BY RowInvariance, NextFollows, PTL DEF Spec, StatusesFollowFsm

-----------------------------------------------------------------------------
(* The artifact rows.                                                      *)

(* Steps that register nothing and do not bring the loop nearer.           *)
LEMMA ArtifactsStill ==
  ASSUME ArtifactInv, UNCHANGED <<artifacts, stage, cursor, out>>,
         pc' \notin {"start", "createJob", "startJob", "launch", "wait", "register", "resolve"} \/ pc' = pc
  PROVE  ArtifactInv'
  BY DEF ArtifactInv, Registered, Declared, Outputs, DeclaredBefore

(* A row is appended behind those of earlier outputs.                      *)
LEMMA AppendKeepsOrder ==
  ASSUME NEW q \in Seq(Nat \X Nat), NEW d \in Nat \X Nat,
         \A k, l \in DOMAIN q : k < l => DeclaredBefore(q[k], q[l]),
         \A k \in DOMAIN q : DeclaredBefore(q[k], d)
  PROVE  \A k, l \in DOMAIN Append(q, d) :
           k < l => DeclaredBefore(Append(q, d)[k], Append(q, d)[l])
<1> DEFINE r == Append(q, d)
<1>1. /\ Len(r) = Len(q) + 1 /\ DOMAIN r = 1..(Len(q) + 1) /\ DOMAIN q = 1..Len(q) /\ Len(q) \in Nat
      /\ r[Len(q) + 1] = d /\ \A k \in DOMAIN q : r[k] = q[k]
  OBVIOUS
<1> HIDE DEF r
<1>2. ASSUME NEW k \in DOMAIN r, NEW l \in DOMAIN r, k < l PROVE DeclaredBefore(r[k], r[l])
  <2>1. k \in DOMAIN q /\ (l \in DOMAIN q \/ l = Len(q) + 1)
    BY <1>1, <1>2
  <2> QED
    BY <1>1, <1>2, <2>1
<1> QED
  BY <1>2 DEF r

(* The rows after an INSERT are the rows before it and the new one.        *)
LEMMA AppendRange ==
  ASSUME NEW q \in Seq(Nat \X Nat), NEW d \in Nat \X Nat
  PROVE  {Append(q, d)[k] : k \in DOMAIN Append(q, d)} = {q[k] : k \in DOMAIN q} \cup {d}
<1> DEFINE r == Append(q, d)
<1>1. /\ DOMAIN r = 1..(Len(q) + 1) /\ DOMAIN q = 1..Len(q) /\ Len(q) \in Nat
      /\ r[Len(q) + 1] = d /\ \A k \in DOMAIN q : r[k] = q[k]
  OBVIOUS
<1> HIDE DEF r
<1>2. DOMAIN r = DOMAIN q \cup {Len(q) + 1}
  BY <1>1
<1>3. ASSUME NEW x PROVE (\E k \in DOMAIN r : x = r[k]) <=> (\E k \in DOMAIN q : x = q[k]) \/ x = d
  BY <1>1, <1>2
<1> QED
  BY <1>3 DEF r

(* What Run's own steps do to the rows and to the loop over the outputs.   *)
LEMMA MainKeepsArtifacts ==
  ASSUME Inv, ArtifactInv, Main
  PROVE  ArtifactInv'
<1>0. TypeOK /\ ControlInv
  BY DEF Inv, OwnInv
<1>1. CASE StartRun
  <2>1. artifacts' = <<>> /\ pc' \in {"decide", "createJob", "returned"}
    BY <1>1 DEF StartRun, EnterStageAfter, ArtifactInv
  <2> QED
    BY <2>1 DEF ArtifactInv, Registered
<1>2. CASE CreateJob
  BY <1>2 DEF CreateJob, ArtifactInv, Registered, Declared, Outputs, DeclaredBefore
<1>3. CASE StartJob
  <2>1. /\ UNCHANGED <<artifacts, stage>>
        /\ pc' = "decide" \/ (pc' = "resolve" /\ stage = Deploy) \/ (pc' = "launch" /\ stage # Deploy)
        /\ pc = "startJob"
    BY <1>3 DEF StartJob
  <2>2. stage = Build => artifacts = <<>>
    BY <2>1 DEF ArtifactInv
  <2> QED
    BY <2>1, <2>2 DEF ArtifactInv, Registered, Declared, Outputs, DeclaredBefore, Build, Deploy
<1>4. CASE FinishJob
  <2>1. UNCHANGED artifacts /\ pc = "finishJob" /\ stage \in Stages
    BY <1>0, <1>4 DEF FinishJob, FinishJobUnder, ControlInv, InStage
  <2>2. pc' = "decide" \/ (pc' = "createJob" /\ stage' # Build)
    <3>1. failed => pc' = "decide"
      BY <1>4 DEF FinishJob, FinishJobUnder
    <3>2. ~failed => EnterStageAfter(stage)
      BY <1>4 DEF FinishJob, FinishJobUnder
    <3>3. EnterStageAfter(stage) => pc' = "decide" \/ (pc' = "createJob" /\ stage' > stage)
      BY DEF EnterStageAfter
    <3> QED
      BY <2>1, <3>1, <3>2, <3>3 DEF Stages, Build, Test, Deploy
  <2> QED
    BY <2>1, <2>2 DEF ArtifactInv, Registered, Declared, Outputs, DeclaredBefore
<1>5. CASE Decide \/ Finalize
  <2>1. UNCHANGED <<artifacts, stage, cursor, out>> /\ pc' \in {"finalize", "returned"}
    BY <1>5 DEF Decide, Finalize, FinalizeUnder, dbVars
  <2> QED
    BY <2>1, ArtifactsStill
<1>6. CASE LaunchBatch
  BY <1>6 DEF LaunchBatch, dbVars, ArtifactInv, Registered, Declared, Outputs, DeclaredBefore
<1>7. CASE JoinBatch
  <2>1. UNCHANGED <<artifacts, stage>> /\ pc = "wait"
    BY <1>7 DEF JoinBatch, dbVars
  <2>2. \/ pc' = "finishJob"
        \/ stage = Build /\ pc' = "register" /\ out' = 1 /\ UNCHANGED cursor
        \/ stage # Build /\ pc' \in {"launch", "finishJob"}
    BY <1>7 DEF JoinBatch, NextBatch
  <2>3. CASE stage = Build /\ pc' = "register" /\ out' = 1 /\ UNCHANGED cursor
    <3>1. \A k \in DOMAIN artifacts : DeclaredBefore(artifacts[k], <<cursor, out'>>)
      BY <2>1, <2>3 DEF ArtifactInv, DeclaredBefore
    <3> QED
      BY <2>1, <2>3, <3>1 DEF ArtifactInv, Registered, Declared, Outputs, DeclaredBefore
  <2> QED
    BY <2>1, <2>2, <2>3 DEF ArtifactInv, Registered, Declared, Outputs, DeclaredBefore
<1>8. CASE RegisterArtifact
  <2>1. PICK ok \in BOOLEAN, done \in BOOLEAN :
          /\ artifacts' = IF done THEN Append(artifacts, <<cursor, out>>) ELSE artifacts
          /\ \/ ok /\ done /\ out' = out + 1 /\ UNCHANGED pc
             \/ pc' = "finishJob"
    <3>1. \A ok, done \in BOOLEAN : Call(TRUE, ok, done) => (ok => done)
      BY DEF Call
    <3> QED
      BY <1>8, <3>1 DEF RegisterArtifact
  <2>2. pc = "register" /\ stage = Build /\ UNCHANGED <<stage, cursor>>
    BY <1>0, <1>8 DEF RegisterArtifact, ControlInv
  <2>3. /\ cursor \in 1..Len(BuildSteps) /\ out \in 1..Len(BuildSteps[cursor])
        /\ cursor \in Nat /\ out \in Nat /\ artifacts \in Seq(Nat \X Nat)
    <3>1. StepCount(Build) \in Nat /\ StepCount(Build) = Len(BuildSteps)
      BY StepCountType DEF StepCount, Stages
    <3>2. cursor >= 1 /\ cursor <= StepCount(Build) /\ cursor \in Nat /\ out \in Nat
      BY <1>0, <2>2 DEF ControlInv, InStage, TypeOK
    <3>3. out >= 1 /\ out <= Len(BuildSteps[cursor])
      BY <1>8, <2>2 DEF RegisterArtifact, ArtifactInv
    <3>4. Len(BuildSteps[cursor]) \in Nat
      BY <3>1, <3>2, ConfigAssumption DEF ConfigAssumption
    <3> QED
      BY <1>0, <3>1, <3>2, <3>3, <3>4 DEF TypeOK
  <2>4. /\ \A k, l \in DOMAIN artifacts' : k < l => DeclaredBefore(artifacts'[k], artifacts'[l])
        /\ {artifacts'[k] : k \in DOMAIN artifacts'} \subseteq Declared
    <3>1. \A k \in DOMAIN artifacts : DeclaredBefore(artifacts[k], <<cursor, out>>)
      BY <2>2 DEF ArtifactInv
    <3>2. <<cursor, out>> \in Declared
      BY <2>3 DEF Declared, Outputs
    <3>3. \A k, l \in DOMAIN Append(artifacts, <<cursor, out>>) :
            k < l => DeclaredBefore(Append(artifacts, <<cursor, out>>)[k],
                                    Append(artifacts, <<cursor, out>>)[l])
      BY <2>3, <3>1, AppendKeepsOrder DEF ArtifactInv
    <3>4. {Append(artifacts, <<cursor, out>>)[k] : k \in DOMAIN Append(artifacts, <<cursor, out>>)}
            \subseteq Declared
      <4>1. <<cursor, out>> \in Nat \X Nat
        BY <2>3
      <4>2. {Append(artifacts, <<cursor, out>>)[k] : k \in DOMAIN Append(artifacts, <<cursor, out>>)}
              = Registered \cup {<<cursor, out>>}
        BY <2>3, <4>1, AppendRange DEF Registered
      <4>3. Registered \subseteq Declared
        BY DEF ArtifactInv
      <4> QED
        BY <3>2, <4>2, <4>3
    <3> QED
      BY <2>1, <3>3, <3>4 DEF ArtifactInv, Registered
  <2>5. CASE pc' = "finishJob"
    BY <2>2, <2>4, <2>5 DEF ArtifactInv, Registered, Declared, Outputs
  <2>6. CASE ok /\ done /\ out' = out + 1 /\ UNCHANGED pc
    <3>1. artifacts' = Append(artifacts, <<cursor, out>>)
      BY <2>1, <2>6
    <3>2. ASSUME NEW k \in DOMAIN artifacts' PROVE DeclaredBefore(artifacts'[k], <<cursor', out'>>)
      <4>1. CASE k \in DOMAIN artifacts
        <5>1. artifacts'[k] = artifacts[k] /\ artifacts[k] \in Nat \X Nat
          BY <2>3, <3>1, <4>1
        <5>2. DeclaredBefore(artifacts[k], <<cursor, out>>)
          BY <2>2, <4>1 DEF ArtifactInv
        <5> QED
          BY <2>2, <2>3, <2>6, <5>1, <5>2 DEF DeclaredBefore
      <4>2. CASE k \notin DOMAIN artifacts
        <5>1. artifacts'[k] = <<cursor, out>>
          BY <2>3, <3>1, <3>2, <4>2
        <5> QED
          BY <2>2, <2>3, <2>6, <5>1 DEF DeclaredBefore
      <4> QED
        BY <4>1, <4>2
    <3>3. pc' = "register" /\ out' >= 1
      BY <2>2, <2>3, <2>6
    <3>4. Registered' \subseteq Declared /\ Declared' = Declared
      BY <2>4 DEF Registered, Declared, Outputs
    <3> QED
      BY <2>4, <3>2, <3>3, <3>4 DEF ArtifactInv
  <2> QED
    BY <2>1, <2>5, <2>6
<1>9. CASE RegisteredAll
  <2>1. /\ UNCHANGED <<artifacts, stage, out>> /\ pc = "register" /\ cursor' > cursor
        /\ pc' \in {"launch", "finishJob"} /\ cursor' \in Nat
    <3>1. NextBatch => cursor' > cursor /\ pc' \in {"launch", "finishJob"}
      BY DEF NextBatch
    <3> QED
      BY <1>0, <1>9, <3>1, NextBatchType DEF RegisteredAll, dbVars
  <2>2. ASSUME NEW k \in DOMAIN artifacts PROVE artifacts[k][1] < cursor'
    <3>1. DeclaredBefore(artifacts[k], <<cursor, out>>)
      BY <2>1 DEF ArtifactInv
    <3>2. artifacts[k] \in Nat \X Nat /\ cursor \in Nat
      BY <1>0 DEF TypeOK
    <3> QED
      BY <2>1, <3>1, <3>2 DEF DeclaredBefore
  <2> QED
    BY <2>1, <2>2 DEF ArtifactInv, Registered, Declared, Outputs, DeclaredBefore
<1>10. CASE ResolveArtifact
  <2>1. UNCHANGED <<artifacts, stage, cursor, out>> /\ stage = Deploy /\ pc' \in {"launch", "finishJob"}
    BY <1>10 DEF ResolveArtifact, ArtifactInv, dbVars
  <2> QED
    BY <2>1 DEF ArtifactInv, Registered, Declared, Outputs, DeclaredBefore, Build, Deploy
<1> QED
  BY <1>1, <1>2, <1>3, <1>4, <1>5, <1>6, <1>7, <1>8, <1>9, <1>10 DEF Main

(* Nobody but Buildinator's loop writes artifact rows.                     *)
LEMMA NextKeepsArtifacts ==
  ASSUME Inv, ArtifactInv, [Next]_vars
  PROVE  ArtifactInv'
<1>1. ASSUME NEW s \in Steps, StepGoroutine(s) \/ ClusterStep(s) \/ VanishJob(s)
      PROVE  ArtifactInv'
  <2>1. UNCHANGED <<artifacts, mainVars>>
    BY <1>1 DEF StepGoroutine, CreateStep, StartStep, StartStepOr, Submit, SubmitOr, RecordExecution,
         PollDone, StopPolling, PollRetry, PollTick, Report, FinishStep, FinishStepAs, ClusterStep,
         VanishJob, dbVars, vars
  <2> QED
    BY <2>1, ArtifactsStill DEF mainVars
<1>2. CASE CancelRun \/ Crash \/ Finished \/ UNCHANGED vars
  <2>1. UNCHANGED <<artifacts, stage, cursor, out>> /\ pc' \in {pc, "crashed"}
    BY <1>2 DEF CancelRun, Crash, Finished, vars, dbVars, mainVars
  <2> QED
    BY <2>1, ArtifactsStill
<1> QED
  BY <1>1, <1>2, MainKeepsArtifacts DEF Next

(* Once every build step is past, all outputs are registered, and the      *)
(* first match by age is the first by declaration.                         *)
LEMMA ResolvePicksFirst ==
  ASSUME Inv, ArtifactInv, ResolveArtifact, deployed' # deployed
  PROVE  DeploysFirstDeclared'
<1>1. pc = "resolve" /\ stage = Deploy /\ Advancing /\ TypeOK /\ UNCHANGED artifacts
  BY DEF ResolveArtifact, ArtifactInv, Inv, OwnInv, ControlInv, Advancing, InStage, dbVars
<1>2. Declared \subseteq Registered
  <2>1. SUFFICES ASSUME NEW i \in 1..Len(BuildSteps) PROVE Outputs(i) \subseteq Registered
    BY DEF Declared
  <2>2. <<Build, i>> \in Steps
    BY StepFrom DEF StepCount, Stages
  <2>3. Past(<<Build, i>>)
    BY <1>1 DEF Past, Build, Deploy
  <2> QED
    BY <1>1, <2>2, <2>3 DEF Inv, OwnInv, FrontierInv
<1>3. PICK k \in Matches : FirstMatch(k) /\ deployed' = artifacts[k]
  BY DEF ResolveArtifact
<1>4. deployed' \in Declared /\ BuildSteps[deployed'[1]][deployed'[2]] = DeployArtifact
  BY <1>3 DEF ArtifactInv, Registered, Matches
<1>5. ASSUME NEW d \in Declared, BuildSteps[d[1]][d[2]] = DeployArtifact
      PROVE  d[1] > deployed'[1] \/ (d[1] = deployed'[1] /\ d[2] >= deployed'[2])
  <2>1. PICK l \in DOMAIN artifacts : artifacts[l] = d
    BY <1>2 DEF Registered
  <2>2. l \in Matches
    BY <1>5, <2>1 DEF Matches
  <2>3. k <= l /\ k \in DOMAIN artifacts
    BY <1>3, <2>2 DEF FirstMatch, Matches
  <2>4. artifacts[k] \in Nat \X Nat /\ artifacts[l] \in Nat \X Nat /\ k \in Nat /\ l \in Nat
    <3>1. artifacts \in Seq(Nat \X Nat)
      BY <1>1 DEF TypeOK
    <3> QED
      BY <2>1, <2>3, <3>1
  <2>5. k = l \/ DeclaredBefore(artifacts[k], artifacts[l])
    BY <2>3, <2>4 DEF ArtifactInv
  <2> QED
    BY <1>3, <2>1, <2>4, <2>5 DEF DeclaredBefore
<1> QED
  BY <1>1, <1>2, <1>4, <1>5 DEF DeploysFirstDeclared, Registered, Declared, Outputs

(* Once chosen, the artifact stays the right one: the rows of the build    *)
(* are complete by then.                                                   *)
LEMMA NextKeepsDeployed ==
  ASSUME Inv, Inv', ArtifactInv, DeploysFirstDeclared, [Next]_vars
  PROVE  DeploysFirstDeclared'
<1>1. CASE ResolveArtifact /\ deployed' # deployed
  BY <1>1, ResolvePicksFirst
<1>2. CASE ~(ResolveArtifact /\ deployed' # deployed)
  <2>1. deployed' = deployed
    BY <1>2 DEF Next, Main, StartRun, CreateJob, StartJob, FinishJob, FinishJobUnder, Decide, Finalize,
         FinalizeUnder, LaunchBatch, JoinBatch, RegisterArtifact, RegisteredAll,
         StepGoroutine, CreateStep, StartStep, StartStepOr, Submit, SubmitOr, RecordExecution,
         PollDone, StopPolling, PollRetry, PollTick, Report, FinishStep, FinishStepAs, ClusterStep,
         VanishJob, CancelRun, Crash, Finished, vars, mainVars
  <2>2. Registered \subseteq Registered'
    <3>1. artifacts' = artifacts \/ artifacts' = Append(artifacts, <<cursor, out>>)
      BY DEF Next, Main, StartRun, CreateJob, StartJob, FinishJob, FinishJobUnder, Decide, Finalize,
         FinalizeUnder, LaunchBatch, JoinBatch, RegisterArtifact, RegisteredAll, ResolveArtifact,
         StepGoroutine, CreateStep, StartStep, StartStepOr, Submit, SubmitOr, RecordExecution,
         PollDone, StopPolling, PollRetry, PollTick, Report, FinishStep, FinishStepAs, ClusterStep,
         VanishJob, CancelRun, Crash, Finished, vars, dbVars
    <3>2. artifacts \in Seq(Nat \X Nat) /\ <<cursor, out>> \in Nat \X Nat
      BY DEF Inv, OwnInv, TypeOK
    <3>3. CASE artifacts' = artifacts
      BY <3>3 DEF Registered
    <3>4. CASE artifacts' = Append(artifacts, <<cursor, out>>)
      <4>1. Registered' = {Append(artifacts, <<cursor, out>>)[k] :
                             k \in DOMAIN Append(artifacts, <<cursor, out>>)}
        BY <3>4 DEF Registered
      <4>2. Registered' = Registered \cup {<<cursor, out>>}
        BY <3>2, <4>1, AppendRange DEF Registered
      <4> QED
        BY <4>2
    <3> QED
      BY <3>1, <3>3, <3>4
  <2> QED
    BY <2>1, <2>2 DEF DeploysFirstDeclared, Declared, Outputs
<1> QED
  BY <1>1, <1>2

-----------------------------------------------------------------------------
(* The groups of the step rows.                                            *)

(* The step behind a batch starts a block, or is in none.                  *)
LEMMA NextStartsBlock ==
  ASSUME TypeOK, stage = Test, cursor \in 1..StepCount(Test), NextBatch, pc' = "launch"
  PROVE  BlockStart(cursor')
<1>1. PICK next \in 1..(StepCount(stage) + 1) :
        /\ next > cursor
        /\ \A m \in cursor..(next - 1) : m \in Batch(stage, cursor)
        /\ next \notin Batch(stage, cursor)
        /\ cursor' = next
        /\ pc' = IF next <= StepCount(stage) THEN "launch" ELSE "finishJob"
  BY DEF NextBatch
<1>2. /\ StepCount(Test) = Len(TestSteps) /\ StepCount(Test) \in Nat /\ cursor \in Nat /\ next \in Nat
      /\ next <= Len(TestSteps)
  BY <1>1, StepCountType DEF StepCount, Stages, Build, Test
<1>3. CASE ~TestSteps[cursor]
  <2>1. Batch(stage, cursor) = {cursor}
    BY <1>3 DEF Batch
  <2>2. next - 1 \in cursor..(next - 1)
    BY <1>1, <1>2
  <2>3. next - 1 = cursor
    BY <1>1, <2>1, <2>2
  <2> QED
    BY <1>1, <1>3, <2>3 DEF BlockStart
<1>4. CASE TestSteps[cursor]
  <2>1. Batch(stage, cursor) = {j \in cursor..Len(TestSteps) : \A k \in cursor..j : TestSteps[k]}
    BY <1>4 DEF Batch
  <2>2. PICK k \in cursor..next : ~TestSteps[k]
    BY <1>1, <1>2, <2>1
  <2>3. ASSUME k # next PROVE FALSE
    <3>1. k \in cursor..(next - 1)
      BY <1>2, <2>2, <2>3
    <3>2. k \in Batch(stage, cursor) /\ k \in cursor..k
      BY <1>1, <1>2, <3>1
    <3> QED
      BY <2>1, <2>2, <3>2
  <2> QED
    BY <1>1, <2>2, <2>3 DEF BlockStart
<1> QED
  BY <1>3, <1>4

(* Run moves from batch to batch and writes no step row.                   *)
LEMMA MainKeepsGroups ==
  ASSUME Inv, ArtifactInv, GroupInv, Main
  PROVE  GroupInv'
<1>0. TypeOK /\ ControlInv
  BY DEF Inv, OwnInv
<1>1. UNCHANGED stepRow
  BY DEF Main, StartRun, CreateJob, StartJob, FinishJob, FinishJobUnder, Decide, Finalize,
         FinalizeUnder, LaunchBatch, JoinBatch, RegisterArtifact, RegisteredAll, ResolveArtifact, dbVars
<1>2. stage' = Test /\ pc' \in {"launch", "wait"} => BlockStart(cursor')
  <2>1. CASE StartRun \/ CreateJob \/ FinishJob \/ Decide \/ Finalize
    <3>1. pc' \notin {"launch", "wait"}
      BY <2>1 DEF StartRun, CreateJob, FinishJob, FinishJobUnder, Decide, Finalize, FinalizeUnder,
                  EnterStageAfter
    <3> QED
      BY <3>1
  <2>2. CASE StartJob
    BY <2>2 DEF StartJob, BlockStart
  <2>3. CASE LaunchBatch
    BY <2>3 DEF LaunchBatch, GroupInv, BlockStart
  <2>4. CASE JoinBatch
    <3>1. UNCHANGED stage /\ pc = "wait" /\ (pc' = "launch" => NextBatch)
      BY <2>4 DEF JoinBatch
    <3>2. pc' # "wait"
      BY <2>4 DEF JoinBatch, NextBatch
    <3>3. stage \in Stages /\ cursor \in 1..StepCount(stage)
      BY <1>0, <3>1, StepCountType DEF ControlInv, InStage, TypeOK
    <3> QED
      BY <1>0, <3>1, <3>2, <3>3, NextStartsBlock
  <2>5. CASE RegisterArtifact \/ RegisteredAll
    <3>1. pc = "register" /\ UNCHANGED stage
      BY <2>5 DEF RegisterArtifact, RegisteredAll
    <3> QED
      BY <1>0, <3>1 DEF ControlInv, Build, Test
  <2>6. CASE ResolveArtifact
    BY <2>6 DEF ResolveArtifact, ArtifactInv, Deploy, Test
  <2> QED
    BY <2>1, <2>2, <2>3, <2>4, <2>5, <2>6 DEF Main
<1> QED
  BY <1>1, <1>2 DEF GroupInv, GroupPart

(* A step row gets the group of the batch it is in, and keeps it.          *)
LEMMA GoroutineKeepsGroup ==
  ASSUME Inv, GroupInv, NEW s \in Steps, StepPart(s), StepGoroutine(s)
  PROVE  GroupPart(s)'
<1>0. TypeOK /\ ControlInv /\ FrontierInv /\ stepRow[s] \in StepRow
  BY DEF Inv, OwnInv, TypeOK, StepRow
<1>1. CASE CreateStep(s)
  <2>1. stepRow'[s] = stepRow[s] \/ stepRow'[s] = NewStepRow(BatchGroup)
    BY <1>0, <1>1 DEF CreateStep, TypeOK
  <2>2. pc = "wait" /\ s \in InBatch
    BY <1>0, <1>1 DEF CreateStep, FrontierInv, InFlight
  <2>3. stage \in Stages /\ cursor \in 1..StepCount(stage) /\ cursor \in Nat
    BY <1>0, <2>2, StepCountType DEF ControlInv, InStage, TypeOK
  <2>4. s[1] = stage /\ s[2] \in Batch(stage, cursor) /\ s[2] \in cursor..StepCount(stage)
    BY <2>2, <2>3, BatchFact DEF InBatch
  <2>5. NewStepRow(BatchGroup).group = BatchGroup
    BY DEF NewStepRow
  <2>6. CASE stage = Test /\ TestSteps[cursor]
    <3>1. BatchGroup = cursor /\ \A k \in cursor..s[2] : TestSteps[k]
      BY <2>4, <2>6 DEF BatchGroup, Batch
    <3>2. cursor = 1 \/ ~TestSteps[cursor - 1]
      BY <2>2, <2>6 DEF GroupInv, BlockStart
    <3>3. s[2] \in Nat /\ s[2] \in cursor..s[2] /\ cursor \in 1..s[2]
      BY <2>3, <2>4, StepCountType
    <3> QED
      BY <2>1, <2>4, <2>5, <2>6, <3>1, <3>2, <3>3 DEF GroupPart, GroupInv
  <2>7. CASE ~(stage = Test /\ TestSteps[cursor])
    <3>1. BatchGroup = 0 /\ s[2] = cursor
      BY <2>4, <2>7 DEF BatchGroup, Batch
    <3> QED
      BY <2>1, <2>4, <2>5, <2>7, <3>1 DEF GroupPart, GroupInv
  <2> QED
    BY <2>6, <2>7
<1>2. CASE ~CreateStep(s)
  <2>1. \/ stepRow'[s] = stepRow[s]
        \/ /\ stepRow[s].status \in {"pending", "running"}
           /\ \E st : stepRow'[s] = UpdateStatus(stepRow[s], st)
    <3>1. CASE StartStep(s)
      BY <1>0, <3>1 DEF StartStep, StartStepOr, TypeOK, StepPart, StepRowPart
    <3>2. CASE FinishStep(s)
      BY <1>0, <3>2 DEF FinishStep, FinishStepAs, TypeOK, StepPart, StepRowPart
    <3>3. CASE ~StartStep(s) /\ ~FinishStep(s)
      BY <1>2, <3>3 DEF StepGoroutine, Submit, SubmitOr, RecordExecution, PollDone, StopPolling,
                        PollRetry, PollTick, Report, dbVars, vars
    <3> QED
      BY <3>1, <3>2, <3>3
  <2>2. \A st : UpdateStatus(stepRow[s], st).group = stepRow[s].group
    BY <1>0 DEF UpdateStatus, StepRow
  <2>3. stepRow'[s].group = stepRow[s].group /\ (stepRow'[s].status # "absent" => stepRow[s].status # "absent")
    BY <2>1, <2>2
  <2> QED
    BY <2>3 DEF GroupInv, GroupPart
<1> QED
  BY <1>1, <1>2

(* Only CreateStep writes a group, from the batch at the cursor.           *)
LEMMA NextKeepsGroups ==
  ASSUME Inv, RowInv, ArtifactInv, GroupInv, [Next]_vars
  PROVE  GroupInv'
<1>1. ASSUME NEW s \in Steps, StepGoroutine(s) PROVE GroupInv'
  <2>1. UNCHANGED mainVars /\ \A t \in Steps : t # s => stepRow'[t] = stepRow[t]
    BY <1>1, StepFrame DEF Inv, OwnInv, Untouched
  <2>2. \A t \in Steps : GroupPart(t)'
    BY <1>1, <2>1, GoroutineKeepsGroup DEF RowInv, GroupInv, GroupPart
  <2> QED
    BY <2>1, <2>2 DEF GroupInv, BlockStart, mainVars
<1>2. CASE CancelRun \/ Crash \/ Finished \/ UNCHANGED vars \/ \E s \in Steps : ClusterStep(s) \/ VanishJob(s)
  <2>1. UNCHANGED <<stepRow, stage, cursor>> /\ pc' \in {pc, "crashed"}
    BY <1>2 DEF CancelRun, Crash, Finished, ClusterStep, VanishJob, vars, dbVars, mainVars
  <2> QED
    BY <2>1 DEF GroupInv, GroupPart, BlockStart
<1> QED
  BY <1>1, <1>2, MainKeepsGroups DEF Next

(* Groups tell blocks apart, because each is named after its first step.   *)
LEMMA GroupsTellBlocks ==
  ASSUME TypeOK, GroupInv, NEW s \in Steps, NEW t \in Steps, s[1] = t[1],
         stepRow[s].status # "absent", stepRow[t].status # "absent"
  PROVE  SameBlock(s, t) <=> stepRow[s].group # 0 /\ stepRow[s].group = stepRow[t].group
<1> DEFINE g == stepRow[s].group
           h == stepRow[t].group
<1>1. GroupPart(s) /\ GroupPart(t) /\ s[2] \in Nat /\ t[2] \in Nat /\ s[2] >= 1 /\ t[2] >= 1
  BY StepFact, StepCountType DEF GroupInv
<1>2. CASE ~(s[1] = Test /\ TestSteps[s[2]] /\ TestSteps[t[2]])
  <2>1. ~SameBlock(s, t)
    <3>1. SUFFICES ASSUME SameBlock(s, t) PROVE FALSE
      OBVIOUS
    <3>2. CASE s[2] <= t[2]
      <4>1. s[2] \in s[2]..t[2] /\ t[2] \in s[2]..t[2]
        BY <1>1, <3>2
      <4> QED
        BY <1>2, <3>1, <4>1 DEF SameBlock
    <3>3. CASE t[2] <= s[2]
      <4>1. s[2] \in t[2]..s[2] /\ t[2] \in t[2]..s[2]
        BY <1>1, <3>3
      <4> QED
        BY <1>2, <3>1, <4>1 DEF SameBlock
    <3> QED
      BY <1>1, <3>2, <3>3
  <2>2. g = 0 \/ g # h
    BY <1>1, <1>2 DEF GroupPart
  <2> QED
    BY <2>1, <2>2
<1>3. CASE s[1] = Test /\ TestSteps[s[2]] /\ TestSteps[t[2]]
  <2>1. /\ g \in 1..s[2] /\ (\A k \in g..s[2] : TestSteps[k]) /\ (g = 1 \/ ~TestSteps[g - 1])
        /\ h \in 1..t[2] /\ (\A k \in h..t[2] : TestSteps[k]) /\ (h = 1 \/ ~TestSteps[h - 1])
    BY <1>1, <1>3 DEF GroupPart
  <2> HIDE DEF g, h
  <2>2. ASSUME g = h PROVE SameBlock(s, t)
    BY <1>1, <1>3, <2>1, <2>2 DEF SameBlock
  <2>3. ASSUME SameBlock(s, t), g < h PROVE FALSE
    <3>1. h - 1 \in Nat /\ ~TestSteps[h - 1] /\ h - 1 >= g /\ h - 1 <= t[2]
      BY <1>1, <2>1, <2>3
    <3>2. h - 1 \in g..s[2] \/ h - 1 \in s[2]..t[2]
      BY <1>1, <2>1, <3>1
    <3> QED
      BY <2>1, <2>3, <3>1, <3>2 DEF SameBlock
  <2>4. ASSUME SameBlock(s, t), h < g PROVE FALSE
    <3>1. g - 1 \in Nat /\ ~TestSteps[g - 1] /\ g - 1 >= h /\ g - 1 <= s[2]
      BY <1>1, <2>1, <2>4
    <3>2. g - 1 \in h..t[2] \/ g - 1 \in t[2]..s[2]
      BY <1>1, <2>1, <3>1
    <3> QED
      BY <2>1, <2>4, <3>1, <3>2 DEF SameBlock
  <2>5. SameBlock(s, t) <=> g = h
    BY <2>1, <2>2, <2>3, <2>4
  <2> QED
    BY <2>1, <2>5 DEF g, h
<1> QED
  BY <1>2, <1>3

(* Two steps in flight are of the current batch, hence of one block.       *)
LEMMA OverlapInBlock ==
  ASSUME Inv, NEW s \in Steps, NEW t \in Steps, s # t, InFlight(s), InFlight(t)
  PROVE  SameBlock(s, t)
<1>1. pc = "wait" /\ s \in InBatch /\ t \in InBatch /\ TypeOK /\ ControlInv
  BY DEF Inv, OwnInv, FrontierInv
<1>2. stage \in Stages /\ cursor \in 1..StepCount(stage) /\ cursor \in Nat
  BY <1>1, StepCountType DEF ControlInv, InStage, TypeOK
<1>3. /\ s[1] = stage /\ t[1] = stage /\ s = <<stage, s[2]>> /\ t = <<stage, t[2]>>
      /\ s[2] \in Batch(stage, cursor) /\ t[2] \in Batch(stage, cursor)
  BY <1>1, StepFact DEF InBatch
<1>4. s[2] \in cursor..StepCount(stage) /\ t[2] \in cursor..StepCount(stage) /\ s[2] # t[2]
  BY <1>2, <1>3, BatchFact
<1>5. s[2] \in cursor..t[2] \/ t[2] \in cursor..s[2]
  BY <1>2, <1>4, StepCountType
<1>6. SameBlock(s, t) \/ SameBlock(t, s)
  BY <1>2, <1>3, <1>4, <1>5, BatchFact
<1> QED
  BY <1>6 DEF SameBlock

-----------------------------------------------------------------------------
(* The rows when Run returns.                                              *)

(* Without failures a call succeeds, or its context is done.               *)
LEMMA CallUndisturbed ==
  ASSUME TypeOK, NEW ctxBound \in BOOLEAN, NEW ok \in BOOLEAN, NEW done \in BOOLEAN,
         Call(ctxBound, ok, done), faults' = 0
  PROVE  (ok /\ done) \/ (~ok /\ ctxBound /\ ctxDone)
  BY DEF Call, Fault, TypeOK

(* What is said of a step when a step of the system leaves it alone.       *)
LEMMA UntouchedEnds ==
  ASSUME NEW t \in Steps, StepEnd(t), Untouched(t), Onward
  PROVE  StepEnd(t)'
  BY DEF StepEnd, Untouched, Onward, InFlight, Passed

(* A goroutine ends its step and its execution, or had its context taken   *)
(* away.                                                                   *)
LEMMA GoroutineEnds ==
  ASSUME Inv, NEW s \in Steps, StepPart(s), StepPart(s)', StepEnd(s), StepGoroutine(s), faults' = 0
  PROVE  StepEnd(s)'
<1>0. /\ TypeOK /\ StepInv /\ stepRow[s] \in StepRow /\ execRow[s] \in ExecRow
      /\ stepErr[s] \in BOOLEAN /\ ctxDone \in BOOLEAN
  BY DEF Inv, OwnInv, TypeOK, StepRow, ExecRow
<1>1. CASE CreateStep(s)
  <2>1. PICK ok \in BOOLEAN, done \in BOOLEAN :
          /\ Call(TRUE, ok, done)
          /\ stepPc' = [stepPc EXCEPT ![s] = IF ok THEN "start" ELSE "done"]
    BY <1>1 DEF CreateStep
  <2>2. kjob'[s] = NoJob /\ execRow'[s] = NoExecRow /\ ctxDone' = ctxDone
    BY <1>0, <1>1 DEF CreateStep, StepInv, StepPart, ExecRowPart
  <2>3. stepPc'[s] = "start" \/ (stepPc'[s] = "done" /\ ctxDone)
    BY <1>0, <2>1, CallUndisturbed DEF TypeOK
  <2> QED
    BY <2>2, <2>3 DEF StepEnd, InFlight, NoExecRow
<1>2. CASE StartStep(s)
  <2>1. PICK ok \in BOOLEAN, done \in BOOLEAN :
          /\ Call(TRUE, ok, done)
          /\ stepPc' = [stepPc EXCEPT ![s] = IF ok THEN "submit" ELSE "done"]
    BY <1>2 DEF StartStep, StartStepOr
  <2>2. kjob'[s] = NoJob /\ execRow'[s] = NoExecRow /\ ctxDone' = ctxDone
    BY <1>0, <1>2 DEF StartStep, StartStepOr, StepInv, StepPart, ExecRowPart
  <2>3. stepPc'[s] = "submit" \/ (stepPc'[s] = "done" /\ ctxDone)
    BY <1>0, <2>1, CallUndisturbed DEF TypeOK
  <2> QED
    BY <2>2, <2>3 DEF StepEnd, InFlight, NoExecRow
<1>3. CASE Submit(s)
  <2>1. /\ stepPc'[s] \in {"record", "finish"}
        /\ execRow'[s] = NoExecRow
    BY <1>0, <1>3 DEF Submit, SubmitOr, StepPart, ExecRowPart, TypeOK, dbVars
  <2> QED
    BY <2>1 DEF StepEnd, InFlight, NoExecRow
<1>4. CASE RecordExecution(s)
  <2>1. PICK ok \in BOOLEAN, done \in BOOLEAN :
          /\ Call(TRUE, ok, done)
          /\ stepPc' = [stepPc EXCEPT ![s] = IF ok THEN "poll" ELSE "finish"]
          /\ stepErr' = [stepErr EXCEPT ![s] = ~ok]
    BY <1>4 DEF RecordExecution
  <2>2. ctxDone' = ctxDone
    BY <1>4 DEF RecordExecution
  <2>3. stepPc'[s] = "poll" \/ (stepPc'[s] = "finish" /\ ctxDone /\ stepErr'[s])
    BY <1>0, <2>1, CallUndisturbed DEF TypeOK
  <2> QED
    BY <2>2, <2>3 DEF StepEnd, InFlight
<1>5. CASE PollDone(s)
  <2>1. stepPc'[s] = "finish" /\ stepErr'[s] /\ ctxDone'
    BY <1>0, <1>5 DEF PollDone, StopPolling, TypeOK
  <2> QED
    BY <2>1 DEF StepEnd, InFlight
<1>6. CASE PollRetry(s)
  BY <1>6 DEF PollRetry, vars, dbVars, stepVars, StepEnd, InFlight, Passed
<1>7. CASE PollTick(s)
  <2>1. stepPc'[s] = "report"
    BY <1>0, <1>7 DEF PollTick, TypeOK
  <2> QED
    BY <2>1 DEF StepEnd, InFlight
<1>8. CASE Report(s)
  <2>1. PICK ok \in BOOLEAN, done \in BOOLEAN :
          /\ Call(TRUE, ok, done)
          /\ execRow' = IF done THEN [execRow EXCEPT ![s] = UpdateExecution(@, phase[s])] ELSE execRow
    BY <1>8 DEF Report
  <2>2. /\ UNCHANGED <<kjob, ctxDone, phase>> /\ stepPc[s] = "report"
        /\ execRow[s].status # "absent" /\ phase[s] \in {"pending", "running", "succeeded", "failed"}
    BY <1>8 DEF Report, StepPart, ExecRowPart
  <2>3. CASE ~PhaseTerminal(phase[s])
    <3>1. stepPc'[s] = "poll"
      BY <1>0, <1>8, <2>3 DEF Report, TypeOK
    <3> QED
      BY <3>1 DEF StepEnd, InFlight
  <2>4. CASE PhaseTerminal(phase[s])
    <3>1. stepPc'[s] = "finish" /\ stepErr'[s] = (phase[s] # "succeeded")
      BY <1>0, <1>8, <2>4 DEF Report, TypeOK, PhaseIsError
    <3>2. phase[s] = "succeeded" => Passed(s)'
      BY <1>0, <2>2 DEF StepInv, Passed
    <3>3. done => execRow'[s].status = phase[s]
      BY <1>0, <2>1, <2>2, ExecutionEffect DEF TypeOK
    <3>4. ~done => ctxDone
      BY <1>0, <2>1, CallUndisturbed
    <3>5. phase[s] \notin {"pending", "running"}
      BY <2>4 DEF PhaseTerminal
    <3> QED
      BY <2>2, <3>1, <3>2, <3>3, <3>4, <3>5 DEF StepEnd, InFlight
  <2> QED
    BY <2>3, <2>4
<1>9. CASE FinishStep(s)
  <2> DEFINE end == IF stepErr[s] THEN "failed" ELSE "succeeded"
  <2>1. PICK ok \in BOOLEAN, done \in BOOLEAN :
          /\ Call(FALSE, ok, done)
          /\ stepRow' = IF done THEN [stepRow EXCEPT ![s] = UpdateStatus(@, end)] ELSE stepRow
    BY <1>9 DEF FinishStep, FinishStepAs
  <2>2. /\ UNCHANGED <<kjob, ctxDone, execRow, stepErr>> /\ stepPc[s] = "finish" /\ stepPc'[s] = "done"
        /\ stepRow[s].status = "running"
    BY <1>0, <1>9 DEF FinishStep, FinishStepAs, StepPart, StepRowPart, TypeOK
  <2>3. stepRow'[s].status = end
    <3>1. done
      BY <1>0, <2>1, CallUndisturbed
    <3>2. UpdateStatus(stepRow[s], end).status = end
      BY <1>0, <2>2, UpdateEffect
    <3> QED
      BY <1>0, <2>1, <3>1, <3>2 DEF TypeOK
  <2> QED
    BY <2>2, <2>3 DEF StepEnd, Passed
<1> QED
  BY <1>1, <1>2, <1>3, <1>4, <1>5, <1>6, <1>7, <1>8, <1>9 DEF StepGoroutine

(* The rows of the run and of the jobs, when Run stays where it is.        *)
LEMMA StillEnds ==
  ASSUME RunEnd, \A st \in Stages : JobEnd(st), UNCHANGED <<mainVars, runRow, jobRow>>,
         AllDone => AllDone', ctxDone => ctxDone',
         pc # "wait" => UNCHANGED stepRow
  PROVE  RunEnd' /\ \A st \in Stages : JobEnd(st)'
<1>1. RunEnd'
  BY DEF RunEnd, mainVars
<1>2. ASSUME NEW st \in Stages PROVE JobEnd(st)'
  BY DEF JobEnd, InStage, mainVars
<1> QED
  BY <1>1, <1>2

(* A goroutine writes its own step, while Run waits for it.                *)
LEMMA GoroutineKeepsEnds ==
  ASSUME Inv, Inv', RowInv, RowInv', ReturnInv, NEW s \in Steps, StepGoroutine(s)
  PROVE  ReturnInv'
<1>1. SUFFICES ASSUME faults' = 0 PROVE RunEnd' /\ (\A st \in Stages : JobEnd(st)') /\ (\A t \in Steps : StepEnd(t)')
  BY DEF ReturnInv
<1>2. /\ UNCHANGED <<mainVars, runRow, jobRow>> /\ Onward /\ \A t \in Steps : t # s => Untouched(t)
  BY StepFrame DEF Inv, OwnInv
<1>3. RunEnd /\ (\A st \in Stages : JobEnd(st)) /\ (\A t \in Steps : StepEnd(t))
  BY <1>1, <1>2 DEF ReturnInv, Onward
<1>4. \A t \in Steps : StepEnd(t)'
  BY <1>1, <1>2, <1>3, GoroutineEnds, UntouchedEnds DEF RowInv
<1>5. pc = "wait" \/ PollRetry(s)
  <2>1. InFlight(s)
    BY DEF StepGoroutine, CreateStep, StartStep, StartStepOr, Submit, SubmitOr, RecordExecution,
           PollDone, StopPolling, PollRetry, PollTick, Report, FinishStep, FinishStepAs, InFlight
  <2> QED
    BY <2>1 DEF Inv, OwnInv, FrontierInv
<1>6. pc # "wait" => UNCHANGED stepRow
  BY <1>5 DEF PollRetry, vars, dbVars
<1>7. pc = "wait" => ~(pc \in {"decide", "finalize", "returned"})
  OBVIOUS
<1>8. RunEnd' /\ \A st \in Stages : JobEnd(st)'
  <2>1. CASE pc = "wait"
    <3>1. RunEnd'
      BY <1>2, <2>1 DEF RunEnd, mainVars
    <3>2. ASSUME NEW st \in Stages PROVE JobEnd(st)'
      BY <1>2, <1>3, <2>1 DEF JobEnd, InStage, mainVars
    <3> QED
      BY <3>1, <3>2
  <2>2. CASE pc # "wait"
    <3>1. UNCHANGED vars
      BY <1>5, <2>2 DEF PollRetry
    <3>2. AllDone => AllDone'
      BY <3>1 DEF vars, dbVars, AllDone, Passed, Registered, Declared, Outputs
    <3> QED
      BY <1>2, <1>3, <1>6, <3>2, StillEnds DEF Onward
  <2> QED
    BY <2>1, <2>2
<1> QED
  BY <1>4, <1>8

(* The cluster and the caller; everybody else counts as a failure.         *)
LEMMA EnvironmentKeepsEnds ==
  ASSUME Inv, RowInv, ReturnInv,
         \/ \E s \in Steps : ClusterStep(s) \/ VanishJob(s)
         \/ CancelRun \/ Crash \/ Finished \/ UNCHANGED vars
  PROVE  ReturnInv'
<1>0. TypeOK /\ faults \in Nat /\ ctxDone \in BOOLEAN
  BY DEF Inv, OwnInv, TypeOK
<1>1. SUFFICES ASSUME faults' = 0 PROVE RunEnd' /\ (\A st \in Stages : JobEnd(st)') /\ (\A t \in Steps : StepEnd(t)')
  BY DEF ReturnInv
<1>2. ASSUME NEW s \in Steps, ClusterStep(s)
      PROVE  RunEnd' /\ (\A st \in Stages : JobEnd(st)') /\ (\A t \in Steps : StepEnd(t)')
  <2>1. UNCHANGED <<dbVars, mainVars, stepVars, ctxDone, faults>>
    BY <1>2 DEF ClusterStep
  <2>2. RunEnd /\ (\A st \in Stages : JobEnd(st)) /\ (\A t \in Steps : StepEnd(t))
    BY <1>1, <2>1 DEF ReturnInv
  <2>3. \A t \in Steps : /\ Passed(t) => Passed(t)'
                         /\ kjob[t] = NoJob => kjob'[t] = NoJob
    <3>1. PICK job \in ClusterMoves(kjob[s]) : kjob' = [kjob EXCEPT ![s] = job]
      BY <1>2 DEF ClusterStep
    <3>2. kjob[s] # NoJob /\ (kjob[s].pod = "exited0" => job.pod = "exited0")
      BY <1>0, <3>1 DEF ClusterMoves, Readable, NoJob, Jobs, Pods, TypeOK
    <3> QED
      BY <1>0, <3>1, <3>2 DEF Passed, TypeOK
  <2>4. AllDone => AllDone'
    <3>1. Registered' = Registered /\ Declared' = Declared
      BY <2>1 DEF Registered, Declared, Outputs, dbVars
    <3> QED
      BY <2>3, <3>1 DEF AllDone
  <2>5. ASSUME NEW t \in Steps PROVE StepEnd(t)'
    <3>1. StepEnd(t)
      BY <2>2
    <3>2. /\ Passed(t) => Passed(t)'
          /\ kjob[t] = NoJob => kjob'[t] = NoJob
      BY <2>3
    <3> QED
      BY <2>1, <3>1, <3>2 DEF StepEnd, InFlight, stepVars, dbVars
  <2> QED
    BY <2>1, <2>2, <2>4, <2>5, StillEnds DEF dbVars
<1>3. CASE CancelRun \/ Finished \/ UNCHANGED vars
  <2>1. UNCHANGED <<dbVars, kjob, mainVars, stepVars, faults>> /\ (ctxDone => ctxDone')
    <3>1. UNCHANGED <<dbVars, kjob, mainVars, stepVars, faults>>
      BY <1>3 DEF CancelRun, Finished, vars
    <3>2. ctxDone' = ctxDone \/ ctxDone' = TRUE
      BY <1>3 DEF CancelRun, Finished, vars
    <3>3. ctxDone => ctxDone'
      BY <1>0, <3>2, Zenon
    <3> QED
      BY <3>1, <3>3
  <2>2. RunEnd /\ (\A st \in Stages : JobEnd(st)) /\ (\A t \in Steps : StepEnd(t))
    BY <1>1, <2>1 DEF ReturnInv
  <2>3. AllDone => AllDone'
    BY <2>1 DEF AllDone, Registered, Declared, Outputs, Passed, dbVars
  <2>4. \A t \in Steps : StepEnd(t)'
    <3>1. ASSUME NEW t \in Steps PROVE StepEnd(t)'
      <4>1. StepEnd(t)
        BY <2>2
      <4> QED
        BY <2>1, <4>1 DEF StepEnd, InFlight, Passed, stepVars, dbVars
    <3> QED
      BY <3>1
  <2> QED
    BY <2>1, <2>2, <2>3, <2>4, StillEnds DEF dbVars
<1>4. (\E s \in Steps : VanishJob(s)) \/ Crash => FALSE
  BY <1>0, <1>1 DEF VanishJob, Crash, Fault
<1> QED
  BY <1>2, <1>3, <1>4

(* Run itself does nothing to the goroutines but start them.               *)
LEMMA MainFrame ==
  ASSUME TypeOK, Main
  PROVE  Onward /\ UNCHANGED <<ctxDone, kjob, stepRow, execRow>>
<1>1. faults' = faults \/ \E ctxBound, ok, done \in BOOLEAN : Call(ctxBound, ok, done)
  BY DEF Main, StartRun, CreateJob, StartJob, FinishJob, FinishJobUnder, Decide, Finalize,
         FinalizeUnder, LaunchBatch, JoinBatch, RegisterArtifact, RegisteredAll, ResolveArtifact
<1>2. UNCHANGED <<ctxDone, kjob, stepRow, execRow>>
  BY DEF Main, StartRun, CreateJob, StartJob, FinishJob, FinishJobUnder, Decide, Finalize,
         FinalizeUnder, LaunchBatch, JoinBatch, RegisterArtifact, RegisteredAll, ResolveArtifact, dbVars
<1> QED
  BY <1>1, <1>2, CallFact DEF Onward, TypeOK

(* A step that is launched has no row yet, the others are left alone.      *)
LEMMA MainKeepsStepEnds ==
  ASSUME Inv, RowInv', Main, NEW t \in Steps, StepEnd(t)
  PROVE  StepEnd(t)'
<1>1. TypeOK /\ Onward /\ UNCHANGED <<ctxDone, kjob, stepRow, execRow>>
  BY MainFrame DEF Inv, OwnInv
<1>2. CASE LaunchBatch
  <2>1. UNCHANGED <<stepErr, phase>> /\ stepPc'[t] \in {"create", stepPc[t]}
    BY <1>2 DEF LaunchBatch
  <2>2. CASE stepPc'[t] = "create"
    <3>1. stepRow'[t] = NoStepRow /\ execRow'[t] = NoExecRow
      BY <2>2 DEF RowInv, StepPart, StepRowPart, ExecRowPart
    <3> QED
      BY <2>2, <3>1 DEF StepEnd, NoStepRow, NoExecRow
  <2>3. CASE stepPc'[t] = stepPc[t]
    BY <1>1, <2>1, <2>3, UntouchedEnds DEF Untouched
  <2> QED
    BY <2>1, <2>2, <2>3
<1>3. CASE ~LaunchBatch
  <2>1. UNCHANGED stepVars
    BY <1>3 DEF Main, StartRun, CreateJob, StartJob, FinishJob, FinishJobUnder, Decide, Finalize,
           FinalizeUnder, JoinBatch, RegisterArtifact, RegisteredAll, ResolveArtifact
  <2> QED
    BY <1>1, <2>1, UntouchedEnds DEF Untouched, stepVars
<1> QED
  BY <1>2, <1>3

(* Where Run goes on, its own row and the rows of its jobs have come as    *)
(* far as its control.                                                     *)
LEMMA MainKeepsRunEnd ==
  ASSUME Inv, Inv', RowInv, RunEnd, Main, faults' = 0
  PROVE  RunEnd'
<1>0. TypeOK /\ ctxDone \in BOOLEAN /\ ctxDone' = ctxDone /\ EndInv' /\ RunRowInv /\ JobRowInv
  BY MainFrame DEF Inv, OwnInv, RowInv, TypeOK
<1>1. CASE StartRun
  <2>1. PICK ok \in BOOLEAN, done \in BOOLEAN :
          /\ Call(TRUE, ok, done)
          /\ runRow' = IF done THEN UpdateStatus(runRow, "running") ELSE runRow
          /\ IF ok THEN EnterStageAfter(0) /\ UNCHANGED failed
             ELSE pc' = "returned" /\ failed' = TRUE
    BY <1>1 DEF StartRun
  <2>2. pc = "start" /\ stage = 0 /\ runRow = NewRow /\ UNCHANGED jobRow
    BY <1>0, <1>1 DEF StartRun, RunRowInv, Inv, OwnInv, ControlInv
  <2>3. CASE ok
    <3>1. pc' \in {"decide", "createJob"}
      BY <2>1, <2>3 DEF EnterStageAfter
    <3> QED
      BY <1>0, <3>1 DEF RunEnd, EndInv
  <2>4. CASE ~ok
    <3>1. pc' = "returned" /\ failed' /\ ctxDone
      BY <1>0, <2>1, <2>4, CallUndisturbed
    <3>2. runRow'.status \in {"pending", "running"}
      BY <2>1, <2>2, StartedRow DEF NewRow, RunningRow
    <3>3. jobRow' = [st \in Stages |-> NoRow]
      <4>1. \A st \in Stages : jobRow[st] = NoRow
        BY <1>0, <2>2 DEF JobRowInv, Stages, Build, Test, Deploy
      <4> QED
        BY <1>0, <2>2, <4>1 DEF TypeOK
    <3> QED
      BY <1>0, <3>1, <3>2, <3>3 DEF RunEnd
  <2> QED
    BY <2>3, <2>4
<1>2. CASE Decide
  <2>1. /\ pc = "decide" /\ pc' = "finalize" /\ failed' = failed
        /\ verdict' = IF ctxDone THEN "canceled" ELSE IF failed THEN "failed" ELSE "success"
        /\ UNCHANGED <<artifacts, kjob>>
    BY <1>2 DEF Decide, dbVars
  <2>2. AllDone => AllDone'
    BY <1>0, <2>1, AllDoneKept
  <2> QED
    BY <1>0, <2>1, <2>2 DEF RunEnd
<1>3. CASE Finalize
  <2> DEFINE end == IF failed THEN "failed" ELSE "success"
  <2>1. PICK ok \in BOOLEAN, done \in BOOLEAN :
          /\ Call(FALSE, ok, done)
          /\ runRow' = IF done THEN UpdateStatus(runRow, verdict) ELSE runRow
    BY <1>3 DEF Finalize, FinalizeUnder
  <2>2. pc = "finalize" /\ pc' = "returned" /\ UNCHANGED <<failed, artifacts, kjob>>
    BY <1>3 DEF Finalize, FinalizeUnder
  <2>3. runRow = RunningRow
    BY <1>0, <2>2 DEF RunRowInv
  <2>4. runRow'.status = verdict
    <3>1. done
      BY <1>0, <2>1, CallUndisturbed
    <3> QED
      BY <2>1, <2>3, <3>1 DEF UpdateStatus, RunningRow
  <2>5. verdict = end \/ (ctxDone /\ verdict = "canceled")
    BY <2>2 DEF RunEnd
  <2>6. AllDone => AllDone'
    BY <1>0, <2>2, AllDoneKept
  <2> QED
    BY <1>0, <2>2, <2>4, <2>5, <2>6 DEF RunEnd
<1>4. CASE CreateJob \/ StartJob \/ FinishJob
  <2>1. pc' \in {"startJob", "decide", "resolve", "launch", "createJob"}
    BY <1>4 DEF CreateJob, StartJob, FinishJob, FinishJobUnder, EnterStageAfter
  <2> QED
    BY <1>0, <2>1 DEF RunEnd, EndInv
<1>5. CASE LaunchBatch \/ JoinBatch \/ RegisterArtifact \/ RegisteredAll \/ ResolveArtifact
  <2>1. pc' \in {"wait", "launch", "register", "finishJob"}
    BY <1>5 DEF LaunchBatch, JoinBatch, RegisterArtifact, RegisteredAll, ResolveArtifact, NextBatch
  <2> QED
    BY <2>1 DEF RunEnd
<1> QED
  BY <1>1, <1>2, <1>3, <1>4, <1>5 DEF Main

(* A job that Run has not entered has no steps.                            *)
LEMMA NoStepsYet ==
  ASSUME Inv, RowInv, pc \in {"createJob", "startJob"}, NEW s \in Steps, s[1] = stage
  PROVE  stepRow[s] = NoStepRow
<1>1. Advancing /\ ~InStage
  BY DEF Inv, OwnInv, ControlInv, Advancing, InStage
<1>2. Ahead(s)
  BY <1>1 DEF Ahead
<1> QED
  BY <1>1, <1>2 DEF Inv, OwnInv, FrontierInv, RowInv, StepPart, StepRowPart

(* Run creates, starts and finishes the job of the stage it is in; the     *)
(* jobs behind it are finished.                                            *)
LEMMA MainKeepsJobEnd ==
  ASSUME Inv, Inv', RowInv, Main, faults' = 0, NEW st \in Stages, JobEnd(st)
  PROVE  JobEnd(st)'
<1>0. /\ TypeOK /\ ctxDone' = ctxDone /\ UNCHANGED stepRow
      /\ ControlInv /\ RunRowInv /\ JobRowInv
  BY MainFrame DEF Inv, OwnInv, RowInv
<1>1. CASE StartRun
  <2>1. stage = 0 /\ jobRow' = jobRow
    BY <1>0, <1>1 DEF StartRun, ControlInv
  <2>2. jobRow[st] = NoRow
    BY <1>0, <2>1 DEF JobRowInv, Stages, Build, Test, Deploy
  <2> QED
    BY <2>1, <2>2 DEF JobEnd, NoRow
<1>2. CASE CreateJob \/ StartJob
  <2>1. PICK ok \in BOOLEAN, done \in BOOLEAN :
          /\ Call(TRUE, ok, done)
          /\ ok => pc' = "startJob" \/ InStage'
          /\ ~ok => pc' = "decide" /\ failed'
          /\ st # stage => jobRow'[st] = jobRow[st]
    BY <1>0, <1>2 DEF CreateJob, StartJob, InStage, TypeOK
  <2>2. pc \in {"createJob", "startJob"} /\ stage' = stage
    BY <1>2 DEF CreateJob, StartJob
  <2>3. ~ok => ctxDone
    BY <1>0, <2>1, CallUndisturbed
  <2>4. CASE st = stage
    <3>1. \A s \in Steps : s[1] = st => stepRow[s] = NoStepRow
      BY <2>2, <2>4, NoStepsYet
    <3> QED
      BY <1>0, <2>1, <2>2, <2>3, <2>4, <3>1 DEF JobEnd
  <2>5. CASE st # stage
    <3>1. jobRow[st].status \notin {"pending", "running"}
      BY <2>2, <2>5 DEF JobEnd
    <3> QED
      BY <2>1, <2>5, <3>1 DEF JobEnd
  <2> QED
    BY <2>4, <2>5
<1>3. CASE FinishJob
  <2> DEFINE end == IF failed THEN "failed" ELSE "succeeded"
  <2>1. PICK ok \in BOOLEAN, done \in BOOLEAN :
          /\ Call(FALSE, ok, done)
          /\ jobRow' = IF done THEN [jobRow EXCEPT ![stage] = UpdateStatus(@, end)] ELSE jobRow
    BY <1>3 DEF FinishJob, FinishJobUnder
  <2>2. pc = "finishJob" /\ stage \in Stages /\ jobRow[stage] = RunningRow
    BY <1>0, <1>3 DEF FinishJob, FinishJobUnder, ControlInv, JobRowInv, InStage
  <2>3. done
    BY <1>0, <2>1, CallUndisturbed
  <2>4. CASE st = stage
    <3>1. jobRow'[st] = UpdateStatus(RunningRow, end)
      BY <1>0, <2>1, <2>2, <2>3, <2>4 DEF TypeOK
    <3>2. jobRow'[st].status \in {"failed", "succeeded"}
      BY <3>1 DEF UpdateStatus, RunningRow
    <3> QED
      BY <3>2 DEF JobEnd
  <2>5. CASE st # stage
    <3>1. jobRow'[st] = jobRow[st]
      BY <1>0, <2>1, <2>5 DEF TypeOK
    <3>2. jobRow[st].status \notin {"pending", "running"}
      BY <2>2, <2>5 DEF JobEnd
    <3> QED
      BY <3>1, <3>2 DEF JobEnd
  <2> QED
    BY <2>4, <2>5
<1>4. CASE Decide \/ Finalize
  <2>1. /\ UNCHANGED <<jobRow, stage, failed>> /\ pc \in {"decide", "finalize"}
        /\ pc' \in {"finalize", "returned"}
    BY <1>4 DEF Decide, Finalize, FinalizeUnder, dbVars
  <2> QED
    BY <1>0, <2>1 DEF JobEnd, InStage
<1>5. CASE LaunchBatch \/ JoinBatch \/ RegisterArtifact \/ RegisteredAll \/ ResolveArtifact
  <2>1. InStage /\ InStage' /\ UNCHANGED <<jobRow, stage>>
    BY <1>5 DEF LaunchBatch, JoinBatch, RegisterArtifact, RegisteredAll, ResolveArtifact,
                NextBatch, InStage, dbVars
  <2> QED
    BY <2>1 DEF JobEnd, InStage
<1> QED
  BY <1>1, <1>2, <1>3, <1>4, <1>5 DEF Main

(* Without failures every row has come as far as the control says.         *)
LEMMA NextKeepsEnds ==
  ASSUME Inv, Inv', RowInv, RowInv', ReturnInv, [Next]_vars
  PROVE  ReturnInv'
<1>1. CASE Main
  <2>1. SUFFICES ASSUME faults' = 0
                 PROVE  RunEnd' /\ (\A st \in Stages : JobEnd(st)') /\ (\A t \in Steps : StepEnd(t)')
    BY DEF ReturnInv
  <2>2. faults = 0
    BY <1>1, <2>1, MainFrame DEF Inv, OwnInv, Onward
  <2> QED
    BY <1>1, <2>1, <2>2, MainKeepsRunEnd, MainKeepsJobEnd, MainKeepsStepEnds DEF ReturnInv
<1> QED
  BY <1>1, GoroutineKeepsEnds, EnvironmentKeepsEnds DEF Next

-----------------------------------------------------------------------------
(* The theorems.                                                           *)

(* At the start there is nothing to be in order but the run's own row.     *)
LEMMA InitResult == Init => ResultInv /\ DeploysFirstDeclared
<1> SUFFICES ASSUME Init PROVE ResultInv /\ DeploysFirstDeclared
  OBVIOUS
<1>1. ArtifactInv /\ DeploysFirstDeclared
  BY DEF Init, ArtifactInv, Registered, DeploysFirstDeclared
<1>2. GroupInv
  BY DEF Init, GroupInv, GroupPart, NoStepRow
<1>3. ReturnInv
  BY DEF Init, ReturnInv, RunEnd, JobEnd, StepEnd, NoRow, NoStepRow, NoExecRow
<1> QED
  BY <1>1, <1>2, <1>3 DEF ResultInv

(* ResultInv is inductive relative to Inv and RowInv.                      *)
LEMMA NextKeepsResult ==
  Inv /\ RowInv /\ ResultInv /\ [Next]_vars => Inv' /\ RowInv' /\ ResultInv'
<1> SUFFICES ASSUME Inv, Inv', RowInv, RowInv', ResultInv, [Next]_vars PROVE ResultInv'
  BY NextKeeps, NextKeepsRows
<1> QED
  BY NextKeepsArtifacts, NextKeepsGroups, NextKeepsEnds DEF ResultInv

(* What stands in the rows and how far they have come, at every point of   *)
(* Run.                                                                    *)
THEOREM ResultInvariance == Spec => [](Inv /\ RowInv /\ ResultInv)
  BY InitInv, InitRows, InitResult, NextKeepsResult, PTL DEF Spec

(* The deploy stage takes the first output of the wanted type in the order *)
(* of the configuration (Deployinator.Run over ArtifactStore.GetByJobID).  *)
THEOREM FirstDeclaredIsDeployed == Spec => []DeploysFirstDeclared
<1>1. /\ Inv /\ Inv' /\ ResultInv /\ DeploysFirstDeclared /\ [Next]_vars => DeploysFirstDeclared'
  BY NextKeepsDeployed DEF ResultInv
<1>2. Init => DeploysFirstDeclared
  BY InitResult
<1> QED
  BY <1>1, <1>2, ResultInvariance, PTL DEF Spec

(* Steps overlap only within a parallel block, and parallel_group tells    *)
(* the blocks of a stage apart (testinator.Run, runParallel).              *)
THEOREM GroupsNameBlocks == Spec => []GroupsAreBlocks
<1>1. Inv /\ ResultInv => GroupsAreBlocks
  BY GroupsTellBlocks, OverlapInBlock DEF Inv, OwnInv, ResultInv, GroupsAreBlocks
<1> QED
  BY <1>1, ResultInvariance, PTL

(* Without failed calls, what Run returns agrees with every row: whatever  *)
(* is left unfinished was cut off by a cancellation (Run, runStage,        *)
(* runStep, poll).                                                         *)
THEOREM ReturnTellsTheRows == Spec => []ReturnAgrees
<1>1. Inv /\ RowInv /\ ResultInv => ReturnAgrees
  <2> SUFFICES ASSUME Inv, RowInv, ResultInv, pc = "returned", faults = 0
               PROVE  ReturnAgrees
    BY DEF ReturnAgrees
  <2> DEFINE end == IF failed THEN "failed" ELSE "success"
  <2>1. RunEnd /\ (\A st \in Stages : JobEnd(st)) /\ (\A s \in Steps : StepEnd(s)) /\ ~InStage
    BY DEF ResultInv, ReturnInv, InStage
  <2>2. \A s \in Steps : ~InFlight(s)
    BY DEF Inv, OwnInv, FrontierInv
  <2>3. ctxDone \in BOOLEAN /\ failed \in BOOLEAN /\ end \notin {"pending", "running"}
    BY DEF Inv, OwnInv, TypeOK
  <2>4. /\ runRow.status \in
             IF ctxDone THEN {"pending", "running", "canceled", end} ELSE {end}
        /\ runRow.status \in {"pending", "running"} => failed /\ jobRow = [st \in Stages |-> NoRow]
    BY <2>1, <2>3 DEF RunEnd
  <2>5. ASSUME NEW st \in Stages, jobRow[st].status \in {"pending", "running"}
        PROVE  ctxDone /\ failed /\ \A s \in Steps : s[1] = st => stepRow[s].status = "absent"
    BY <2>1, <2>5 DEF JobEnd, NoStepRow
  <2>6. ASSUME NEW s \in Steps, stepRow[s].status \in {"pending", "running"}
        PROVE  ctxDone /\ failed /\ kjob[s] = NoJob
    <3>1. ctxDone /\ kjob[s] = NoJob
      BY <2>1, <2>2, <2>6 DEF StepEnd
    <3>2. ~Passed(s)
      BY <3>1 DEF Passed, NoJob
    <3> QED
      BY <2>1, <3>1, <3>2 DEF RunEnd, AllDone
  <2>7. ASSUME NEW s \in Steps, execRow[s].status \in {"pending", "running"}
        PROVE  ctxDone /\ (kjob[s].deleted \/ stepRow[s].status = "failed" \/ Passed(s))
    BY <2>1, <2>2, <2>7 DEF StepEnd, InFlight
  <2> QED
    BY <2>4, <2>5, <2>6, <2>7 DEF ReturnAgrees
<1> QED
  BY <1>1, ResultInvariance, PTL
=============================================================================
