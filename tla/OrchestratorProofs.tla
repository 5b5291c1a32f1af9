------------------------- MODULE OrchestratorProofs -------------------------
(***************************************************************************)
(* Theorems about one call of Orchestrator.Run, for every configuration of *)
(* a pipeline and every bound on the failures of its environment.          *)
(***************************************************************************)
EXTENDS OrchestratorInvariant, TLAPS

USE FaultAssumption DEF FaultAssumption

-----------------------------------------------------------------------------
(* The operators the actions are built from.                               *)

RunRow  == [status : RunStates, started : BOOLEAN, finished : BOOLEAN]
StepRow == [status : StageStates \cup {"absent"}, started : BOOLEAN,
            finished : BOOLEAN, group : Nat]
ExecRow == [status : Phases \cup {"absent"}, completed : BOOLEAN]

(* UpdateStatus keeps rows of runs, jobs and steps in their types.         *)
LEMMA UpdateRunType ==
  ASSUME NEW row \in RunRow, NEW st \in RunStates
  PROVE  UpdateStatus(row, st) \in RunRow
  BY DEF UpdateStatus, RunRow, RunStates, SetsStarted, SetsFinished

LEMMA UpdateJobType ==
  ASSUME NEW row \in Rows, NEW st \in StageStates
  PROVE  UpdateStatus(row, st) \in Rows
  BY DEF UpdateStatus, Rows, StageStates, SetsStarted, SetsFinished

LEMMA UpdateStepType ==
  ASSUME NEW row \in StepRow, NEW st \in StageStates
  PROVE  UpdateStatus(row, st) \in StepRow
  BY DEF UpdateStatus, StepRow, StageStates, SetsStarted, SetsFinished

LEMMA UpdateExecType ==
  ASSUME NEW row \in ExecRow, NEW p \in Phases
  PROVE  UpdateExecution(row, p) \in ExecRow
  BY DEF UpdateExecution, ExecRow, Phases, SetsFinished

(* A Status call reports a phase, and the cluster keeps Jobs well formed.  *)
LEMMA PhaseType ==
  ASSUME NEW job
  PROVE  jobToStatus(job) \in Phases
  BY DEF jobToStatus, Phases

LEMMA CancelJobType ==
  ASSUME NEW job \in Jobs
  PROVE  CancelJob(job) \in Jobs
  BY DEF CancelJob, Jobs

LEMMA ClusterMovesType ==
  ASSUME NEW job \in Jobs, NEW next \in ClusterMoves(job)
  PROVE  next \in Jobs
  BY DEF Jobs, Pods, ClusterMoves, Readable


-----------------------------------------------------------------------------
(* Type correctness.                                                       *)

LEMMA InitType == Init => TypeOK
<1> SUFFICES ASSUME Init PROVE TypeOK
  OBVIOUS
<1>1. runRow \in RunRow
  BY DEF Init, NewRow, RunRow, RunStates
<1>2. jobRow \in [Stages -> Rows]
  BY DEF Init, NoRow, Rows, StageStates
<1>3. stepRow \in [Steps -> StepRow]
  BY DEF Init, NoStepRow, StepRow, StageStates
<1>4. execRow \in [Steps -> ExecRow]
  BY DEF Init, NoExecRow, ExecRow
<1>5. kjob \in [Steps -> Jobs]
  BY DEF Init, NoJob, Jobs, Pods
<1>6. artifacts \in Seq(Nat \X Nat) /\ deployed \in Nat \X Nat
  BY DEF Init, NoArtifactRow
<1>7. stepPc \in [Steps -> {"idle", "create", "start", "submit", "record", "poll", "report",
                          "finish", "done", "dead"}]
  BY DEF Init
<1>8. stepErr \in [Steps -> BOOLEAN] /\ phase \in [Steps -> Phases]
  BY DEF Init, Phases
<1>9. pc = "start" /\ stage = 0 /\ cursor \in Nat /\ out \in Nat /\ faults \in 0..MaxFaults
  BY DEF Init
<1>10. failed \in BOOLEAN /\ ctxDone \in BOOLEAN /\ verdict \in RunStates
  BY DEF Init, RunStates
<1> QED
  BY <1>1, <1>2, <1>3, <1>4, <1>5, <1>6, <1>7, <1>8, <1>9, <1>10
  DEF TypeOK, RunRow, StepRow, ExecRow

(* Run's own steps keep the types.                                         *)
LEMMA EnterStageType ==
  ASSUME TypeOK, NEW st, EnterStageAfter(st)
  PROVE  pc' \in {"decide", "createJob"} /\ stage' \in Stages \cup {0}
  BY DEF EnterStageAfter, TypeOK

LEMMA NextBatchType ==
  ASSUME TypeOK, NextBatch
  PROVE  pc' \in {"launch", "finishJob"} /\ cursor' \in Nat
  BY DEF NextBatch, TypeOK

LEMMA MainType ==
  ASSUME TypeOK, Main
  PROVE  TypeOK'
<1> USE DEF RunRow, mainVars, dbVars, stepVars
<1>1. CASE StartRun
  <2>1. PICK ok \in BOOLEAN, done \in BOOLEAN :
          /\ Call(TRUE, ok, done)
          /\ runRow' = IF done THEN UpdateStatus(runRow, "running") ELSE runRow
          /\ IF ok THEN EnterStageAfter(0) /\ UNCHANGED failed
             ELSE pc' = "returned" /\ failed' = TRUE /\ UNCHANGED stage
    BY <1>1 DEF StartRun
  <2>2. runRow' \in RunRow
    BY <2>1, UpdateRunType DEF TypeOK, RunStates
  <2>3. faults' \in 0..MaxFaults
    BY <2>1 DEF Call, Fault, TypeOK
  <2> QED
    BY <1>1, <2>1, <2>2, <2>3, EnterStageType DEF StartRun, TypeOK
<1>2. CASE CreateJob
  <2>1. PICK ok \in BOOLEAN, done \in BOOLEAN :
          /\ Call(TRUE, ok, done)
          /\ jobRow' = IF done THEN [jobRow EXCEPT ![stage] = NewRow] ELSE jobRow
          /\ pc' = IF ok THEN "startJob" ELSE "decide"
          /\ failed' = ~ok
    BY <1>2 DEF CreateJob
  <2>2. jobRow' \in [Stages -> Rows]
    BY <2>1 DEF TypeOK, NewRow, Rows, StageStates
  <2>3. faults' \in 0..MaxFaults
    BY <2>1 DEF Call, Fault, TypeOK
  <2> QED
    BY <1>2, <2>1, <2>2, <2>3 DEF CreateJob, TypeOK
<1>3. CASE StartJob
  <2>1. PICK ok \in BOOLEAN, done \in BOOLEAN :
          /\ Call(TRUE, ok, done)
          /\ jobRow' = IF done THEN [jobRow EXCEPT ![stage] = UpdateStatus(@, "running")] ELSE jobRow
          /\ pc' = IF ~ok THEN "decide" ELSE IF stage = Deploy THEN "resolve" ELSE "launch"
          /\ failed' = ~ok
    BY <1>3 DEF StartJob
  <2>2. jobRow' \in [Stages -> Rows]
    BY <2>1, UpdateJobType DEF TypeOK, StageStates
  <2>3. faults' \in 0..MaxFaults
    BY <2>1 DEF Call, Fault, TypeOK
  <2> QED
    BY <1>3, <2>1, <2>2, <2>3 DEF StartJob, TypeOK
<1>4. CASE FinishJob
  <2> DEFINE end == IF failed THEN "failed" ELSE "succeeded"
  <2>1. PICK ok \in BOOLEAN, done \in BOOLEAN :
          /\ Call(FALSE, ok, done)
          /\ jobRow' = IF done THEN [jobRow EXCEPT ![stage] = UpdateStatus(@, end)] ELSE jobRow
    BY <1>4 DEF FinishJob, FinishJobUnder
  <2>2. end \in StageStates
    BY DEF StageStates
  <2> HIDE DEF end
  <2>3. jobRow' \in [Stages -> Rows]
    BY <2>1, <2>2, UpdateJobType DEF TypeOK
  <2>4. faults' \in 0..MaxFaults
    BY <2>1 DEF Call, Fault, TypeOK
  <2> QED
    BY <1>4, <2>3, <2>4, EnterStageType DEF FinishJob, FinishJobUnder, TypeOK
<1>5. CASE Decide
  BY <1>5 DEF Decide, TypeOK, RunStates
<1>6. CASE Finalize
  <2>1. PICK ok \in BOOLEAN, done \in BOOLEAN :
          /\ Call(FALSE, ok, done)
          /\ runRow' = IF done THEN UpdateStatus(runRow, verdict) ELSE runRow
    BY <1>6 DEF Finalize, FinalizeUnder
  <2>2. runRow' \in RunRow
    BY <2>1, UpdateRunType DEF TypeOK
  <2>3. faults' \in 0..MaxFaults
    BY <2>1 DEF Call, Fault, TypeOK
  <2> QED
    BY <1>6, <2>2, <2>3 DEF Finalize, FinalizeUnder, TypeOK
<1>7. CASE LaunchBatch
  BY <1>7 DEF LaunchBatch, TypeOK
<1>8. CASE JoinBatch
  <2>1. pc' \in {"finishJob", "register", "launch"} /\ failed' \in BOOLEAN
    BY <1>8, NextBatchType DEF JoinBatch, TypeOK
  <2>2. cursor' \in Nat /\ out' \in Nat
    BY <1>8, NextBatchType DEF JoinBatch, TypeOK
  <2> QED
    BY <1>8, <2>1, <2>2 DEF JoinBatch, TypeOK
<1>9. CASE RegisterArtifact
  <2>1. PICK ok \in BOOLEAN, done \in BOOLEAN :
          /\ Call(TRUE, ok, done)
          /\ artifacts' = IF done THEN Append(artifacts, <<cursor, out>>) ELSE artifacts
          /\ IF ok THEN out' = out + 1 /\ UNCHANGED <<pc, failed>>
             ELSE pc' = "finishJob" /\ failed' = TRUE /\ UNCHANGED out
    BY <1>9 DEF RegisterArtifact
  <2>2. artifacts' \in Seq(Nat \X Nat)
    <3>1. <<cursor, out>> \in Nat \X Nat
      BY DEF TypeOK
    <3>2. ASSUME NEW x \in Nat \X Nat PROVE Append(artifacts, x) \in Seq(Nat \X Nat)
      BY DEF TypeOK
    <3> QED
      BY <2>1, <3>1, <3>2 DEF TypeOK
  <2>3. faults' \in 0..MaxFaults
    BY <2>1 DEF Call, Fault, TypeOK
  <2>4. pc' \in {"finishJob", "register"} /\ failed' \in BOOLEAN
    <3>1. CASE ok
      BY <1>9, <2>1, <3>1 DEF RegisterArtifact, TypeOK
    <3>2. CASE ~ok
      BY <2>1, <3>2
    <3> QED
      BY <3>1, <3>2
  <2>5. out' \in Nat
    BY <2>1 DEF TypeOK
  <2> QED
    BY <1>9, <2>2, <2>3, <2>4, <2>5 DEF RegisterArtifact, TypeOK
<1>10. CASE RegisteredAll
  BY <1>10, NextBatchType DEF RegisteredAll, TypeOK
<1>11. CASE ResolveArtifact
  <2>1. PICK ok \in BOOLEAN, done \in BOOLEAN :
          /\ Call(TRUE, ok, done)
          /\ IF ok /\ Matches # {}
             THEN /\ \E k \in Matches : FirstMatch(k) /\ deployed' = artifacts[k]
                  /\ pc' = "launch"
                  /\ UNCHANGED failed
             ELSE pc' = "finishJob" /\ failed' = TRUE /\ UNCHANGED deployed
    BY <1>11 DEF ResolveArtifact
  <2>2. \A k \in Matches : artifacts[k] \in Nat \X Nat
    BY DEF Matches, TypeOK
  <2>3. faults' \in 0..MaxFaults
    BY <2>1 DEF Call, Fault, TypeOK
  <2>4. pc' \in {"launch", "finishJob"} /\ failed' \in BOOLEAN
    BY <2>1 DEF TypeOK
  <2>5. deployed' \in Nat \X Nat
    BY <2>1, <2>2 DEF TypeOK
  <2> QED
    BY <1>11, <2>3, <2>4, <2>5 DEF ResolveArtifact, TypeOK
<1> QED
  BY <1>1, <1>2, <1>3, <1>4, <1>5, <1>6, <1>7, <1>8, <1>9, <1>10, <1>11 DEF Main

(* So do the steps of a step's goroutine.                                  *)
LEMMA StepType ==
  ASSUME TypeOK, NEW s \in Steps, StepGoroutine(s)
  PROVE  TypeOK'
<1> USE DEF StepRow, ExecRow, mainVars, dbVars, stepVars
<1>1. CASE CreateStep(s)
  <2>1. BatchGroup \in Nat
    BY DEF BatchGroup, TypeOK
  <2>2. NewStepRow(BatchGroup) \in StepRow
    BY <2>1 DEF NewStepRow, StageStates
  <2>3. stepRow' \in [Steps -> StepRow]
    BY <1>1, <2>2 DEF CreateStep, TypeOK
  <2>4. faults' \in 0..MaxFaults
    BY <1>1 DEF CreateStep, Call, Fault, TypeOK
  <2>5. stepErr' \in [Steps -> BOOLEAN]
    BY <1>1 DEF CreateStep, TypeOK
  <2> QED
    BY <1>1, <2>3, <2>4, <2>5 DEF CreateStep, TypeOK
<1>2. CASE StartStep(s)
  <2>1. UpdateStatus(stepRow[s], "running") \in StepRow
    BY UpdateStepType DEF TypeOK, StageStates
  <2>2. stepRow' \in [Steps -> StepRow]
    BY <1>2, <2>1 DEF StartStep, StartStepOr, TypeOK
  <2>3. faults' \in 0..MaxFaults
    BY <1>2 DEF StartStep, StartStepOr, Call, Fault, TypeOK
  <2>4. stepErr' \in [Steps -> BOOLEAN]
    BY <1>2 DEF StartStep, StartStepOr, TypeOK
  <2> QED
    BY <1>2, <2>2, <2>3, <2>4 DEF StartStep, StartStepOr, TypeOK
<1>3. CASE Submit(s)
  <2>1. kjob' \in [Steps -> Jobs]
    BY <1>3 DEF Submit, SubmitOr, SubmittedJob, Jobs, Pods, TypeOK
  <2>2. faults' \in 0..MaxFaults
    BY <1>3 DEF Submit, SubmitOr, Call, Fault, TypeOK
  <2>3. stepErr' \in [Steps -> BOOLEAN]
    BY <1>3 DEF Submit, SubmitOr, TypeOK
  <2> QED
    BY <1>3, <2>1, <2>2, <2>3 DEF Submit, SubmitOr, TypeOK
<1>4. CASE RecordExecution(s)
  <2>1. execRow' \in [Steps -> ExecRow]
    BY <1>4 DEF RecordExecution, NewExecRow, Phases, TypeOK
  <2>2. faults' \in 0..MaxFaults
    BY <1>4 DEF RecordExecution, Call, Fault, TypeOK
  <2>3. stepErr' \in [Steps -> BOOLEAN]
    BY <1>4 DEF RecordExecution, TypeOK
  <2> QED
    BY <1>4, <2>1, <2>2, <2>3 DEF RecordExecution, TypeOK
<1>5. CASE PollDone(s)
  <2>1. CancelJob(kjob[s]) \in Jobs
    BY CancelJobType DEF TypeOK
  <2>2. kjob' \in [Steps -> Jobs]
    BY <1>5, <2>1 DEF PollDone, StopPolling, TypeOK
  <2>3. faults' \in 0..MaxFaults
    BY <1>5 DEF PollDone, StopPolling, Call, Fault, TypeOK
  <2>4. stepErr' \in [Steps -> BOOLEAN]
    BY <1>5 DEF PollDone, StopPolling, TypeOK
  <2> QED
    BY <1>5, <2>2, <2>3, <2>4 DEF PollDone, StopPolling, TypeOK
<1>6. CASE PollRetry(s)
  BY <1>6 DEF PollRetry, TypeOK, vars
<1>7. CASE PollTick(s)
  <2>1. phase' \in [Steps -> Phases]
    BY <1>7, PhaseType DEF PollTick, TypeOK
  <2> QED
    BY <1>7, <2>1 DEF PollTick, TypeOK
<1>8. CASE Report(s)
  <2>1. UpdateExecution(execRow[s], phase[s]) \in ExecRow
    BY UpdateExecType DEF TypeOK
  <2>2. execRow' \in [Steps -> ExecRow]
    BY <1>8, <2>1 DEF Report, TypeOK
  <2>3. faults' \in 0..MaxFaults
    BY <1>8 DEF Report, Call, Fault, TypeOK
  <2>4. stepErr' \in [Steps -> BOOLEAN]
    BY <1>8 DEF Report, PhaseIsError, TypeOK
  <2> QED
    BY <1>8, <2>2, <2>3, <2>4 DEF Report, TypeOK
<1>9. CASE FinishStep(s)
  <2> DEFINE end == IF stepErr[s] THEN "failed" ELSE "succeeded"
  <2>1. end \in StageStates
    BY DEF StageStates
  <2>2. UpdateStatus(stepRow[s], end) \in StepRow
    BY <2>1, UpdateStepType DEF TypeOK
  <2>3. stepRow' \in [Steps -> StepRow]
    BY <1>9, <2>2 DEF FinishStep, FinishStepAs, TypeOK
  <2>4. faults' \in 0..MaxFaults
    BY <1>9 DEF FinishStep, FinishStepAs, Call, Fault, TypeOK
  <2> QED
    BY <1>9, <2>3, <2>4 DEF FinishStep, FinishStepAs, TypeOK
<1> QED
  BY <1>1, <1>2, <1>3, <1>4, <1>5, <1>6, <1>7, <1>8, <1>9 DEF StepGoroutine

(* And so do the surroundings.                                             *)
LEMMA EnvironmentType ==
  ASSUME TypeOK,
         \/ \E s \in Steps : ClusterStep(s) \/ VanishJob(s)
         \/ CancelRun \/ Crash \/ Finished
  PROVE  TypeOK'
<1> USE DEF mainVars, dbVars, stepVars
<1>1. ASSUME NEW s \in Steps, ClusterStep(s) PROVE TypeOK'
  <2>1. kjob' \in [Steps -> Jobs]
    BY <1>1, ClusterMovesType DEF ClusterStep, TypeOK
  <2> QED
    BY <1>1, <2>1 DEF ClusterStep, TypeOK
<1>2. ASSUME NEW s \in Steps, VanishJob(s) PROVE TypeOK'
  <2>1. kjob' \in [Steps -> Jobs]
    BY <1>2, CancelJobType DEF VanishJob, TypeOK
  <2> QED
    BY <1>2, <2>1 DEF VanishJob, Fault, TypeOK
<1>3. CASE CancelRun
  BY <1>3 DEF CancelRun, TypeOK
<1>4. CASE Crash
  BY <1>4 DEF Crash, Fault, TypeOK
<1>5. CASE Finished
  BY <1>5 DEF Finished, vars, TypeOK
<1> QED
  BY <1>1, <1>2, <1>3, <1>4, <1>5

LEMMA TypeStep == TypeOK /\ [Next]_vars => TypeOK'
<1>1. ASSUME TypeOK, UNCHANGED vars PROVE TypeOK'
  BY <1>1 DEF vars, dbVars, mainVars, stepVars, TypeOK
<1> QED
  BY <1>1, MainType, StepType, EnvironmentType DEF Next

(* Every row always holds a state of its own machine, whatever fails: runs *)
(* never a stage's "succeeded", jobs and steps never a run's "success".    *)
THEOREM TypeCorrect == Spec => []TypeOK
  BY InitType, TypeStep, PTL DEF Spec

-----------------------------------------------------------------------------
(* The order of the configuration.                                         *)

LEMMA StepCountType == \A st \in Stages : StepCount(st) \in Nat
  BY ConfigAssumption DEF ConfigAssumption, StepCount, Stages, Build, Test, Deploy

LEMMA StepFact ==
  ASSUME NEW s \in Steps
  PROVE  /\ s[1] \in Stages
         /\ s[2] \in 1..StepCount(s[1])
         /\ s = <<s[1], s[2]>>
  BY DEF Steps

LEMMA StepFrom ==
  ASSUME NEW st \in Stages, NEW i \in 1..StepCount(st)
  PROVE  <<st, i>> \in Steps
  BY DEF Steps

(* A batch starts with its first step, has no gaps, and ends within the    *)
(* stage; two of its steps are of one block.                               *)
LEMMA BatchFact ==
  ASSUME NEW st \in Stages, NEW i \in 1..StepCount(st)
  PROVE  /\ i \in Batch(st, i)
         /\ \A j \in Batch(st, i) : j \in i..StepCount(st)
         /\ \A j \in Batch(st, i) : \A k \in i..j : k \in Batch(st, i)
         /\ \A j \in Batch(st, i) : \A k \in i..j :
              k = j \/ SameBlock(<<st, k>>, <<st, j>>)
<1>1. StepCount(st) \in Nat /\ i \in Nat
  BY StepCountType
<1>2. CASE st = Test /\ TestSteps[i]
  <2>1. StepCount(st) = Len(TestSteps)
    BY <1>2 DEF StepCount, Build, Test
  <2>2. Batch(st, i) = {j \in i..Len(TestSteps) : \A k \in i..j : TestSteps[k]}
    BY <1>2 DEF Batch
  <2>3. ASSUME NEW j \in Batch(st, i), NEW k \in i..j
        PROVE  k = j \/ SameBlock(<<st, k>>, <<st, j>>)
    <3>1. \A m \in k..j : TestSteps[m]
      BY <1>1, <2>2, <2>3
    <3>2. k # j => \A m \in j..k : TestSteps[m]
      BY <1>1, <2>2, <2>3
    <3> QED
      BY <1>2, <3>1, <3>2 DEF SameBlock
  <2> QED
    BY <1>1, <1>2, <2>1, <2>2, <2>3
<1>3. CASE ~(st = Test /\ TestSteps[i])
  <2>1. Batch(st, i) = {i}
    BY <1>3 DEF Batch
  <2> QED
    BY <1>1, <2>1
<1> QED
  BY <1>2, <1>3

(* What comes before a step of the current batch is behind the frontier.   *)
LEMMA BeforeIsPast ==
  ASSUME TypeOK, pc = "wait", stage \in Stages, cursor \in 1..StepCount(stage),
         NEW s \in Steps, s \in InBatch, NEW t \in Steps, Before(t, s)
  PROVE  Past(t)
<1>1. s[1] = stage /\ s[2] \in Batch(stage, cursor) /\ InStage
  BY DEF InBatch, InStage
<1>2. CASE t[1] < s[1]
  BY <1>1, <1>2 DEF Past
<1>3. CASE t[1] = s[1] /\ t[2] < s[2] /\ ~SameBlock(t, s)
  <2>1. t[2] \in Nat /\ s[2] \in Nat /\ t = <<t[1], t[2]>> /\ s = <<s[1], s[2]>>
    BY StepFact, StepCountType
  <2>2. SUFFICES ASSUME ~(t[2] < cursor) PROVE FALSE
    BY <1>1, <1>3 DEF Past
  <2>3. t[2] \in cursor..s[2] /\ t[2] # s[2]
    BY <1>3, <2>1, <2>2 DEF TypeOK
  <2>4. SameBlock(<<stage, t[2]>>, <<stage, s[2]>>)
    BY <1>1, <2>3, BatchFact
  <2> QED
    BY <1>1, <1>3, <2>1, <2>4
<1> QED
  BY <1>2, <1>3 DEF Before

-----------------------------------------------------------------------------
(* Steps that leave the control of Run alone.                              *)

(* What a move of the cluster or of a step's goroutine keeps.              *)
Quiet ==
  /\ UNCHANGED <<mainVars, jobRow, artifacts>>
  /\ \A t \in Steps : Passed(t) => Passed(t)'
  /\ \A t \in Steps : stepPc[t] = "idle" => stepPc'[t] = "idle"
  /\ \A t \in Steps : InFlight(t)' => InFlight(t)

LEMMA QuietKeeps ==
  ASSUME TypeOK, ControlInv, FrontierInv, EndInv, Quiet
  PROVE  ControlInv' /\ FrontierInv' /\ EndInv'
<1> USE DEF Quiet, mainVars
<1>1. ControlInv'
  BY DEF ControlInv, InStage, Advancing
<1>2. AllDone => AllDone'
  BY DEF AllDone, Registered, Declared, Outputs
<1>3. EndInv'
  BY <1>2 DEF EndInv
<1>4. /\ Registered' = Registered /\ InBatch' = InBatch
      /\ (Advancing' <=> Advancing) /\ (InStage' <=> InStage)
      /\ \A t : Outputs(t)' = Outputs(t)
  BY DEF Registered, InBatch, Advancing, InStage, Outputs, Batch
<1>5. \A t \in Steps : (Past(t)' <=> Past(t)) /\ (Ahead(t)' <=> Ahead(t))
  BY <1>4 DEF Past, Ahead
<1>6. \A s \in Steps : InFlight(s)' => (pc = "wait" /\ s \in InBatch)'
  BY <1>4 DEF FrontierInv
<1>7. (pc = "start" => \A t \in Steps : stepPc[t] = "idle")'
  BY DEF FrontierInv
<1>8. (Advancing => \A t \in Steps :
         /\ Past(t) => Passed(t)
         /\ Past(t) /\ t[1] = Build => Outputs(t[2]) \subseteq Registered
         /\ Ahead(t) => stepPc[t] = "idle")'
  BY <1>4, <1>5 DEF FrontierInv
<1>9. (pc = "register" =>
         /\ Passed(<<Build, cursor>>)
         /\ \A j \in 1..Len(BuildSteps[cursor]) : j < out => <<cursor, j>> \in Registered)'
  <2>1. SUFFICES ASSUME pc = "register"
        PROVE  /\ Passed(<<Build, cursor>>)'
               /\ \A j \in 1..Len(BuildSteps[cursor]) : j < out => <<cursor, j>> \in Registered
    BY <1>4
  <2>2. <<Build, cursor>> \in Steps
    BY <2>1, StepFrom, StepCountType DEF ControlInv, InStage, TypeOK
  <2> QED
    BY <2>1, <2>2 DEF FrontierInv
<1> QED
  BY <1>1, <1>3, <1>6, <1>7, <1>8, <1>9 DEF FrontierInv

(* A pod that has exited 0 stays so, and only a Job that exists moves.     *)
LEMMA ClusterMovesKeep ==
  ASSUME NEW job \in Jobs, NEW next \in ClusterMoves(job)
  PROVE  /\ job.pod # "none"
         /\ job.pod = "exited0" => next.pod = "exited0"
  BY DEF Jobs, Pods, ClusterMoves, Readable

(* While a goroutine works, the gate of its step is open.                  *)
LEMMA GateOpen ==
  ASSUME OwnInv, NEW s \in Steps, InFlight(s), NEW t \in Steps, Before(t, s)
  PROVE  Passed(t)
<1>1. pc = "wait" /\ s \in InBatch
  BY DEF OwnInv, FrontierInv
<1>2. stage \in Stages /\ cursor \in 1..StepCount(stage) /\ Advancing
  BY <1>1, StepCountType DEF OwnInv, TypeOK, ControlInv, InStage, Advancing
<1>3. Past(t)
  BY <1>1, <1>2, BeforeIsPast DEF OwnInv
<1> QED
  BY <1>2, <1>3 DEF OwnInv, FrontierInv

(* The goroutine of a step keeps the invariant.                            *)
LEMMA StepKeeps ==
  ASSUME OwnInv, NEW s \in Steps, StepGoroutine(s)
  PROVE  OwnInv'
<1> USE DEF mainVars, dbVars, stepVars
<1>1. TypeOK'
  BY StepType DEF OwnInv
<1>2. /\ InFlight(s)
      /\ \A t \in Steps : t # s => /\ stepPc'[t] = stepPc[t] /\ stepErr'[t] = stepErr[t]
                                   /\ phase'[t] = phase[t] /\ kjob'[t] = kjob[t]
  BY DEF StepGoroutine, CreateStep, StartStep, StartStepOr, Submit, SubmitOr, RecordExecution, PollDone,
         StopPolling, PollRetry, PollTick, Report, FinishStep, FinishStepAs, InFlight, OwnInv,
         TypeOK, vars
<1>3. UNCHANGED <<mainVars, jobRow, artifacts>>
  BY DEF StepGoroutine, CreateStep, StartStep, StartStepOr, Submit, SubmitOr, RecordExecution, PollDone,
         StopPolling, PollRetry, PollTick, Report, FinishStep, FinishStepAs, vars
<1>4. /\ stepPc'[s] \in {"idle", "create", "start", "submit"} => kjob'[s] = NoJob
      /\ stepPc'[s] = "report" /\ phase'[s] = "succeeded" => Passed(s)'
      /\ stepPc'[s] \in {"finish", "done"} /\ ~stepErr'[s] => Passed(s)'
      /\ Passed(s) => Passed(s)'
  <2> USE DEF Passed
  <2>0. TypeOK /\ StepInv
    BY DEF OwnInv
  <2>1. CASE CreateStep(s)
    BY <2>0, <2>1 DEF CreateStep, StepInv, TypeOK
  <2>2. CASE StartStep(s)
    BY <2>0, <2>2 DEF StartStep, StartStepOr, StepInv, TypeOK
  <2>3. CASE Submit(s)
    <3>1. kjob[s] = NoJob
      BY <2>0, <2>3 DEF Submit, SubmitOr, StepInv
    <3>2. ~Passed(s)
      BY <3>1 DEF NoJob
    <3>3. stepPc'[s] = "record" \/ (stepPc'[s] = "finish" /\ stepErr'[s])
      BY <2>0, <2>3 DEF Submit, SubmitOr, TypeOK
    <3> QED
      BY <3>2, <3>3
  <2>4. CASE RecordExecution(s)
    BY <2>0, <2>4 DEF RecordExecution, TypeOK
  <2>5. CASE PollDone(s)
    <3>1. CancelJob(kjob[s]).pod = kjob[s].pod
      BY <2>0 DEF CancelJob, TypeOK, Jobs
    <3> QED
      BY <2>0, <2>5, <3>1 DEF PollDone, StopPolling, TypeOK
  <2>6. CASE PollRetry(s)
    BY <2>0, <2>6 DEF PollRetry, StepInv, vars
  <2>7. CASE PollTick(s)
    <3>1. jobToStatus(kjob[s]) = "succeeded" => kjob[s].pod = "exited0"
      BY DEF jobToStatus
    <3> QED
      BY <2>0, <2>7, <3>1 DEF PollTick, TypeOK
  <2>8. CASE Report(s)
    BY <2>0, <2>8 DEF Report, PhaseIsError, PhaseTerminal, StepInv, TypeOK
  <2>9. CASE FinishStep(s)
    BY <2>0, <2>9 DEF FinishStep, FinishStepAs, StepInv, TypeOK
  <2> QED
    BY <2>1, <2>2, <2>3, <2>4, <2>5, <2>6, <2>7, <2>8, <2>9 DEF StepGoroutine
<1>5. \A t \in Steps : Passed(t) => Passed(t)'
  BY <1>2, <1>4 DEF Passed
<1>6. StepInv'
  BY <1>2, <1>4 DEF StepInv, Passed, OwnInv
<1>7. Quiet
  BY <1>2, <1>3, <1>5 DEF Quiet, InFlight
<1>8. StageGate'
  <2>1. SUFFICES ASSUME NEW u \in Steps, NEW t \in Steps, Before(t, u), kjob'[u] # NoJob
                 PROVE  Passed(t)
    BY <1>5 DEF StageGate, Before, SameBlock
  <2>2. CASE u = s
    BY <1>2, <2>1, <2>2, GateOpen
  <2>3. CASE u # s
    BY <1>2, <2>1, <2>3 DEF OwnInv, StageGate
  <2> QED
    BY <2>2, <2>3
<1> QED
  BY <1>1, <1>6, <1>7, <1>8, QuietKeeps DEF OwnInv

(* The surroundings keep it.                                               *)
LEMMA EnvironmentKeeps ==
  ASSUME OwnInv,
         \/ \E s \in Steps : ClusterStep(s) \/ VanishJob(s)
         \/ CancelRun \/ Crash \/ Finished
  PROVE  OwnInv'
<1> USE DEF mainVars, dbVars, stepVars
<1>1. TypeOK'
  BY EnvironmentType DEF OwnInv
<1>2. ASSUME NEW s \in Steps, ClusterStep(s) \/ VanishJob(s)
      PROVE  OwnInv'
  <2>1. /\ UNCHANGED <<mainVars, stepVars, jobRow, artifacts>>
        /\ \A t \in Steps : t # s => kjob'[t] = kjob[t]
    BY <1>2 DEF ClusterStep, VanishJob, OwnInv, TypeOK
  <2>2. kjob[s] # NoJob /\ (Passed(s) => Passed(s)')
    <3>1. CASE ClusterStep(s)
      BY <3>1, ClusterMovesKeep DEF ClusterStep, Passed, OwnInv, TypeOK, NoJob
    <3>2. CASE VanishJob(s)
      <4>1. CancelJob(kjob[s]).pod = kjob[s].pod
        BY DEF CancelJob, OwnInv, TypeOK, Jobs
      <4> QED
        BY <3>2, <4>1 DEF VanishJob, Readable, Passed, OwnInv, TypeOK, NoJob
    <3> QED
      BY <1>2, <3>1, <3>2
  <2>3. \A t \in Steps : Passed(t) => Passed(t)'
    BY <2>1, <2>2 DEF Passed
  <2>4. Quiet
    BY <2>1, <2>3 DEF Quiet, InFlight
  <2>5. StepInv'
    BY <2>1, <2>2, <2>3 DEF StepInv, OwnInv
  <2>6. StageGate'
    BY <2>1, <2>2, <2>3 DEF StageGate, OwnInv, Before, SameBlock
  <2> QED
    BY <1>1, <2>4, <2>5, <2>6, QuietKeeps DEF OwnInv
<1>3. CASE CancelRun \/ Finished
  <2>1. Quiet /\ UNCHANGED <<stepVars, kjob>>
    BY <1>3 DEF CancelRun, Finished, vars, Quiet, Passed, InFlight
  <2>2. StepInv' /\ StageGate'
    BY <2>1 DEF StepInv, StageGate, Passed, OwnInv, Before, SameBlock
  <2> QED
    BY <1>1, <2>1, <2>2, QuietKeeps DEF OwnInv
<1>4. CASE Crash
  <2>1. StepInv' /\ StageGate'
    BY <1>4 DEF Crash, StepInv, StageGate, Passed, OwnInv, TypeOK, Before, SameBlock
  <2>2. ControlInv'
    BY <1>4 DEF Crash, ControlInv, InStage, Advancing
  <2>3. FrontierInv'
    BY <1>4 DEF Crash, FrontierInv, InFlight, InStage, Advancing, OwnInv, TypeOK
  <2>4. EndInv'
    BY <1>4 DEF Crash, EndInv, AllDone, Passed, Registered, OwnInv
  <2> QED
    BY <1>1, <2>1, <2>2, <2>3, <2>4 DEF OwnInv
<1> QED
  BY <1>2, <1>3, <1>4

-----------------------------------------------------------------------------
(* Steps of Run itself.                                                    *)

(* Nothing starts or ends a command: the Jobs and the goroutines stay.     *)
LEMMA StillKeeps ==
  ASSUME StepInv, StageGate, UNCHANGED <<kjob, stepVars>>
  PROVE  StepInv' /\ StageGate'
  BY DEF stepVars, StepInv, StageGate, Passed, Before, SameBlock

LEMMA AllDoneKept ==
  ASSUME TypeOK, UNCHANGED kjob,
         artifacts' = artifacts \/ \E x \in Nat \X Nat : artifacts' = Append(artifacts, x)
  PROVE  /\ Registered \subseteq Registered'
         /\ AllDone => AllDone'
<1>1. ASSUME NEW k \in DOMAIN artifacts
      PROVE  k \in DOMAIN artifacts' /\ artifacts'[k] = artifacts[k]
  <2>1. CASE artifacts' = artifacts
    BY <1>1, <2>1
  <2>2. ASSUME NEW x \in Nat \X Nat, artifacts' = Append(artifacts, x)
        PROVE  k \in DOMAIN artifacts' /\ artifacts'[k] = artifacts[k]
    <3>1. artifacts \in Seq(Nat \X Nat)
      BY DEF TypeOK
    <3> QED
      BY <1>1, <2>2, <3>1
  <2> QED
    BY <2>1, <2>2
<1>2. Registered \subseteq Registered'
  BY <1>1 DEF Registered
<1> QED
  BY <1>2 DEF AllDone, Passed, Declared, Outputs

(* Entering the next stage behind a completed one, or leaving the last.    *)
LEMMA EnterKeeps ==
  ASSUME TypeOK, EndInv, NEW st \in Nat, EnterStageAfter(st),
         UNCHANGED <<kjob, stepPc, artifacts, verdict>>,
         ~failed',
         \A t \in Steps : ~InFlight(t),
         \A t \in Steps : t[1] > st => stepPc[t] = "idle",
         \A t \in Steps : t[1] <= st =>
           Passed(t) /\ (t[1] = Build => Outputs(t[2]) \subseteq Registered)
  PROVE  ControlInv' /\ FrontierInv' /\ EndInv'
<1>1. \A t \in Steps : ~InFlight(t)' /\ (Passed(t)' <=> Passed(t))
  BY DEF InFlight, Passed
<1>2. Registered' = Registered /\ (AllDone' <=> AllDone)
  BY DEF Registered, AllDone, Passed, Declared, Outputs
<1>3. CASE pc' = "createJob"
  <2>1. /\ stage' \in Stages /\ stage' > st /\ StepCount(stage') > 0
        /\ \A u \in Stages : u > st /\ StepCount(u) > 0 => stage' <= u
    BY <1>3 DEF EnterStageAfter
  <2>2. Advancing' /\ ~InStage'
    BY <1>3 DEF Advancing, InStage
  <2>3. \A t \in Steps : t[1] < stage' => t[1] <= st
    BY <2>1, StepFact, StepCountType DEF Stages, Build, Test, Deploy
  <2>4. \A t \in Steps : Past(t)' => t[1] <= st
    BY <2>2, <2>3 DEF Past
  <2>5. \A t \in Steps : Ahead(t)' => t[1] > st
    BY <2>1, <2>2, StepFact DEF Ahead, Stages, Build, Test, Deploy
  <2>6. ControlInv'
    BY <1>3, <2>1, <2>2 DEF ControlInv, Advancing, InStage
  <2>7. FrontierInv'
    BY <1>1, <1>2, <1>3, <2>4, <2>5 DEF FrontierInv, Outputs
  <2>8. EndInv'
    BY <1>2, <1>3 DEF EndInv
  <2> QED
    BY <2>6, <2>7, <2>8
<1>4. CASE pc' = "decide"
  <2>1. \A u \in Stages : u > st => StepCount(u) = 0
    BY <1>4, StepCountType DEF EnterStageAfter
  <2>2. \A t \in Steps : t[1] <= st
    BY <2>1, StepFact, StepCountType DEF Stages, Build, Test, Deploy
  <2>3. \A j \in 1..Len(BuildSteps) : Outputs(j) \subseteq Registered
    <3>1. SUFFICES ASSUME NEW j \in 1..Len(BuildSteps) PROVE Outputs(j) \subseteq Registered
      OBVIOUS
    <3>2. <<Build, j>> \in Steps
      BY StepFrom DEF StepCount, Stages, Build
    <3> QED
      BY <2>2, <3>2
  <2>4. AllDone
    BY <2>2, <2>3 DEF AllDone, Declared
  <2>5. ~Advancing' /\ ~InStage'
    BY <1>4 DEF Advancing, InStage
  <2>6. ControlInv' /\ FrontierInv'
    BY <1>1, <1>4, <2>5 DEF ControlInv, FrontierInv
  <2>7. EndInv'
    BY <1>2, <2>4 DEF EndInv
  <2> QED
    BY <2>6, <2>7
<1> QED
  BY <1>3, <1>4 DEF EnterStageAfter

(* What NextBatch leaves behind is the batch, and no more.                 *)
LEMMA NextBatchFact ==
  ASSUME TypeOK, stage \in Stages, cursor \in 1..StepCount(stage), NextBatch
  PROVE  /\ cursor' \in Nat /\ cursor' > cursor
         /\ \A m \in Nat : m < cursor' => m < cursor \/ m \in Batch(stage, cursor)
         /\ \A m \in 1..StepCount(stage) : m >= cursor' => m \notin Batch(stage, cursor)
         /\ pc' = "launch" => cursor' <= StepCount(stage)
         /\ pc' = "finishJob" => cursor' > StepCount(stage)
         /\ pc' \in {"launch", "finishJob"}
<1>1. PICK next \in 1..(StepCount(stage) + 1) :
        /\ next > cursor
        /\ \A m \in cursor..(next - 1) : m \in Batch(stage, cursor)
        /\ next \notin Batch(stage, cursor)
        /\ cursor' = next
        /\ pc' = IF next <= StepCount(stage) THEN "launch" ELSE "finishJob"
  BY DEF NextBatch
<1>2. StepCount(stage) \in Nat
  BY StepCountType
<1>3. \A m \in 1..StepCount(stage) : m >= cursor' => m \notin Batch(stage, cursor)
  BY <1>1, <1>2, BatchFact
<1> QED
  BY <1>1, <1>2, <1>3

(* Going on behind a batch that is done, or leaving the stage.             *)
LEMMA NextBatchKeeps ==
  ASSUME OwnInv, pc \in {"wait", "register"}, NextBatch,
         UNCHANGED <<kjob, stepPc, artifacts, verdict, failed, stage, jobRow>>,
         \A t \in Steps : ~InFlight(t),
         \A t \in Steps : t \in InBatch =>
           Passed(t) /\ (t[1] = Build => Outputs(t[2]) \subseteq Registered)
  PROVE  ControlInv' /\ FrontierInv' /\ EndInv'
<1>1. stage \in Stages /\ cursor \in 1..StepCount(stage) /\ ~failed /\ Advancing /\ InStage
  BY StepCountType DEF OwnInv, TypeOK, ControlInv, InStage, Advancing
<1>2. /\ cursor' \in Nat /\ cursor' > cursor
      /\ \A m \in Nat : m < cursor' => m < cursor \/ m \in Batch(stage, cursor)
      /\ \A m \in 1..StepCount(stage) : m >= cursor' => m \notin Batch(stage, cursor)
      /\ pc' = "launch" => cursor' <= StepCount(stage)
      /\ pc' = "finishJob" => cursor' > StepCount(stage)
      /\ pc' \in {"launch", "finishJob"}
  BY <1>1, NextBatchFact DEF OwnInv
<1>3. \A t \in Steps : ~InFlight(t)' /\ (Passed(t)' <=> Passed(t))
  BY DEF InFlight, Passed
<1>4. Registered' = Registered /\ (AllDone' <=> AllDone)
  BY DEF Registered, AllDone, Passed, Declared, Outputs
<1>5. Advancing' /\ InStage'
  BY <1>1, <1>2 DEF Advancing, InStage
<1>6. \A t \in Steps : t[2] \in Nat /\ t[2] \in 1..StepCount(t[1]) /\ t = <<t[1], t[2]>>
  BY StepFact, StepCountType
<1>7. \A t \in Steps : Past(t)' => Past(t) \/ t \in InBatch
  BY <1>1, <1>2, <1>5, <1>6 DEF Past, InBatch
<1>8. \A t \in Steps : Ahead(t)' => Ahead(t)
  BY <1>1, <1>2, <1>5, <1>6 DEF Ahead, InBatch, TypeOK, OwnInv
<1>9. ControlInv'
  BY <1>1, <1>2, <1>5 DEF ControlInv, OwnInv, InStage, Advancing, TypeOK
<1>10. FrontierInv'
  BY <1>1, <1>2, <1>3, <1>4, <1>7, <1>8 DEF FrontierInv, OwnInv, Outputs
<1>11. EndInv'
  BY <1>2, <1>4 DEF EndInv, OwnInv
<1> QED
  BY <1>9, <1>10, <1>11

(* Every step of Run keeps the invariant.                                  *)
LEMMA MainKeeps ==
  ASSUME OwnInv, Main
  PROVE  OwnInv'
<1> USE DEF mainVars, dbVars
<1>1. TypeOK' /\ TypeOK /\ StepInv /\ StageGate /\ ControlInv /\ FrontierInv /\ EndInv
  BY MainType DEF OwnInv
<1>2. SUFFICES StepInv' /\ StageGate' /\ ControlInv' /\ FrontierInv' /\ EndInv'
  BY <1>1 DEF OwnInv
<1>3. pc # "wait" => \A t \in Steps : ~InFlight(t)
  BY <1>1 DEF FrontierInv
<1>4. \A t \in Steps : t[1] \in Stages /\ t[2] \in Nat /\ t[2] \in 1..StepCount(t[1])
  BY StepFact, StepCountType
<1>5. CASE StartRun
  <2>1. PICK ok \in BOOLEAN, done \in BOOLEAN :
          /\ Call(TRUE, ok, done)
          /\ runRow' = IF done THEN UpdateStatus(runRow, "running") ELSE runRow
          /\ IF ok THEN EnterStageAfter(0) /\ UNCHANGED failed
             ELSE pc' = "returned" /\ failed' = TRUE /\ UNCHANGED stage
    BY <1>5 DEF StartRun
  <2>2. StepInv' /\ StageGate'
    BY <1>1, <1>5, StillKeeps DEF StartRun
  <2>4. CASE ok
    <3>1. ~failed'
      BY <1>1, <1>5, <2>1, <2>4 DEF ControlInv, StartRun
    <3>2. \A t \in Steps : t[1] > 0 => stepPc[t] = "idle"
      BY <1>1, <1>5 DEF StartRun, FrontierInv
    <3>3. \A t \in Steps : ~(t[1] <= 0)
      BY <1>4 DEF Stages, Build, Test, Deploy
    <3> QED
      BY <1>1, <1>3, <1>5, <2>1, <2>2, <2>4, <3>1, <3>2, <3>3, EnterKeeps
      DEF StartRun, stepVars
  <2>5. CASE ~ok
    <3>1. pc' = "returned"
      BY <2>1, <2>5
    <3>2. ControlInv' /\ FrontierInv'
      BY <1>3, <1>5, <2>1, <2>5
      DEF StartRun, ControlInv, FrontierInv, InStage, Advancing, InFlight, stepVars
    <3>3. AllDone' <=> AllDone
      BY <1>5 DEF StartRun, AllDone, Passed, Registered, Declared, Outputs
    <3>4. EndInv'
      BY <1>1, <1>5, <3>1, <3>3 DEF EndInv, StartRun
    <3> QED
      BY <2>2, <3>2, <3>4
  <2> QED
    BY <2>4, <2>5
<1>6. CASE CreateJob
  <2>1. PICK ok \in BOOLEAN, done \in BOOLEAN :
          /\ Call(TRUE, ok, done)
          /\ jobRow' = IF done THEN [jobRow EXCEPT ![stage] = NewRow] ELSE jobRow
          /\ pc' = IF ok THEN "startJob" ELSE "decide"
          /\ failed' = ~ok
    BY <1>6 DEF CreateJob
  <2>2. StepInv' /\ StageGate'
    BY <1>1, <1>6, StillKeeps DEF CreateJob
  <2>3. /\ \A t \in Steps : InFlight(t)' = InFlight(t) /\ Passed(t)' = Passed(t)
        /\ AllDone' = AllDone /\ Registered' = Registered
    BY <1>6 DEF CreateJob, InFlight, Passed, AllDone, Registered, Declared, Outputs, stepVars
  <2>4. ControlInv'
    <3>1. stage \in Stages
      BY <1>1, <1>6 DEF CreateJob, ControlInv
    <3>2. ok => jobRow'[stage].status = "pending"
      BY <1>1, <2>1, <3>1 DEF Call, NewRow, TypeOK
    <3> QED
      BY <1>1, <1>6, <2>1, <3>1, <3>2 DEF CreateJob, ControlInv, InStage, Advancing
  <2>5. FrontierInv'
    <3>1. CASE ok
      <4>1. \A t \in Steps : Past(t)' = Past(t) /\ Ahead(t)' = Ahead(t)
        BY <1>6, <2>1, <3>1 DEF CreateJob, Past, Ahead, InStage
      <4>2. Advancing
        BY <1>1, <1>6 DEF CreateJob, Advancing, ControlInv
      <4> QED
        BY <1>1, <1>3, <1>6, <2>1, <2>3, <3>1, <4>1, <4>2
        DEF CreateJob, FrontierInv, Outputs, stepVars
    <3>2. CASE ~ok
      BY <1>3, <1>6, <2>1, <2>3, <3>2 DEF CreateJob, FrontierInv, InStage, Advancing
    <3> QED
      BY <3>1, <3>2
  <2>6. EndInv'
    BY <1>1, <1>6, <2>1, <2>3 DEF CreateJob, EndInv
  <2> QED
    BY <2>2, <2>4, <2>5, <2>6
<1>7. CASE StartJob
  <2>1. PICK ok \in BOOLEAN, done \in BOOLEAN :
          /\ Call(TRUE, ok, done)
          /\ jobRow' = IF done THEN [jobRow EXCEPT ![stage] = UpdateStatus(@, "running")] ELSE jobRow
          /\ pc' = IF ~ok THEN "decide" ELSE IF stage = Deploy THEN "resolve" ELSE "launch"
          /\ failed' = ~ok
    BY <1>7 DEF StartJob
  <2>2. StepInv' /\ StageGate'
    BY <1>1, <1>7, StillKeeps DEF StartJob
  <2>3. /\ \A t \in Steps : InFlight(t)' = InFlight(t) /\ Passed(t)' = Passed(t)
        /\ AllDone' = AllDone /\ Registered' = Registered
    BY <1>7 DEF StartJob, InFlight, Passed, AllDone, Registered, Declared, Outputs, stepVars
  <2>4. stage \in Stages /\ StepCount(stage) > 0 /\ Advancing
    BY <1>1, <1>7 DEF StartJob, ControlInv, Advancing
  <2>5. ControlInv'
    <3>1. ok => jobRow'[stage].status = "running"
      <4>1. UpdateStatus(jobRow[stage], "running").status = "running"
        BY <1>1, <1>7, <2>4 DEF StartJob, ControlInv, UpdateStatus, TypeOK, Rows
      <4> QED
        BY <1>1, <2>1, <2>4, <4>1 DEF Call, TypeOK
    <3>2. pc' \in {"decide", "resolve", "launch"} /\ cursor' = 1 /\ 1 <= StepCount(stage)
      BY <1>7, <2>1, <2>4, StepCountType DEF StartJob
    <3>3. UNCHANGED stage /\ failed' = ~ok
      BY <1>7, <2>1 DEF StartJob
    <3>4. pc' # "decide" => ok
      BY <2>1
    <3> QED
      <4>1. CASE ok
        <5>1. stage' \in Stages /\ StepCount(stage') > 0 /\ cursor' >= 1 /\ cursor' <= StepCount(stage')
          BY <2>4, <3>2, <3>3
        <5>2. pc' \in {"resolve", "launch"} /\ ~failed'
          BY <2>1, <3>3, <4>1
        <5>3. jobRow'[stage'].status = "running"
          BY <3>1, <3>3, <4>1
        <5> QED
          BY <5>1, <5>2, <5>3 DEF ControlInv, InStage, Advancing
      <4>2. CASE ~ok
        BY <2>1, <4>2 DEF ControlInv, InStage, Advancing
      <4> QED
        BY <4>1, <4>2
  <2>6. FrontierInv'
    <3>1. CASE ok
      <4>1. InStage' /\ ~InStage /\ cursor' = 1 /\ pc' \notin {"wait", "register", "start"}
        BY <1>7, <2>1, <3>1 DEF StartJob, InStage
      <4>2. \A t \in Steps : Past(t)' => Past(t)
        BY <1>4, <1>7, <4>1 DEF StartJob, Past
      <4>3. \A t \in Steps : Ahead(t)' => Ahead(t)
        BY <1>7, <4>1 DEF StartJob, Ahead
      <4> QED
        BY <1>1, <1>3, <1>7, <2>3, <2>4, <4>1, <4>2, <4>3
        DEF StartJob, FrontierInv, Outputs, stepVars
    <3>2. CASE ~ok
      BY <1>3, <1>7, <2>1, <2>3, <3>2 DEF StartJob, FrontierInv, InStage, Advancing
    <3> QED
      BY <3>1, <3>2
  <2>7. EndInv'
    BY <1>1, <1>7, <2>1, <2>3 DEF StartJob, EndInv
  <2> QED
    BY <2>2, <2>5, <2>6, <2>7
<1>8. CASE FinishJob
  <2>1. StepInv' /\ StageGate'
    BY <1>1, <1>8, StillKeeps DEF FinishJob, FinishJobUnder
  <2>2. pc = "finishJob" /\ stage \in Stages /\ InStage
    BY <1>1, <1>8 DEF FinishJob, FinishJobUnder, ControlInv, InStage
  <2>3. CASE failed
    <3>1. /\ \A t \in Steps : InFlight(t)' = InFlight(t)
          /\ AllDone' = AllDone
      BY <1>8 DEF FinishJob, FinishJobUnder, InFlight, Passed, AllDone, Registered, Declared,
                  Outputs, stepVars
    <3>2. ControlInv' /\ FrontierInv'
      BY <1>3, <1>8, <2>2, <2>3, <3>1
      DEF FinishJob, FinishJobUnder, ControlInv, FrontierInv, InStage, Advancing
    <3>3. EndInv'
      BY <1>1, <1>8, <2>3, <3>1 DEF FinishJob, FinishJobUnder, EndInv
    <3> QED
      BY <2>1, <3>2, <3>3
  <2>4. CASE ~failed
    <3>1. EnterStageAfter(stage) /\ Advancing /\ cursor > StepCount(stage) /\ stage \in Nat
      BY <1>1, <1>8, <2>2, <2>4
      DEF FinishJob, FinishJobUnder, ControlInv, Advancing, Stages, Build, Test, Deploy
    <3>2. \A t \in Steps : t[1] <= stage => Past(t)
      <4>1. SUFFICES ASSUME NEW t \in Steps, t[1] <= stage, t[1] # stage \/ ~(t[2] < cursor)
                     PROVE  t[1] < stage
        BY <2>2 DEF Past
      <4>2. t[1] \in Nat /\ stage \in Nat
        BY <1>4, <2>2 DEF Stages, Build, Test, Deploy
      <4>3. t[1] = stage => t[2] < cursor
        <5>1. cursor \in Nat /\ StepCount(stage) \in Nat
          BY <1>1, <2>2, StepCountType DEF TypeOK
        <5>2. t[2] \in 1..StepCount(t[1])
          BY <1>4
        <5> QED
          BY <3>1, <5>1, <5>2
      <4> QED
        BY <4>1, <4>2, <4>3
    <3>3. \A t \in Steps : t[1] > stage => Ahead(t)
      BY DEF Ahead
    <3>4. \A t \in Steps : t[1] <= stage =>
            Passed(t) /\ (t[1] = Build => Outputs(t[2]) \subseteq Registered)
      BY <1>1, <3>1, <3>2 DEF FrontierInv
    <3>5. \A t \in Steps : t[1] > stage => stepPc[t] = "idle"
      BY <1>1, <3>1, <3>3 DEF FrontierInv
    <3>6. UNCHANGED <<kjob, stepPc, artifacts, verdict>> /\ ~failed'
      BY <1>8, <2>4 DEF FinishJob, FinishJobUnder, stepVars
    <3> QED
      BY <1>1, <1>3, <2>1, <2>2, <3>1, <3>4, <3>5, <3>6, EnterKeeps
  <2> QED
    BY <2>3, <2>4
<1>9. CASE Decide \/ Finalize
  <2>1. /\ UNCHANGED <<kjob, stepVars, artifacts>>
        /\ pc \in {"decide", "finalize"} /\ pc' \in {"finalize", "returned"}
    BY <1>9 DEF Decide, Finalize, FinalizeUnder
  <2>2. StepInv' /\ StageGate'
    BY <1>1, <2>1, StillKeeps
  <2>3. AllDone' = AllDone /\ \A t \in Steps : InFlight(t)' = InFlight(t)
    BY <2>1 DEF AllDone, Passed, Registered, Declared, Outputs, InFlight, stepVars
  <2>4. ControlInv' /\ FrontierInv'
    BY <1>3, <2>1, <2>3 DEF ControlInv, FrontierInv, InStage, Advancing
  <2>5. EndInv'
    <3>1. CASE Decide
      BY <1>1, <2>1, <2>3, <3>1 DEF Decide, EndInv
    <3>2. CASE Finalize
      BY <1>1, <2>3, <3>2 DEF Finalize, FinalizeUnder, EndInv
    <3> QED
      BY <1>9, <3>1, <3>2
  <2> QED
    BY <2>2, <2>4, <2>5
<1>10. CASE LaunchBatch
  <2>1. \A t \in Steps :
          stepPc'[t] = IF t \in InBatch THEN "create" ELSE stepPc[t]
    BY <1>10 DEF LaunchBatch
  <2>2. /\ pc = "launch" /\ pc' = "wait" /\ UNCHANGED <<kjob, artifacts, stage, cursor, failed>>
        /\ UNCHANGED <<jobRow, verdict, out, stepErr, phase>>
    BY <1>10 DEF LaunchBatch
  <2>3. Advancing /\ stage \in Stages /\ cursor \in 1..StepCount(stage)
    BY <1>1, <2>2, StepCountType DEF ControlInv, Advancing, InStage, TypeOK
  <2>4. /\ InBatch' = InBatch /\ Advancing' /\ InStage' /\ InStage
        /\ Registered' = Registered /\ AllDone' = AllDone
        /\ \A t \in Steps : Passed(t)' = Passed(t) /\ Past(t)' = Past(t)
    BY <2>2, <2>3
    DEF InBatch, Advancing, InStage, Registered, AllDone, Passed, Past, Declared, Outputs, Batch
  <2>5. \A t \in Steps : t \in InBatch => Ahead(t)
    <3>1. SUFFICES ASSUME NEW t \in Steps, t \in InBatch PROVE Ahead(t)
      OBVIOUS
    <3>2. t[1] = stage /\ t[2] \in cursor..StepCount(stage)
      BY <2>3, <3>1, BatchFact DEF InBatch
    <3> QED
      BY <1>1, <2>2, <3>2 DEF Ahead, TypeOK
  <2>6. \A t \in Steps : Ahead(t)' => Ahead(t) /\ t \notin InBatch
    <3>1. \A t \in Steps : Ahead(t)' => Ahead(t)
      BY <2>2, <2>4 DEF Ahead
    <3>2. \A t \in Steps : t \in InBatch => ~Ahead(t)'
      BY <1>1, <2>2, <2>3, <2>4 DEF Ahead, InBatch, Stages, Build, Test, Deploy
    <3> QED
      BY <3>1, <3>2
  <2>7. \A t \in Steps : t \in InBatch => kjob[t] = NoJob
    BY <1>1, <2>3, <2>5 DEF FrontierInv, StepInv
  <2>8. StepInv'
    BY <1>1, <2>1, <2>2, <2>7 DEF StepInv, Passed
  <2>9. StageGate'
    BY <1>1, <2>2 DEF StageGate, Before, SameBlock, Passed
  <2>10. ControlInv'
    BY <1>1, <2>2, <2>4 DEF ControlInv, InStage, Advancing
  <2>11. FrontierInv'
    <3>1. \A t \in Steps : InFlight(t)' => t \in InBatch
      BY <1>3, <2>1, <2>2 DEF InFlight
    <3>2. \A t \in Steps : Ahead(t)' => stepPc'[t] = "idle"
      BY <1>1, <2>1, <2>3, <2>6 DEF FrontierInv
    <3> QED
      BY <1>1, <2>2, <2>3, <2>4, <3>1, <3>2 DEF FrontierInv, Outputs
  <2>12. EndInv'
    BY <1>1, <2>2, <2>4 DEF EndInv
  <2> QED
    BY <2>8, <2>9, <2>10, <2>11, <2>12
<1>11. CASE JoinBatch
  <2>1. /\ pc = "wait" /\ BatchDone /\ UNCHANGED <<dbVars, kjob, stage, verdict, stepVars>>
    BY <1>11 DEF JoinBatch
  <2>2. StepInv' /\ StageGate'
    BY <1>1, <2>1, StillKeeps
  <2>3. \A t \in Steps : ~InFlight(t)
    BY <1>1, <2>1 DEF FrontierInv, BatchDone, InFlight
  <2>4. /\ \A t \in Steps : ~InFlight(t)' /\ (Passed(t)' = Passed(t))
        /\ AllDone' = AllDone /\ Registered' = Registered
    BY <2>1, <2>3 DEF InFlight, Passed, AllDone, Registered, Declared, Outputs, stepVars
  <2>5. stage \in Stages /\ cursor \in 1..StepCount(stage) /\ Advancing /\ InStage
    BY <1>1, <2>1, StepCountType DEF ControlInv, Advancing, InStage, TypeOK
  <2>6. CASE BatchFailed
    <3>1. failed' /\ pc' = "finishJob" /\ cursor' = cursor
      BY <1>11, <2>6 DEF JoinBatch
    <3>2. ControlInv'
      BY <1>1, <2>1, <2>5, <3>1 DEF ControlInv, InStage, Advancing
    <3>3. FrontierInv'
      BY <2>4, <3>1 DEF FrontierInv, Advancing, InStage
    <3>4. EndInv'
      BY <1>1, <2>1, <2>4, <3>1 DEF EndInv
    <3> QED
      BY <2>2, <3>2, <3>3, <3>4
  <2>7. CASE ~BatchFailed
    <3>1. \A t \in Steps : t \in InBatch => Passed(t)
      BY <1>1, <2>1, <2>7 DEF BatchDone, BatchFailed, StepInv, TypeOK
    <3>2. CASE stage = Build
      <4>1. pc' = "register" /\ out' = 1 /\ failed' = failed /\ cursor' = cursor
        BY <1>11, <2>7, <3>2 DEF JoinBatch
      <4>2. ControlInv'
        BY <1>1, <2>1, <2>5, <3>2, <4>1 DEF ControlInv, InStage, Advancing
      <4>3. Passed(<<Build, cursor>>)
        BY <2>5, <3>1, <3>2, StepFrom, BatchFact DEF InBatch
      <4>4. /\ InBatch' = InBatch /\ Advancing' /\ InStage'
            /\ \A t \in Steps : Past(t)' = Past(t) /\ Ahead(t)' = Ahead(t)
        BY <2>1, <2>5, <4>1 DEF InBatch, Advancing, InStage, Past, Ahead
      <4>5. FrontierInv'
        BY <1>1, <2>1, <2>4, <2>5, <4>1, <4>3, <4>4 DEF FrontierInv, Outputs, Passed, stepVars
      <4>6. EndInv'
        BY <1>1, <2>1, <2>4, <4>1 DEF EndInv
      <4> QED
        BY <2>2, <4>2, <4>5, <4>6
    <3>3. CASE stage # Build
      <4>1. NextBatch /\ failed' = failed
        BY <1>11, <2>7, <3>3 DEF JoinBatch
      <4>2. \A t \in Steps : t \in InBatch => t[1] # Build
        BY <3>3 DEF InBatch
      <4> QED
        BY <2>1, <2>2, <2>3, <3>1, <4>1, <4>2, NextBatchKeeps DEF stepVars
    <3> QED
      BY <3>2, <3>3
  <2> QED
    BY <2>6, <2>7
<1>12. CASE RegisterArtifact
  <2>1. PICK ok \in BOOLEAN, done \in BOOLEAN :
          /\ Call(TRUE, ok, done)
          /\ artifacts' = IF done THEN Append(artifacts, <<cursor, out>>) ELSE artifacts
          /\ IF ok THEN out' = out + 1 /\ UNCHANGED <<pc, failed>>
             ELSE pc' = "finishJob" /\ failed' = TRUE /\ UNCHANGED out
    BY <1>12 DEF RegisterArtifact
  <2>2. /\ pc = "register" /\ UNCHANGED <<kjob, stepVars, stage, cursor, verdict, jobRow>>
    BY <1>12 DEF RegisterArtifact
  <2>3. StepInv' /\ StageGate'
    BY <1>1, <2>2, StillKeeps
  <2>4. Registered \subseteq Registered' /\ (AllDone => AllDone')
    <3>1. <<cursor, out>> \in Nat \X Nat
      BY <1>1 DEF TypeOK
    <3> QED
      BY <1>1, <2>1, <2>2, <3>1, AllDoneKept
  <2>5. \A t \in Steps : ~InFlight(t)' /\ Passed(t)' = Passed(t)
    BY <1>3, <2>2 DEF InFlight, Passed, stepVars
  <2>6. EndInv'
    BY <1>1, <2>1, <2>2, <2>4 DEF EndInv
  <2>7. stage = Build /\ stage \in Stages /\ cursor \in 1..StepCount(stage) /\ Advancing /\ InStage
    BY <1>1, <2>2, StepCountType DEF ControlInv, Advancing, InStage, TypeOK
  <2>8. CASE ~ok
    <3>1. ControlInv'
      BY <1>1, <2>1, <2>2, <2>7, <2>8 DEF ControlInv, InStage, Advancing
    <3>2. FrontierInv'
      BY <2>1, <2>5, <2>8 DEF FrontierInv, Advancing, InStage
    <3> QED
      BY <2>3, <2>6, <3>1, <3>2
  <2>9. CASE ok
    <3>1. pc' = "register" /\ failed' = failed /\ out' = out + 1
      BY <2>1, <2>2, <2>9
    <3>2. ControlInv'
      BY <1>1, <2>2, <2>7, <3>1 DEF ControlInv, InStage, Advancing
    <3>3. /\ Advancing' /\ InStage' /\ InBatch' = InBatch
          /\ \A t \in Steps : Past(t)' = Past(t) /\ Ahead(t)' = Ahead(t)
      BY <2>2, <2>7, <3>1 DEF Advancing, InStage, InBatch, Past, Ahead, Batch
    <3>4. <<cursor, out>> \in Registered'
      <4>1. artifacts' = Append(artifacts, <<cursor, out>>)
        BY <2>1, <2>9 DEF Call
      <4>2. <<cursor, out>> \in Nat \X Nat /\ artifacts \in Seq(Nat \X Nat)
        BY <1>1 DEF TypeOK
      <4>3. /\ Len(artifacts) + 1 \in DOMAIN artifacts'
            /\ artifacts'[Len(artifacts) + 1] = <<cursor, out>>
        BY <4>1, <4>2
      <4> QED
        BY <4>3 DEF Registered
    <3>5. \A j \in 1..Len(BuildSteps[cursor]) : j < out' => <<cursor, j>> \in Registered'
      <4>1. SUFFICES ASSUME NEW j \in 1..Len(BuildSteps[cursor]), j < out'
                     PROVE  <<cursor, j>> \in Registered'
        OBVIOUS
      <4>2. j < out \/ j = out
        BY <1>1, <3>1, <4>1 DEF TypeOK
      <4> QED
        BY <1>1, <2>2, <2>4, <3>4, <4>2 DEF FrontierInv
    <3>6. Passed(<<Build, cursor>>)'
      BY <1>1, <2>2 DEF FrontierInv, Passed
    <3>7. \A t \in Steps :
            /\ Past(t)' => Passed(t)'
            /\ Past(t)' /\ t[1] = Build => Outputs(t[2]) \subseteq Registered'
            /\ Ahead(t)' => stepPc'[t] = "idle"
      BY <1>1, <2>2, <2>4, <2>5, <2>7, <3>3 DEF FrontierInv, stepVars
    <3>8. FrontierInv'
      BY <2>2, <2>5, <3>1, <3>5, <3>6, <3>7 DEF FrontierInv, Outputs
    <3> QED
      BY <2>3, <2>6, <3>2, <3>8
  <2> QED
    BY <2>8, <2>9
<1>13. CASE RegisteredAll
  <2>1. /\ pc = "register" /\ out > Len(BuildSteps[cursor]) /\ NextBatch
        /\ UNCHANGED <<kjob, stepVars, artifacts, verdict, failed, stage, jobRow>>
    BY <1>13 DEF RegisteredAll
  <2>2. StepInv' /\ StageGate'
    BY <1>1, <2>1, StillKeeps
  <2>3. stage = Build
    BY <1>1, <2>1 DEF ControlInv
  <2>4. \A t \in Steps : t \in InBatch => t[1] = Build /\ t[2] = cursor /\ t = <<Build, cursor>>
    BY <2>3, StepFact DEF InBatch, Batch, Build, Test
  <2>5. Passed(<<Build, cursor>>)
    BY <1>1, <2>1 DEF FrontierInv
  <2>6. Len(BuildSteps[cursor]) \in Nat
    BY <1>1, <2>1, <2>3, ConfigAssumption
    DEF ConfigAssumption, ControlInv, InStage, TypeOK, StepCount, Build
  <2>7. Outputs(cursor) \subseteq Registered
    BY <1>1, <2>1, <2>6 DEF FrontierInv, Outputs, TypeOK
  <2> QED
    BY <1>3, <2>1, <2>2, <2>4, <2>5, <2>7, NextBatchKeeps DEF stepVars
<1>14. CASE ResolveArtifact
  <2>1. /\ pc = "resolve" /\ UNCHANGED <<dbVars, kjob, stage, cursor, out, verdict, stepVars>>
        /\ (pc' = "launch" /\ failed' = failed) \/ (pc' = "finishJob" /\ failed')
    BY <1>14 DEF ResolveArtifact
  <2>2. StepInv' /\ StageGate'
    BY <1>1, <2>1, StillKeeps
  <2>3. /\ \A t \in Steps : InFlight(t)' = InFlight(t) /\ Passed(t)' = Passed(t)
        /\ AllDone' = AllDone /\ Registered' = Registered
    BY <2>1 DEF InFlight, Passed, AllDone, Registered, Declared, Outputs, stepVars
  <2>4. ControlInv'
    BY <1>1, <2>1 DEF ControlInv, InStage, Advancing
  <2>5. FrontierInv'
    <3>1. InStage /\ InStage' /\ (Advancing' => Advancing)
      BY <2>1 DEF InStage, Advancing
    <3>2. \A t \in Steps : (Past(t)' => Past(t)) /\ (Ahead(t)' => Ahead(t))
      BY <2>1, <3>1 DEF Past, Ahead
    <3> QED
      BY <1>1, <1>3, <2>1, <2>3, <3>1, <3>2 DEF FrontierInv, Outputs, stepVars
  <2>6. EndInv'
    BY <1>1, <2>1, <2>3 DEF EndInv
  <2> QED
    BY <2>2, <2>4, <2>5, <2>6
<1> QED
  BY <1>5, <1>6, <1>7, <1>8, <1>9, <1>10, <1>11, <1>12, <1>13, <1>14 DEF Main

-----------------------------------------------------------------------------
(* A call of Run by itself, whatever happens to the row of the run.        *)

LEMMA InitOwn == Init => OwnInv
<1> SUFFICES ASSUME Init PROVE OwnInv
  OBVIOUS
<1>1. /\ \A s \in Steps : stepPc[s] = "idle" /\ kjob[s] = NoJob
      /\ pc = "start" /\ stage = 0 /\ ~failed /\ verdict = "pending"
  BY DEF Init
<1>2. StepInv /\ StageGate
  BY <1>1 DEF StepInv, StageGate
<1>3. ControlInv /\ FrontierInv /\ EndInv
  BY <1>1 DEF ControlInv, FrontierInv, EndInv, InStage, Advancing, InFlight
<1> QED
  BY <1>2, <1>3, InitType DEF OwnInv

LEMMA OwnStep == OwnInv /\ [Next]_vars => OwnInv'
<1>1. ASSUME OwnInv, UNCHANGED vars PROVE OwnInv'
  <2>1. Quiet /\ UNCHANGED <<kjob, stepVars>>
    BY <1>1 DEF vars, dbVars, mainVars, stepVars, Quiet, Passed, InFlight
  <2> QED
    BY <1>1, <2>1, TypeStep, StillKeeps, QuietKeeps DEF OwnInv
<1> QED
  BY <1>1, MainKeeps, StepKeeps, EnvironmentKeeps DEF Next

(* Another call of Run on the same run can only write the run's row and    *)
(* use up failures.                                                        *)
LEMMA OthersKeep ==
  ASSUME OwnInv, UNCHANGED <<jobRow, stepRow, execRow, artifacts, kjob, mainVars, stepVars, ctxDone>>,
         runRow' \in RunRow, faults' \in 0..MaxFaults
  PROVE  OwnInv'
<1>1. TypeOK'
  BY DEF OwnInv, TypeOK, RunRow, mainVars, stepVars
<1>2. Quiet
  BY DEF Quiet, Passed, InFlight, stepVars
<1> QED
  BY <1>1, <1>2, StillKeeps, QuietKeeps DEF OwnInv

-----------------------------------------------------------------------------
(* The row of the run, written by one call.                                *)

(* Only StartRun and Finalize write the run's row.                         *)
LEMMA RunRowWriters ==
  ASSUME TypeOK, [Next]_vars, ~StartRun, ~Finalize
  PROVE  runRow' = runRow /\ (Stopped => Stopped')
<1> USE DEF dbVars, mainVars, vars, Stopped
<1>1. CASE Main
  BY <1>1 DEF Main, CreateJob, StartJob, FinishJob, FinishJobUnder, Decide, LaunchBatch,
              JoinBatch, RegisterArtifact, RegisteredAll, ResolveArtifact
<1>2. ASSUME NEW s \in Steps, StepGoroutine(s) PROVE runRow' = runRow /\ pc' = pc
  BY <1>2 DEF StepGoroutine, CreateStep, StartStep, StartStepOr, Submit, SubmitOr,
              RecordExecution, PollDone, StopPolling, PollRetry, PollTick, Report, FinishStep,
              FinishStepAs
<1>3. ASSUME NEW s \in Steps, ClusterStep(s) \/ VanishJob(s) PROVE runRow' = runRow /\ pc' = pc
  BY <1>3 DEF ClusterStep, VanishJob
<1>4. CASE CancelRun \/ Crash \/ Finished \/ UNCHANGED vars
  BY <1>4 DEF CancelRun, Crash, Finished
<1> QED
  BY <1>1, <1>2, <1>3, <1>4 DEF Next

(* A change of a row that is there ends in the status that was written.    *)
LEMMA WrittenStatus ==
  ASSUME NEW row \in RunRow, NEW st \in RunStates
  PROVE  UpdateStatus(row, st).status = st
  BY DEF UpdateStatus, RunRow, RunStates

(* What one call does to its verdict and to the row of the run: the        *)
(* verdict is passed once, and only "running" and the verdict are written. *)
LEMMA VerdictStep ==
  ASSUME OwnInv, VerdictInv, [Next]_vars
  PROVE  /\ VerdictInv'
         /\ verdict' = verdict \/ verdict = "pending"
         /\ \/ runRow' = runRow
            \/ runRow'.status = "running"
            \/ runRow'.status = verdict' /\ verdict' # "pending"
<1> USE DEF vars, mainVars
<1>1. TypeOK /\ runRow \in RunRow /\ verdict \in RunStates /\ failed \in BOOLEAN
  BY DEF OwnInv, TypeOK, RunRow
<1>2. CASE StartRun
  <2>1. /\ pc = "start" /\ verdict' = verdict /\ pc' \in {"createJob", "decide", "returned"}
        /\ runRow' = runRow \/ runRow' = UpdateStatus(runRow, "running")
    BY <1>2 DEF StartRun, EnterStageAfter
  <2>2. UpdateStatus(runRow, "running").status = "running"
    BY <1>1, WrittenStatus DEF RunStates
  <2> QED
    BY <2>1, <2>2 DEF VerdictInv
<1>3. CASE Finalize
  <2>1. /\ pc = "finalize" /\ verdict' = verdict /\ pc' = "returned"
        /\ runRow' = runRow \/ runRow' = UpdateStatus(runRow, verdict)
    BY <1>3 DEF Finalize, FinalizeUnder
  <2>2. UpdateStatus(runRow, verdict).status = verdict
    BY <1>1, WrittenStatus
  <2> QED
    BY <2>1, <2>2 DEF VerdictInv
<1>4. CASE ~StartRun /\ ~Finalize
  <2>1. runRow' = runRow
    BY <1>1, <1>4, RunRowWriters
  <2>2. CASE Decide
    <3>1. pc = "decide" /\ pc' = "finalize" /\ verdict' \in {"success", "failed", "canceled"}
      BY <2>2 DEF Decide
    <3> QED
      BY <2>1, <3>1 DEF VerdictInv
  <2>3. CASE Main /\ ~Decide
    <3>1. /\ verdict' = verdict /\ pc \notin {"finalize", "returned", "crashed"}
          /\ pc' # "finalize"
      <4>1. CASE CreateJob \/ StartJob \/ FinishJob
        BY <4>1 DEF CreateJob, StartJob, FinishJob, FinishJobUnder, EnterStageAfter
      <4>2. CASE LaunchBatch \/ RegisterArtifact \/ ResolveArtifact
        BY <4>2 DEF LaunchBatch, RegisterArtifact, ResolveArtifact
      <4>3. CASE JoinBatch \/ RegisteredAll
        BY <4>3 DEF JoinBatch, RegisteredAll, NextBatch
      <4> QED
        BY <1>4, <2>3, <4>1, <4>2, <4>3 DEF Main
    <3> QED
      BY <2>1, <3>1 DEF VerdictInv
  <2>4. ASSUME NEW s \in Steps, StepGoroutine(s) PROVE UNCHANGED <<pc, verdict>>
    BY <2>4 DEF StepGoroutine, CreateStep, StartStep, StartStepOr, Submit, SubmitOr,
                RecordExecution, PollDone, StopPolling, PollRetry, PollTick, Report, FinishStep,
                FinishStepAs
  <2>5. ASSUME NEW s \in Steps, ClusterStep(s) \/ VanishJob(s) PROVE UNCHANGED <<pc, verdict>>
    BY <2>5 DEF ClusterStep, VanishJob
  <2>6. CASE CancelRun \/ Finished \/ UNCHANGED vars
    BY <2>1, <2>6 DEF CancelRun, Finished, VerdictInv
  <2>7. CASE Crash
    BY <2>1, <2>7 DEF Crash, VerdictInv
  <2> QED
    BY <2>1, <2>2, <2>3, <2>4, <2>5, <2>6, <2>7 DEF Next, VerdictInv
<1> QED
  BY <1>2, <1>3, <1>4

(* A call that ends when no call to the outside has failed has written     *)
(* what it decided, or was cancelled before it got under way.              *)
LEMMA EndStep ==
  ASSUME OwnInv, VerdictInv, [Next]_vars, ~Stopped, Stopped', faults' = 0
  PROVE  \/ runRow'.status = verdict' /\ verdict' \in {"success", "failed", "canceled"}
         \/ verdict' = "pending" /\ ctxDone'
<1> USE DEF vars, mainVars
<1>1. TypeOK /\ runRow \in RunRow /\ verdict \in RunStates /\ faults \in Nat
  BY FaultAssumption DEF OwnInv, TypeOK, RunRow
<1>2. ~Fault
  BY <1>1 DEF Fault
<1>3. CASE StartRun
  <2>1. PICK ok \in BOOLEAN, done \in BOOLEAN :
          Call(TRUE, ok, done) /\ (ok => pc' \in {"createJob", "decide"})
    BY <1>3 DEF StartRun, EnterStageAfter
  <2>2. ctxDone
    BY <1>2, <2>1 DEF Call, Stopped
  <2> QED
    BY <1>3, <2>2 DEF StartRun, VerdictInv
<1>4. CASE Finalize
  <2>1. PICK ok \in BOOLEAN, done \in BOOLEAN :
          Call(FALSE, ok, done) /\ runRow' = IF done THEN UpdateStatus(runRow, verdict) ELSE runRow
    BY <1>4 DEF Finalize, FinalizeUnder
  <2>2. runRow' = UpdateStatus(runRow, verdict)
    BY <1>2, <2>1 DEF Call
  <2>3. UpdateStatus(runRow, verdict).status = verdict
    BY <1>1, WrittenStatus
  <2> QED
    BY <1>4, <2>2, <2>3 DEF Finalize, FinalizeUnder, VerdictInv
<1>5. CASE ~StartRun /\ ~Finalize
  <2>1. ~Crash
    BY <1>2 DEF Crash
  <2>2. CASE Main
    <3>1. CASE CreateJob \/ StartJob \/ FinishJob \/ Decide
      BY <3>1 DEF CreateJob, StartJob, FinishJob, FinishJobUnder, EnterStageAfter, Decide, Stopped
    <3>2. CASE LaunchBatch \/ RegisterArtifact \/ ResolveArtifact
      BY <3>2 DEF LaunchBatch, RegisterArtifact, ResolveArtifact, Stopped
    <3>3. CASE JoinBatch \/ RegisteredAll
      BY <3>3 DEF JoinBatch, RegisteredAll, NextBatch, Stopped
    <3> QED
      BY <1>5, <2>2, <3>1, <3>2, <3>3 DEF Main
  <2>3. ASSUME NEW s \in Steps, StepGoroutine(s) PROVE FALSE
    BY <2>3 DEF Stopped, StepGoroutine, CreateStep, StartStep, StartStepOr, Submit, SubmitOr,
                RecordExecution, PollDone, StopPolling, PollRetry, PollTick, Report, FinishStep,
                FinishStepAs
  <2>4. ASSUME NEW s \in Steps, ClusterStep(s) \/ VanishJob(s) PROVE FALSE
    BY <2>4 DEF ClusterStep, VanishJob, Stopped
  <2>5. CASE CancelRun \/ Finished \/ UNCHANGED vars
    BY <2>5 DEF CancelRun, Finished, Stopped
  <2> QED
    BY <2>1, <2>2, <2>3, <2>4, <2>5 DEF Next
<1> QED
  BY <1>3, <1>4, <1>5

(* After the end of a call only the cluster still moves.                   *)
LEMMA StoppedRests ==
  ASSUME OwnInv, [Next]_vars, Stopped
  PROVE  UNCHANGED <<dbVars, mainVars, stepVars, ctxDone>>
<1> USE DEF vars, dbVars, mainVars, stepVars, Stopped
<1>1. ~Main
  BY DEF Main, StartRun, CreateJob, StartJob, FinishJob, FinishJobUnder, Decide, Finalize,
     FinalizeUnder, LaunchBatch, JoinBatch, RegisterArtifact, RegisteredAll, ResolveArtifact
<1>2. ASSUME NEW s \in Steps PROVE ~StepGoroutine(s) \/ UNCHANGED vars
  <2>1. ~InFlight(s)
    BY DEF OwnInv, FrontierInv
  <2> QED
    BY <2>1 DEF InFlight, StepGoroutine, CreateStep, StartStep, StartStepOr, Submit, SubmitOr,
                RecordExecution, PollDone, StopPolling, PollRetry, PollTick, Report, FinishStep,
                FinishStepAs
<1>3. CASE \E s \in Steps : ClusterStep(s) \/ VanishJob(s)
  BY <1>3 DEF ClusterStep, VanishJob
<1> QED
  BY <1>1, <1>2, <1>3 DEF Next, CancelRun, Crash, Finished

(* Failures are counted, the end of the context is for good.               *)
LEMMA FaultsGrow ==
  ASSUME TypeOK, [Next]_vars
  PROVE  faults \in Nat /\ faults' \in Nat /\ faults' >= faults /\ (ctxDone => ctxDone')
<1> USE DEF vars, mainVars
<1>1. faults \in Nat
  BY FaultAssumption DEF TypeOK
<1>2. faults' = faults \/ Fault
  <2>1. CASE Main
    BY <2>1 DEF Main, StartRun, CreateJob, StartJob, FinishJob, FinishJobUnder, Decide, Finalize,
       FinalizeUnder, LaunchBatch, JoinBatch, RegisterArtifact, RegisteredAll, ResolveArtifact, Call
  <2>2. ASSUME NEW s \in Steps, StepGoroutine(s) PROVE faults' = faults \/ Fault
    BY <2>2 DEF StepGoroutine, CreateStep, StartStep, StartStepOr, Submit, SubmitOr,
                RecordExecution, PollDone, StopPolling, PollRetry, PollTick, Report, FinishStep,
                FinishStepAs, Call
  <2>3. ASSUME NEW s \in Steps, ClusterStep(s) \/ VanishJob(s) PROVE faults' = faults \/ Fault
    BY <2>3 DEF ClusterStep, VanishJob
  <2> QED
    BY <2>1, <2>2, <2>3 DEF Next, CancelRun, Crash, Finished
<1>3. ctxDone => ctxDone'
  <2>1. CASE Main
    BY <2>1 DEF Main, StartRun, CreateJob, StartJob, FinishJob, FinishJobUnder, Decide, Finalize,
       FinalizeUnder, LaunchBatch, JoinBatch, RegisterArtifact, RegisteredAll, ResolveArtifact
  <2>2. ASSUME NEW s \in Steps, StepGoroutine(s) PROVE ctxDone' = ctxDone
    BY <2>2 DEF StepGoroutine, CreateStep, StartStep, StartStepOr, Submit, SubmitOr,
                RecordExecution, PollDone, StopPolling, PollRetry, PollTick, Report, FinishStep,
                FinishStepAs
  <2>3. ASSUME NEW s \in Steps, ClusterStep(s) \/ VanishJob(s) PROVE ctxDone' = ctxDone
    BY <2>3 DEF ClusterStep, VanishJob
  <2> QED
    BY <2>1, <2>2, <2>3 DEF Next, CancelRun, Crash, Finished
<1> QED
  BY <1>1, <1>2, <1>3 DEF Fault

(* Run gets ahead only by getting started.                                 *)
LEMMA AdvancingBefore ==
  ASSUME OwnInv, [Next]_vars, ~StartRun, Advancing'
  PROVE  Advancing
<1> USE DEF Advancing, InStage, mainVars, vars
<1>0. pc \in {"createJob", "startJob", "resolve", "launch", "wait", "register"} => ~failed
  BY DEF OwnInv, ControlInv
<1>1. CASE Main
  <2>1. CASE Decide \/ Finalize
    BY <2>1 DEF Decide, Finalize, FinalizeUnder
  <2>2. CASE FinishJob
    BY <2>2 DEF FinishJob, FinishJobUnder
  <2>3. CASE CreateJob \/ StartJob
    BY <1>0, <2>3 DEF CreateJob, StartJob
  <2>4. CASE LaunchBatch \/ JoinBatch \/ RegisterArtifact \/ RegisteredAll \/ ResolveArtifact
    <3>1. pc \in {"launch", "wait", "register", "resolve"}
      BY <2>4 DEF LaunchBatch, JoinBatch, RegisterArtifact, RegisteredAll, ResolveArtifact
    <3> QED
      BY <1>0, <3>1
  <2> QED
    BY <1>1, <2>1, <2>2, <2>3, <2>4 DEF Main
<1>2. ASSUME NEW s \in Steps, StepGoroutine(s) PROVE UNCHANGED mainVars
  BY <1>2 DEF StepGoroutine, CreateStep, StartStep, StartStepOr, Submit, SubmitOr,
              RecordExecution, PollDone, StopPolling, PollRetry, PollTick, Report, FinishStep,
              FinishStepAs
<1>3. ASSUME NEW s \in Steps, ClusterStep(s) \/ VanishJob(s) PROVE UNCHANGED mainVars
  BY <1>3 DEF ClusterStep, VanishJob
<1>4. CASE CancelRun \/ Crash \/ Finished \/ UNCHANGED vars
  BY <1>4 DEF CancelRun, Crash, Finished
<1> QED
  BY <1>1, <1>2, <1>3, <1>4 DEF Next

(* What has been achieved stays so.                                        *)
LEMMA JobStays ==
  ASSUME OwnInv, [Next]_vars, NEW t \in Steps, kjob[t].pod = "exited0"
  PROVE  kjob'[t].pod = "exited0"
<1> USE DEF vars, dbVars
<1>0. kjob \in [Steps -> Jobs]
  BY DEF OwnInv, TypeOK
<1>1. ASSUME NEW s \in Steps, kjob' = [kjob EXCEPT ![s] = CancelJob(@)]
      PROVE  kjob'[t].pod = "exited0"
  BY <1>0, <1>1 DEF CancelJob, Jobs
<1>2. ASSUME NEW s \in Steps, StepGoroutine(s) PROVE kjob'[t].pod = "exited0"
  <2>1. CASE Submit(s)
    <3>1. kjob[s] = NoJob
      BY <2>1 DEF Submit, SubmitOr, OwnInv, StepInv
    <3>2. t # s
      BY <3>1 DEF NoJob
    <3> QED
      BY <1>0, <2>1, <3>2 DEF Submit, SubmitOr
  <2>2. CASE PollDone(s)
    <3>1. kjob' = kjob \/ kjob' = [kjob EXCEPT ![s] = CancelJob(@)]
      BY <2>2 DEF PollDone, StopPolling
    <3> QED
      BY <1>1, <3>1
  <2>3. CASE ~Submit(s) /\ ~PollDone(s)
    BY <1>2, <2>3 DEF StepGoroutine, CreateStep, StartStep, StartStepOr, RecordExecution,
                      PollRetry, PollTick, Report, FinishStep, FinishStepAs
  <2> QED
    BY <2>1, <2>2, <2>3
<1>3. ASSUME NEW s \in Steps, ClusterStep(s) PROVE kjob'[t].pod = "exited0"
  BY <1>0, <1>3, ClusterMovesKeep DEF ClusterStep
<1>4. ASSUME NEW s \in Steps, VanishJob(s) PROVE kjob'[t].pod = "exited0"
  BY <1>1, <1>4 DEF VanishJob
<1>5. CASE Main
  BY <1>5 DEF Main, StartRun, CreateJob, StartJob, FinishJob, FinishJobUnder, Decide, Finalize,
     FinalizeUnder, LaunchBatch, JoinBatch, RegisterArtifact, RegisteredAll, ResolveArtifact
<1>6. CASE CancelRun \/ Crash \/ Finished \/ UNCHANGED vars
  BY <1>6 DEF CancelRun, Crash, Finished
<1> QED
  BY <1>2, <1>3, <1>4, <1>5, <1>6 DEF Next

LEMMA ArtifactsStay ==
  ASSUME OwnInv, [Next]_vars
  PROVE  Registered \subseteq Registered'
<1> USE DEF vars, dbVars
<1>1. CASE RegisterArtifact
  <2>1. <<cursor, out>> \in Nat \X Nat /\ UNCHANGED kjob /\ TypeOK
    BY <1>1 DEF OwnInv, TypeOK, RegisterArtifact
  <2>2. artifacts' = artifacts \/ artifacts' = Append(artifacts, <<cursor, out>>)
    BY <1>1 DEF RegisterArtifact
  <2> QED
    BY <2>1, <2>2, AllDoneKept
<1>2. CASE ~RegisterArtifact
  <2>1. CASE Main
    BY <1>2, <2>1 DEF Main, StartRun, CreateJob, StartJob, FinishJob, FinishJobUnder, Decide,
       Finalize, FinalizeUnder, LaunchBatch, JoinBatch, RegisteredAll, ResolveArtifact, Registered
  <2>2. ASSUME NEW s \in Steps, StepGoroutine(s) PROVE artifacts' = artifacts
    BY <2>2 DEF StepGoroutine, CreateStep, StartStep, StartStepOr, Submit, SubmitOr,
                RecordExecution, PollDone, StopPolling, PollRetry, PollTick, Report, FinishStep,
                FinishStepAs
  <2>3. ASSUME NEW s \in Steps, ClusterStep(s) \/ VanishJob(s) PROVE artifacts' = artifacts
    BY <2>3 DEF ClusterStep, VanishJob
  <2>4. CASE CancelRun \/ Crash \/ Finished \/ UNCHANGED vars
    BY <2>4 DEF CancelRun, Crash, Finished, Registered
  <2> QED
    BY <2>1, <2>2, <2>3, <2>4 DEF Next, Registered
<1> QED
  BY <1>1, <1>2

LEMMA AllDoneStays ==
  ASSUME OwnInv, [Next]_vars, AllDone
  PROVE  AllDone'
<1>1. \A t \in Steps : Passed(t) => Passed(t)'
  BY JobStays DEF Passed
<1> QED
  BY <1>1, ArtifactsStay DEF AllDone, Declared, Outputs

LEMMA SaysStep ==
  ASSUME Inv, [Next]_vars
  PROVE  RunRowSays'
<1>1. OwnInv /\ RunRowSays /\ TypeOK /\ runRow \in RunRow /\ verdict \in RunStates
  BY DEF Inv, OwnInv, TypeOK, RunRow
<1>2. AllDone => AllDone'
  BY <1>1, AllDoneStays
<1>3. CASE StartRun
  <2>1. PICK ok \in BOOLEAN, done \in BOOLEAN :
          /\ Call(TRUE, ok, done)
          /\ runRow' = IF done THEN UpdateStatus(runRow, "running") ELSE runRow
          /\ ~ok => pc' = "returned"
    BY <1>3 DEF StartRun
  <2>2. UpdateStatus(runRow, "running").status = "running"
    BY <1>1, WrittenStatus DEF RunStates
  <2>3. Advancing' => runRow'.status = "running"
    BY <2>1, <2>2 DEF Call, Advancing, InStage
  <2>4. runRow'.status = "success" => AllDone'
    BY <1>1, <1>2, <2>1, <2>2 DEF RunRowSays
  <2> QED
    BY <2>3, <2>4 DEF RunRowSays
<1>4. CASE Finalize
  <2>1. /\ pc' = "returned" /\ verdict' = verdict
        /\ runRow' = runRow \/ runRow' = UpdateStatus(runRow, verdict)
    BY <1>4 DEF Finalize, FinalizeUnder
  <2>2. verdict = "success" => AllDone
    BY <1>1 DEF OwnInv, EndInv
  <2>3. UpdateStatus(runRow, verdict).status = verdict
    BY <1>1, WrittenStatus
  <2> QED
    BY <1>1, <1>2, <2>1, <2>2, <2>3 DEF RunRowSays, Advancing, InStage
<1>5. CASE ~StartRun /\ ~Finalize
  BY <1>1, <1>2, <1>5, RunRowWriters, AdvancingBefore DEF RunRowSays
<1> QED
  BY <1>3, <1>4, <1>5

-----------------------------------------------------------------------------
(* The theorems.                                                           *)

LEMMA InitInv == Init => Inv
<1> SUFFICES ASSUME Init PROVE Inv
  OBVIOUS
<1>1. pc = "start" /\ runRow.status = "pending"
  BY DEF Init, NewRow
<1>2. RunRowSays
  BY <1>1 DEF RunRowSays, Advancing, InStage
<1> QED
  BY <1>2, InitOwn DEF Inv

LEMMA NextKeeps == Inv /\ [Next]_vars => Inv'
  BY OwnStep, SaysStep DEF Inv

(* The frontier moves through the configuration in order, for any          *)
(* configuration and any number of failed calls, vanished Jobs, a crash    *)
(* and a cancellation at any moment.                                       *)
THEOREM Invariance == Spec => []Inv
  BY InitInv, NextKeeps, PTL DEF Spec

(* No command reaches the cluster before everything the configuration puts *)
(* before it has exited 0.                                                 *)
THEOREM StagesAreGated == Spec => []StageGate
<1>1. Inv => StageGate
  BY DEF Inv, OwnInv
<1> QED
  BY <1>1, Invariance, PTL

(* A run recorded as "success" ran every command to exit code 0 and        *)
(* registered every declared output.                                       *)
THEOREM SuccessIsTrue == Spec => []NoFalseSuccess
<1>1. Inv => NoFalseSuccess
  BY DEF Inv, RunRowSays, AllDone, NoFalseSuccess
<1> QED
  BY <1>1, Invariance, PTL

(* The rows of the job and of the run say "running" for as long as the     *)
(* goroutine of one of its steps is at work.                               *)
THEOREM NothingClosesEarly == Spec => []JoinBeforeClose
<1>1. Inv => JoinBeforeClose
  <2> SUFFICES ASSUME Inv, NEW s \in Steps, InFlight(s)
               PROVE  jobRow[s[1]].status = "running" /\ runRow.status = "running"
    BY DEF JoinBeforeClose
  <2>1. pc = "wait" /\ s[1] = stage
    BY DEF Inv, OwnInv, FrontierInv, InBatch
  <2> QED
    BY <2>1 DEF Inv, OwnInv, ControlInv, RunRowSays, InStage, Advancing
<1> QED
  BY <1>1, Invariance, PTL
=============================================================================
