---------------------------- MODULE Orchestrator ----------------------------
(***************************************************************************)
(* One call of Orchestrator.Run on one pipeline run: the goroutine of the  *)
(* caller drives the stages (Run, executeStages, runStage and the Run      *)
(* methods of Buildinator, Testinator and Deployinator), one goroutine per *)
(* step in flight drives runStep, executeAndPoll and poll, and the cluster *)
(* moves the Kubernetes Jobs on its own.                                   *)
(*                                                                         *)
(* Every call to the database or to the cluster is one action.  It can     *)
(* succeed, fail without effect, or take effect while the reply is lost.   *)
(***************************************************************************)
EXTENDS Integers, Sequences, StatusRows, KubernetesExecutor

CONSTANTS
  ArtifactTypes,   \* types an output may declare
  NoArtifact,      \* "no deploy stage"
  BuildSteps,      \* build.steps: for each step the sequence of its outputs' types
  TestSteps,       \* test.steps: for each step whether it is marked parallel
  DeployArtifact,  \* deploy.artifact, or NoArtifact
  MaxFaults        \* bound on failures of the environment in one behaviour

(* What config.Load guarantees; an empty sequence stands for a stage the   *)
(* configuration leaves out.                                               *)
ASSUME ConfigAssumption ==
  /\ BuildSteps \in Seq(Seq(ArtifactTypes))
  /\ TestSteps \in Seq(BOOLEAN)
  /\ DeployArtifact \in ArtifactTypes \cup {NoArtifact}
  /\ NoArtifact \notin ArtifactTypes

ASSUME FaultAssumption == MaxFaults \in Nat

(* The job types, numbered in the order executeStages runs them.           *)
Build  == 1
Test   == 2
Deploy == 3
Stages == {Build, Test, Deploy}

StepCount(st) ==
  IF st = Build THEN Len(BuildSteps)
  ELSE IF st = Test THEN Len(TestSteps)
  ELSE IF DeployArtifact = NoArtifact THEN 0 ELSE 1

Steps == UNION {{st} \X (1..StepCount(st)) : st \in Stages}

VARIABLES
  runRow, jobRow, stepRow, execRow, \* the database; one job per stage, one execution per step
  artifacts,                        \* artifact rows by created_at: <<build step, output>>
  kjob,                             \* the Kubernetes Job of each step
  pc, stage, cursor, out,           \* control of Run: point, stage, first step of the batch, output
  deployed,                         \* the artifact the deploy stage chose
  failed, verdict,                  \* runErr # nil, finalState
  stepPc, stepErr, phase,           \* control of runStep, its result, the phase last read
  ctxDone,                          \* the context of Run is cancelled
  faults                            \* environment failures so far

dbVars   == <<runRow, jobRow, stepRow, execRow, artifacts>>
mainVars == <<pc, stage, cursor, out, deployed, failed, verdict>>
stepVars == <<stepPc, stepErr, phase>>
vars     == <<dbVars, kjob, mainVars, stepVars, ctxDone, faults>>

NoStepRow     == [status |-> "absent", started |-> FALSE, finished |-> FALSE, group |-> 0]
NewStepRow(g) == [status |-> "pending", started |-> FALSE, finished |-> FALSE, group |-> g]
NoArtifactRow == <<0, 0>>

Init ==
  /\ runRow = NewRow
  /\ jobRow = [st \in Stages |-> NoRow]
  /\ stepRow = [s \in Steps |-> NoStepRow]
  /\ execRow = [s \in Steps |-> NoExecRow]
  /\ artifacts = <<>>
  /\ kjob = [s \in Steps |-> NoJob]
  /\ pc = "start" /\ stage = 0 /\ cursor = 1 /\ out = 1
  /\ deployed = NoArtifactRow
  /\ failed = FALSE /\ verdict = "pending"
  /\ stepPc = [s \in Steps |-> "idle"]
  /\ stepErr = [s \in Steps |-> FALSE]
  /\ phase = [s \in Steps |-> "pending"]
  /\ ctxDone = FALSE /\ faults = 0

-----------------------------------------------------------------------------
(* Calls to the outside.                                                   *)

Fault == faults < MaxFaults /\ faults' = faults + 1

(* A call that runs under the context of Run (ctxBound) or under one that  *)
(* cannot be cancelled.  ok: it returned nil; done: it took effect.  A     *)
(* cancelled call may have taken effect: it may have been cut off on its   *)
(* way back.                                                               *)
Call(ctxBound, ok, done) ==
  \/ ok /\ done /\ ~(ctxBound /\ ctxDone) /\ UNCHANGED faults
  \/ ~ok /\ ctxBound /\ ctxDone /\ UNCHANGED faults
  \/ ~ok /\ Fault

-----------------------------------------------------------------------------
(* Run, executeStages and runStage.                                        *)

(* executeStages moves on to the next stage the configuration defines.     *)
EnterStageAfter(st) ==
  LET later == {t \in Stages : t > st /\ StepCount(t) > 0}
  IN IF later = {} THEN pc' = "decide" /\ UNCHANGED stage
     ELSE \E t \in later :
            /\ \A u \in later : t <= u
            /\ stage' = t
            /\ pc' = "createJob"

StartRun ==
  /\ pc = "start"
  /\ \E ok, done \in BOOLEAN :
       /\ Call(TRUE, ok, done)
       /\ runRow' = IF done THEN UpdateStatus(runRow, "running") ELSE runRow
       /\ IF ok THEN EnterStageAfter(0) /\ UNCHANGED failed
          ELSE pc' = "returned" /\ failed' = TRUE /\ UNCHANGED stage
  /\ UNCHANGED <<jobRow, stepRow, execRow, artifacts, kjob, cursor, out, deployed,
                 verdict, stepVars, ctxDone>>

CreateJob ==
  /\ pc = "createJob"
  /\ \E ok, done \in BOOLEAN :
       /\ Call(TRUE, ok, done)
       /\ jobRow' = IF done THEN [jobRow EXCEPT ![stage] = NewRow] ELSE jobRow
       /\ pc' = IF ok THEN "startJob" ELSE "decide"
       /\ failed' = ~ok
  /\ UNCHANGED <<runRow, stepRow, execRow, artifacts, kjob, stage, cursor, out,
                 deployed, verdict, stepVars, ctxDone>>

StartJob ==
  /\ pc = "startJob"
  /\ \E ok, done \in BOOLEAN :
       /\ Call(TRUE, ok, done)
       /\ jobRow' = IF done THEN [jobRow EXCEPT ![stage] = UpdateStatus(@, "running")] ELSE jobRow
       /\ pc' = IF ~ok THEN "decide" ELSE IF stage = Deploy THEN "resolve" ELSE "launch"
       /\ failed' = ~ok
       /\ cursor' = 1
  /\ UNCHANGED <<runRow, stepRow, execRow, artifacts, kjob, stage, out, deployed,
                 verdict, stepVars, ctxDone>>

(* The job's final state is written under a context that ignores the       *)
(* cancellation; a failure of that write is logged and forgotten.          *)
FinishJobUnder(ctxBound) ==
  /\ pc = "finishJob"
  /\ \E ok, done \in BOOLEAN :
       /\ Call(ctxBound, ok, done)
       /\ jobRow' = IF done
                    THEN [jobRow EXCEPT ![stage] =
                            UpdateStatus(@, IF failed THEN "failed" ELSE "succeeded")]
                    ELSE jobRow
  /\ IF failed THEN pc' = "decide" /\ UNCHANGED stage ELSE EnterStageAfter(stage)
  /\ UNCHANGED <<runRow, stepRow, execRow, artifacts, kjob, cursor, out, deployed,
                 failed, verdict, stepVars, ctxDone>>

\* Slip: the job's last write uses the run's own context.
FinishJobUnderRunCtx == FinishJobUnder(TRUE)

FinishJob == FinishJobUnder(FALSE)

(* Run looks at the context once more, then writes what it decided.        *)
Decide ==
  /\ pc = "decide"
  /\ verdict' = IF ctxDone THEN "canceled" ELSE IF failed THEN "failed" ELSE "success"
  /\ pc' = "finalize"
  /\ UNCHANGED <<dbVars, kjob, stage, cursor, out, deployed, failed, stepVars, ctxDone, faults>>

FinalizeUnder(ctxBound) ==
  /\ pc = "finalize"
  /\ \E ok, done \in BOOLEAN :
       /\ Call(ctxBound, ok, done)
       /\ runRow' = IF done THEN UpdateStatus(runRow, verdict) ELSE runRow
  /\ pc' = "returned"
  /\ UNCHANGED <<jobRow, stepRow, execRow, artifacts, kjob, stage, cursor, out, deployed,
                 failed, verdict, stepVars, ctxDone>>

\* Slip: the final write uses the run's own, possibly cancelled, context.
FinalizeUnderRunCtx == FinalizeUnder(TRUE)

Finalize == FinalizeUnder(FALSE)

-----------------------------------------------------------------------------
(* The step loops of the three stages.                                     *)

\* Slip: a batch takes every remaining step once it has met a parallel one.
GreedyBatch(st, i) ==
  IF st = Test /\ TestSteps[i] THEN i..Len(TestSteps) ELSE {i}

(* The steps run together with step i: the maximal block of adjacent       *)
(* parallel test steps starting at i, otherwise i alone.                   *)
Batch(st, i) ==
  IF st = Test /\ TestSteps[i]
  THEN {j \in i..Len(TestSteps) : \A k \in i..j : TestSteps[k]}
  ELSE {i}

InBatch == {stage} \X Batch(stage, cursor)

\* Slip: every parallel batch gets the same group name.
OneGroupName == IF stage = Test /\ TestSteps[cursor] THEN 1 ELSE 0

(* parallel_group of the batch: named after its first step, 0 is NULL.     *)
BatchGroup == IF stage = Test /\ TestSteps[cursor] THEN cursor ELSE 0

LaunchBatch ==
  /\ pc = "launch"
  /\ stepPc' = [s \in Steps |-> IF s \in InBatch THEN "create" ELSE stepPc[s]]
  /\ pc' = "wait"
  /\ UNCHANGED <<dbVars, kjob, stage, cursor, out, deployed, failed, verdict, stepErr,
                 phase, ctxDone, faults>>

(* The loop over the steps goes on behind the batch, or ends.              *)
NextBatch ==
  \E next \in 1..(StepCount(stage) + 1) :
    /\ next > cursor
    /\ \A m \in cursor..(next - 1) : m \in Batch(stage, cursor)
    /\ next \notin Batch(stage, cursor)
    /\ cursor' = next
    /\ pc' = IF next <= StepCount(stage) THEN "launch" ELSE "finishJob"

\* Slip: the stage goes on as soon as one step of the batch has finished.
SomeStepDone == \E s \in InBatch : stepPc[s] = "done"

\* Slip: a step counts as over when its polling is (an early wg.Done).
PollingDone == \A s \in InBatch : stepPc[s] \in {"finish", "done"}

BatchDone == \A s \in InBatch : stepPc[s] = "done"

\* Slip: a batch fails only if every step of it fails.
WholeBatchFailed == \A s \in InBatch : stepErr[s]

BatchFailed == \E s \in InBatch : stepErr[s]

JoinBatch ==
  /\ pc = "wait" /\ BatchDone
  /\ IF BatchFailed
     THEN failed' = TRUE /\ pc' = "finishJob" /\ UNCHANGED <<cursor, out>>
     ELSE /\ UNCHANGED failed
          /\ IF stage = Build THEN pc' = "register" /\ out' = 1 /\ UNCHANGED cursor
             ELSE NextBatch /\ UNCHANGED out
  /\ UNCHANGED <<dbVars, kjob, stage, deployed, verdict, stepVars, ctxDone, faults>>

(* Buildinator.Run registers the outputs of the step that succeeded.       *)
RegisterArtifact ==
  /\ pc = "register"
  /\ out <= Len(BuildSteps[cursor])
  /\ \E ok, done \in BOOLEAN :
       /\ Call(TRUE, ok, done)
       /\ artifacts' = IF done THEN Append(artifacts, <<cursor, out>>) ELSE artifacts
       /\ IF ok THEN out' = out + 1 /\ UNCHANGED <<pc, failed>>
          ELSE pc' = "finishJob" /\ failed' = TRUE /\ UNCHANGED out
  /\ UNCHANGED <<runRow, jobRow, stepRow, execRow, kjob, stage, cursor, deployed, verdict,
                 stepVars, ctxDone>>

RegisteredAll ==
  /\ pc = "register"
  /\ out > Len(BuildSteps[cursor])
  /\ NextBatch
  /\ UNCHANGED <<dbVars, kjob, stage, out, deployed, failed, verdict, stepVars, ctxDone, faults>>

(* Positions in artifacts, oldest first, of rows of the wanted type.       *)
Matches == {k \in DOMAIN artifacts : BuildSteps[artifacts[k][1]][artifacts[k][2]] = DeployArtifact}

\* Slip: the search does not stop at the first match.
LastMatch(k) == k \in Matches /\ \A l \in Matches : l <= k

FirstMatch(k) == k \in Matches /\ \A l \in Matches : k <= l

(* Deployinator.Run lists the build job's artifacts and picks one.  With   *)
(* no build stage the build job id is zero and the list is empty.          *)
ResolveArtifact ==
  /\ pc = "resolve"
  /\ \E ok, done \in BOOLEAN :
       /\ Call(TRUE, ok, done)
       /\ IF ok /\ Matches # {}
          THEN /\ \E k \in Matches : FirstMatch(k) /\ deployed' = artifacts[k]
               /\ pc' = "launch"
               /\ UNCHANGED failed
          ELSE pc' = "finishJob" /\ failed' = TRUE /\ UNCHANGED deployed
  /\ UNCHANGED <<dbVars, kjob, stage, cursor, out, verdict, stepVars, ctxDone>>

-----------------------------------------------------------------------------
(* runStep, executeAndPoll and poll of one step.                           *)

CreateStep(s) ==
  /\ stepPc[s] = "create"
  /\ \E ok, done \in BOOLEAN :
       /\ Call(TRUE, ok, done)
       /\ stepRow' = IF done THEN [stepRow EXCEPT ![s] = NewStepRow(BatchGroup)] ELSE stepRow
       /\ stepPc' = [stepPc EXCEPT ![s] = IF ok THEN "start" ELSE "done"]
       /\ stepErr' = [stepErr EXCEPT ![s] = ~ok]
  /\ UNCHANGED <<runRow, jobRow, execRow, artifacts, kjob, mainVars, phase, ctxDone>>

StartStepOr(s, refused) ==
  /\ stepPc[s] = "start"
  /\ \E ok, done \in BOOLEAN :
       /\ Call(TRUE, ok, done)
       /\ stepRow' = IF done THEN [stepRow EXCEPT ![s] = UpdateStatus(@, "running")] ELSE stepRow
       /\ stepPc' = [stepPc EXCEPT ![s] = IF ok THEN "submit" ELSE refused]
       /\ stepErr' = [stepErr EXCEPT ![s] = ~ok]
  /\ UNCHANGED <<runRow, jobRow, execRow, artifacts, kjob, mainVars, phase, ctxDone>>

\* Slip: a step that could not be started is finalized all the same.
StartStepOrFinish(s) == StartStepOr(s, "finish")

(* A step that could not be started is left as it is.                      *)
StartStep(s) == StartStepOr(s, "done")

SubmitOr(s, refused) ==
  /\ stepPc[s] = "submit"
  /\ \E ok, done \in BOOLEAN :
       /\ Call(TRUE, ok, done)
       /\ kjob' = IF done THEN [kjob EXCEPT ![s] = SubmittedJob] ELSE kjob
       /\ stepPc' = [stepPc EXCEPT ![s] = IF ok THEN "record" ELSE refused]
       /\ stepErr' = [stepErr EXCEPT ![s] = ~ok]
  /\ UNCHANGED <<dbVars, mainVars, phase, ctxDone>>

\* Slip: a Submit that returned an error is tried again.
SubmitAgain(s) == SubmitOr(s, "submit")

(* A Submit that returned an error is not repeated: the Job may exist.     *)
Submit(s) == SubmitOr(s, "finish")

(* When the execution cannot be recorded its Job is not cancelled.         *)
RecordExecution(s) ==
  /\ stepPc[s] = "record"
  /\ \E ok, done \in BOOLEAN :
       /\ Call(TRUE, ok, done)
       /\ execRow' = IF done THEN [execRow EXCEPT ![s] = NewExecRow] ELSE execRow
       /\ stepPc' = [stepPc EXCEPT ![s] = IF ok THEN "poll" ELSE "finish"]
       /\ stepErr' = [stepErr EXCEPT ![s] = ~ok]
  /\ UNCHANGED <<runRow, jobRow, stepRow, artifacts, kjob, mainVars, phase, ctxDone>>

StopPolling(s, cancels) ==
  /\ stepPc[s] = "poll" /\ ctxDone
  /\ \E ok, done \in BOOLEAN :
       /\ Call(FALSE, ok, done)
       /\ kjob' = IF done /\ cancels THEN [kjob EXCEPT ![s] = CancelJob(@)] ELSE kjob
  /\ stepPc' = [stepPc EXCEPT ![s] = "finish"]
  /\ stepErr' = [stepErr EXCEPT ![s] = TRUE]
  /\ UNCHANGED <<dbVars, mainVars, phase, ctxDone>>

\* Slip: the cancelled step forgets its Job.
PollForget(s) == StopPolling(s, FALSE)

\* Slip: the context is looked at only after the Job could be read.
PollDoneAfterRead(s) == Readable(kjob[s]) /\ StopPolling(s, TRUE)

(* poll sees that the context is done: it deletes the Job under a context  *)
(* of its own and ignores how that ends.                                   *)
PollDone(s) == StopPolling(s, TRUE)

(* A tick whose Status call fails changes nothing: poll waits for another. *)
(* This is also how it goes on when the Job is gone.                       *)
PollRetry(s) == stepPc[s] = "poll" /\ UNCHANGED vars

(* A tick that reads the phase.                                            *)
PollTick(s) ==
  /\ stepPc[s] = "poll" /\ ~ctxDone
  /\ Readable(kjob[s])
  /\ phase' = [phase EXCEPT ![s] = jobToStatus(kjob[s])]
  /\ stepPc' = [stepPc EXCEPT ![s] = "report"]
  /\ UNCHANGED <<dbVars, kjob, mainVars, stepErr, ctxDone, faults>>

\* Slip: only a canceled phase counts as an error.
PhaseIsCanceled(p) == p = "canceled"

(* poll's result once the phase is terminal.                               *)
PhaseIsError(p) == p # "succeeded"

(* The rest of that tick: the phase goes to the execution row, which may   *)
(* fail unnoticed, and a terminal phase ends the loop.                     *)
Report(s) ==
  /\ stepPc[s] = "report"
  /\ \E ok, done \in BOOLEAN :
       /\ Call(TRUE, ok, done)
       /\ execRow' = IF done THEN [execRow EXCEPT ![s] = UpdateExecution(@, phase[s])] ELSE execRow
  /\ IF PhaseTerminal(phase[s])
     THEN /\ stepPc' = [stepPc EXCEPT ![s] = "finish"]
          /\ stepErr' = [stepErr EXCEPT ![s] = PhaseIsError(phase[s])]
     ELSE /\ stepPc' = [stepPc EXCEPT ![s] = "poll"]
          /\ UNCHANGED stepErr
  /\ UNCHANGED <<runRow, jobRow, stepRow, artifacts, kjob, mainVars, phase, ctxDone>>

FinishStepAs(s, good) ==
  /\ stepPc[s] = "finish"
  /\ \E ok, done \in BOOLEAN :
       /\ Call(FALSE, ok, done)
       /\ stepRow' = IF done
                     THEN [stepRow EXCEPT ![s] =
                             UpdateStatus(@, IF stepErr[s] THEN "failed" ELSE good)]
                     ELSE stepRow
  /\ stepPc' = [stepPc EXCEPT ![s] = "done"]
  /\ UNCHANGED <<runRow, jobRow, execRow, artifacts, kjob, mainVars, stepErr, phase, ctxDone>>

\* Slip: a step's row gets the literal of the pipeline run machine.
FinishStepAsRun(s) == FinishStepAs(s, "success")

FinishStep(s) == FinishStepAs(s, "succeeded")

-----------------------------------------------------------------------------
(* The surroundings.                                                       *)

Stopped == pc \in {"returned", "crashed"}

(* The controllers and the kubelet move a Job; they do so whatever the     *)
(* orchestrator does, also after it has stopped.                           *)
ClusterStep(s) ==
  /\ \E job \in ClusterMoves(kjob[s]) : kjob' = [kjob EXCEPT ![s] = job]
  /\ UNCHANGED <<dbVars, mainVars, stepVars, ctxDone, faults>>

(* Somebody else deletes a Job: an operator, or a namespace clean-up.      *)
VanishJob(s) ==
  /\ Readable(kjob[s]) /\ Fault
  /\ kjob' = [kjob EXCEPT ![s] = CancelJob(@)]
  /\ UNCHANGED <<dbVars, mainVars, stepVars, ctxDone>>

(* The caller of Run cancels its context.                                  *)
CancelRun ==
  /\ ~ctxDone /\ ~Stopped
  /\ ctxDone' = TRUE
  /\ UNCHANGED <<dbVars, kjob, mainVars, stepVars, faults>>

(* The process dies; nothing of this call of Run goes on.                  *)
Crash ==
  /\ ~Stopped /\ Fault
  /\ pc' = "crashed"
  /\ stepPc' = [s \in Steps |-> IF stepPc[s] \in {"idle", "done"} THEN stepPc[s] ELSE "dead"]
  /\ UNCHANGED <<dbVars, kjob, stage, cursor, out, deployed, failed, verdict, stepErr, phase, ctxDone>>

(* Nothing more to do; keeps TLC's deadlock check meaningful elsewhere.    *)
Finished == Stopped /\ UNCHANGED vars

-----------------------------------------------------------------------------
Main ==
  \/ StartRun \/ CreateJob \/ StartJob \/ FinishJob \/ Decide \/ Finalize
  \/ LaunchBatch \/ JoinBatch \/ RegisterArtifact \/ RegisteredAll \/ ResolveArtifact

StepGoroutine(s) ==
  \/ CreateStep(s) \/ StartStep(s) \/ Submit(s) \/ RecordExecution(s)
  \/ PollDone(s) \/ PollRetry(s) \/ PollTick(s) \/ Report(s) \/ FinishStep(s)

Next ==
  \/ Main
  \/ \E s \in Steps : StepGoroutine(s) \/ ClusterStep(s) \/ VanishJob(s)
  \/ CancelRun \/ Crash \/ Finished

Spec == Init /\ [][Next]_vars

(* Goroutines that can run do run, and every call returns.                 *)
ProgramFairness == WF_vars(Main) /\ \A s \in Steps : WF_vars(StepGoroutine(s))

ProgramFairSpec == Spec /\ ProgramFairness

(* Moreover the cluster schedules every pod, every command ends, and the   *)
(* Job controller posts the result.                                        *)
FairSpec == ProgramFairSpec /\ \A s \in Steps : WF_vars(ClusterStep(s))
=============================================================================
