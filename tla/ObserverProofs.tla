-------------------------- MODULE ObserverProofs ---------------------------
(***************************************************************************)
(* Theorems about how a run looks from outside, for every configuration    *)
(* and every bound on the failures: to somebody who sees its Jobs and the  *)
(* verdict (GatedExecution), and to a reader who queries its rows          *)
(* (RunReader).                                                            *)
(***************************************************************************)
EXTENDS OrchestratorRefinement, OrchestratorRowProofs, RunReaderInvariant, SequenceTheorems

-----------------------------------------------------------------------------
LEMMA OpenStep == TypeOK /\ OpenInv /\ [Next]_vars => OpenInv'
<1> SUFFICES ASSUME TypeOK, OpenInv, [Next]_vars, ~Stopped'
             PROVE  ~RunTerminal(runRow'.status)
  BY DEF OpenInv
<1>1. CASE StartRun
  <2>1. ~RunTerminal(runRow.status)
    BY <1>1 DEF StartRun, OpenInv, Stopped
  <2>2. runRow \in RunRow /\ "running" \in RunStates
    BY DEF TypeOK, RunRow, RunStates
  <2>3. runRow' = runRow \/ runRow' = UpdateStatus(runRow, "running")
    BY <1>1 DEF StartRun
  <2>4. UpdateStatus(runRow, "running").status = "running"
    BY <2>2, WrittenStatus
  <2> QED
    BY <2>1, <2>3, <2>4 DEF RunTerminal
<1>2. CASE Finalize
  BY <1>2 DEF Finalize, FinalizeUnder, Stopped
<1>3. CASE ~StartRun /\ ~Finalize
  BY <1>3, RunRowWriters DEF OpenInv
<1> QED
  BY <1>1, <1>2, <1>3

-----------------------------------------------------------------------------
(* Steps of the abstract specification.                                    *)

(* A step that keeps the outcome of every Job and the verdict stutters.    *)
LEMMA Stutters ==
  ASSUME \A s \in Steps : Outcome(kjob'[s]) = Outcome(kjob[s]),
         Verdict(runRow') = Verdict(runRow)
  PROVE  UNCHANGED Gated!vars
  BY DEF Gated!vars

(* The Job of one running step ends, or keeps its outcome.                 *)
LEMMA EndsOrStutters ==
  ASSUME NEW s \in Steps, TypeOK, NEW job,
         kjob' = [kjob EXCEPT ![s] = job], runRow' = runRow,
         \/ Outcome(job) = Outcome(kjob[s])
         \/ Outcome(kjob[s]) = "running" /\ Outcome(job) \in Gated!Ends
  PROVE  [Gated!Next]_(Gated!vars)
<1>1. kjob \in [Steps -> Jobs]
  BY DEF TypeOK
<1>2. \A t \in Steps : kjob'[t] = IF t = s THEN job ELSE kjob[t]
  BY <1>1
<1>3. CASE Outcome(job) = Outcome(kjob[s])
  BY <1>2, <1>3, Stutters
<1>4. CASE Outcome(kjob[s]) = "running" /\ Outcome(job) \in Gated!Ends
  <2>1. [t \in Steps |-> Outcome(kjob'[t])] =
          [[t \in Steps |-> Outcome(kjob[t])] EXCEPT ![s] = Outcome(job)]
    <3> DEFINE o == Outcome(job)
    <3>1. \A t \in Steps : Outcome(kjob'[t]) = IF t = s THEN o ELSE Outcome(kjob[t])
      BY <1>2
    <3> HIDE DEF o
    <3>2. [t \in Steps |-> Outcome(kjob'[t])] =
            [[t \in Steps |-> Outcome(kjob[t])] EXCEPT ![s] = o]
      BY <3>1
    <3> QED
      BY <3>2 DEF o
  <2>2. \E e \in Gated!Ends : [t \in Steps |-> Outcome(kjob'[t])] =
          [[t \in Steps |-> Outcome(kjob[t])] EXCEPT ![s] = e]
    BY <1>4, <2>1, Zenon
  <2>3. [t \in Steps |-> Outcome(kjob[t])][s] = "running"
    BY <1>4
  <2>4. Gated!End(s)
    BY <2>2, <2>3 DEF Gated!End
  <2> QED
    BY <2>4 DEF Gated!Next
<1> QED
  BY <1>3, <1>4

LEMMA CancelEnds ==
  ASSUME NEW job \in Jobs
  PROVE  \/ Outcome(CancelJob(job)) = Outcome(job)
         \/ Outcome(job) = "running" /\ Outcome(CancelJob(job)) \in Gated!Ends
  BY DEF Outcome, CancelJob, Jobs, Pods, Gated!Ends

LEMMA ClusterEnds ==
  ASSUME NEW job \in Jobs, NEW next \in ClusterMoves(job)
  PROVE  \/ Outcome(next) = Outcome(job)
         \/ Outcome(job) = "running" /\ Outcome(next) \in Gated!Ends
<1> USE DEF Outcome, Gated!Ends
<1>1. Readable(job)
  BY DEF ClusterMoves
<1>2. CASE job.pod = "waiting"
  <2>1. next = [job EXCEPT !.pod = "active"]
    BY <1>1, <1>2 DEF ClusterMoves
  <2> QED
    BY <1>2, <2>1 DEF Jobs, Pods
<1>3. CASE job.pod = "active"
  <2>1. PICK p \in {"exited0", "exited1"} : next = [job EXCEPT !.pod = p]
    BY <1>1, <1>3 DEF ClusterMoves
  <2> QED
    BY <1>1, <1>3, <2>1 DEF Jobs, Pods, Readable
<1>4. CASE job.pod \notin {"waiting", "active"}
  <2>1. next = [job EXCEPT !.posted = TRUE]
    BY <1>1, <1>4 DEF ClusterMoves
  <2> QED
    BY <2>1 DEF Jobs, Pods
<1> QED
  BY <1>2, <1>3, <1>4

-----------------------------------------------------------------------------
(* Submit begins a task; everything before it has passed.                  *)
LEMMA SubmitBegins ==
  ASSUME Inv, OpenInv, StageGate', NEW s \in Steps, Submit(s)
  PROVE  [Gated!Next]_(Gated!vars)
<1> USE DEF dbVars, mainVars
<1>1. kjob \in [Steps -> Jobs] /\ runRow' = runRow /\ stepPc[s] = "submit"
  BY DEF Submit, SubmitOr, Inv, OwnInv, TypeOK
<1>2. CASE kjob' = kjob
  BY <1>1, <1>2, Stutters
<1>3. CASE kjob' = [kjob EXCEPT ![s] = SubmittedJob]
  <2>1. \A t \in Steps : kjob'[t] = IF t = s THEN SubmittedJob ELSE kjob[t]
    BY <1>1, <1>3
  <2>2. kjob[s] = NoJob
    BY <1>1 DEF Inv, OwnInv, StepInv
  <2>3. Outcome(kjob[s]) = "waiting" /\ Outcome(SubmittedJob) = "running"
    BY <2>2 DEF Outcome, NoJob, SubmittedJob
  <2>4. Verdict(runRow) = "open"
    <3>1. pc = "wait"
      BY <1>1 DEF Inv, OwnInv, FrontierInv, InFlight
    <3> QED
      BY <3>1 DEF OpenInv, Stopped, Verdict
  <2>5. ASSUME NEW t \in Steps, Before(t, s)
        PROVE  Outcome(kjob[t]) = "passed"
    <3>1. kjob'[s] # NoJob
      BY <2>1 DEF NoJob, SubmittedJob
    <3>2. kjob'[t].pod = "exited0"
      BY <2>5, <3>1 DEF StageGate, Passed, Before, SameBlock
    <3>3. t # s
      BY <2>1, <3>2 DEF SubmittedJob
    <3> QED
      BY <2>1, <3>2, <3>3 DEF Outcome
  <2>6. [t \in Steps |-> Outcome(kjob'[t])] =
          [[t \in Steps |-> Outcome(kjob[t])] EXCEPT ![s] = "running"]
    BY <2>1, <2>3
  <2>7. Gated!Begin(s)
    BY <1>1, <2>3, <2>4, <2>5, <2>6 DEF Gated!Begin
  <2> QED
    BY <2>7 DEF Gated!Next
<1> QED
  BY <1>2, <1>3 DEF Submit, SubmitOr

(* Finalize gives the result, if its write takes effect.                   *)
LEMMA FinalizeConcludes ==
  ASSUME Inv, OpenInv, Finalize
  PROVE  [Gated!Next]_(Gated!vars)
<1> USE DEF dbVars
<1>1. /\ kjob' = kjob /\ pc = "finalize"
      /\ runRow' = runRow \/ runRow' = UpdateStatus(runRow, verdict)
  BY DEF Finalize, FinalizeUnder
<1>2. runRow \in RunRow /\ verdict \in RunStates
  BY DEF Inv, OwnInv, TypeOK, RunRow
<1>3. Verdict(runRow) = "open"
  BY <1>1 DEF OpenInv, Stopped, Verdict
<1>4. CASE runRow' = runRow \/ ~RunTerminal(verdict)
  <2>1. Verdict(runRow') = "open"
    BY <1>1, <1>2, <1>3, <1>4, WrittenStatus DEF Verdict
  <2> QED
    BY <1>1, <1>3, <2>1, Stutters
<1>5. CASE runRow' = UpdateStatus(runRow, verdict) /\ RunTerminal(verdict)
  <2>1. Verdict(runRow') = verdict
    BY <1>2, <1>5, WrittenStatus DEF Verdict
  <2>2. verdict \in Gated!Results
    BY <1>5 DEF RunTerminal, Gated!Results
  <2>3. verdict = "success" => \A s \in Steps : Outcome(kjob[s]) = "passed"
    BY DEF Inv, OwnInv, EndInv, AllDone, Passed, Outcome
  <2>4. Gated!Conclude
    BY <1>1, <1>3, <2>1, <2>2, <2>3 DEF Gated!Conclude
  <2> QED
    BY <2>4 DEF Gated!Next
<1> QED
  BY <1>1, <1>4, <1>5

LEMMA StartRunStutters ==
  ASSUME TypeOK, OpenInv, StartRun
  PROVE  UNCHANGED Gated!vars
<1>1. /\ kjob' = kjob /\ ~RunTerminal(runRow.status)
      /\ runRow' = runRow \/ runRow' = UpdateStatus(runRow, "running")
  BY DEF StartRun, OpenInv, Stopped
<1>2. runRow \in RunRow /\ "running" \in RunStates
  BY DEF TypeOK, RunRow, RunStates
<1>3. UpdateStatus(runRow, "running").status = "running"
  BY <1>2, WrittenStatus
<1>4. Verdict(runRow') = Verdict(runRow)
  BY <1>1, <1>3 DEF Verdict, RunTerminal
<1> QED
  BY <1>1, <1>4, Stutters

-----------------------------------------------------------------------------
LEMMA InitMaps == Init => Gated!Init
<1> SUFFICES ASSUME Init PROVE Gated!Init
  OBVIOUS
<1>1. \A s \in Steps : Outcome(kjob[s]) = "waiting"
  BY DEF Init, Outcome, NoJob
<1>2. Verdict(runRow) = "open"
  BY DEF Init, NewRow, Verdict, RunTerminal
<1> QED
  BY <1>1, <1>2 DEF Gated!Init

(* One step of Run, of a goroutine or of the surroundings is one step of   *)
(* the abstract specification, or none.                                    *)
LEMMA StepMaps == Inv /\ OpenInv /\ StageGate' /\ [Next]_vars => [Gated!Next]_(Gated!vars)
<1> SUFFICES ASSUME Inv, OpenInv, StageGate', [Next]_vars
             PROVE  [Gated!Next]_(Gated!vars)
  OBVIOUS
<1> USE DEF dbVars, mainVars, vars
<1>0. TypeOK /\ kjob \in [Steps -> Jobs]
  BY DEF Inv, OwnInv, TypeOK
<1>1. CASE StartRun
  BY <1>0, <1>1, StartRunStutters
<1>2. CASE Finalize
  BY <1>2, FinalizeConcludes
<1>3. CASE ~StartRun /\ ~Finalize
  <2>1. runRow' = runRow
    BY <1>0, <1>3, RunRowWriters
  <2>2. CASE kjob' = kjob
    BY <2>1, <2>2, Stutters
  <2>3. ASSUME NEW s \in Steps, PollDone(s) PROVE [Gated!Next]_(Gated!vars)
    <3>1. kjob' = kjob \/ kjob' = [kjob EXCEPT ![s] = CancelJob(kjob[s])]
      BY <2>3 DEF PollDone, StopPolling
    <3> QED
      BY <1>0, <2>1, <2>2, <3>1, CancelEnds, EndsOrStutters
  <2>4. ASSUME NEW s \in Steps, VanishJob(s) PROVE [Gated!Next]_(Gated!vars)
    <3>1. kjob' = [kjob EXCEPT ![s] = CancelJob(kjob[s])]
      BY <2>4 DEF VanishJob
    <3> QED
      BY <1>0, <2>1, <3>1, CancelEnds, EndsOrStutters
  <2>5. ASSUME NEW s \in Steps, ClusterStep(s) PROVE [Gated!Next]_(Gated!vars)
    <3>1. PICK job \in ClusterMoves(kjob[s]) : kjob' = [kjob EXCEPT ![s] = job]
      BY <2>5 DEF ClusterStep
    <3> QED
      BY <1>0, <2>1, <3>1, ClusterEnds, EndsOrStutters
  <2>6. ASSUME NEW s \in Steps, StepGoroutine(s), ~Submit(s), ~PollDone(s) PROVE kjob' = kjob
    BY <2>6 DEF StepGoroutine, CreateStep, StartStep, StartStepOr, RecordExecution, PollRetry,
                PollTick, Report, FinishStep, FinishStepAs
  <2>7. CASE Main
    BY <1>3, <2>2, <2>7 DEF Main, CreateJob, StartJob, FinishJob, FinishJobUnder, Decide,
         LaunchBatch, JoinBatch, RegisterArtifact, RegisteredAll, ResolveArtifact
  <2>8. CASE CancelRun \/ Crash \/ Finished \/ UNCHANGED vars
    BY <2>2, <2>8 DEF CancelRun, Crash, Finished
  <2> QED
    BY <2>2, <2>3, <2>4, <2>5, <2>6, <2>7, <2>8, SubmitBegins DEF Next
<1> QED
  BY <1>1, <1>2, <1>3

(* Seen through its Jobs and the run's row, a call of Run begins every     *)
(* command at most once, in order and only while the run is open, and      *)
(* closes it once: runStep, executeAndPoll and the three stages together   *)
(* implement the abstract specification.                                   *)
THEOREM ImplementsGatedExecution == Spec => GatedSpec
<1>1. Init => OpenInv
  BY DEF Init, OpenInv, NewRow, RunTerminal
<1>2. Inv => TypeOK /\ StageGate
  BY DEF Inv, OwnInv
<1> QED
  BY <1>1, <1>2, OpenStep, InitMaps, StepMaps, Invariance, PTL DEF Spec, GatedSpec, Gated!Spec

-----------------------------------------------------------------------------
(* The reader.  First the goroutine of a step: a final status in its rows  *)
(* is its result.                                                          *)

LEMMA GoodGrows ==
  ASSUME Onward
  PROVE  Good \subseteq Good'
  BY DEF Onward, Good

LEMMA UntouchedResults ==
  ASSUME NEW t \in Steps, ResultPart(t), Untouched(t), Onward
  PROVE  ResultPart(t)'
<1>1. Good \subseteq Good'
  BY GoodGrows
<1> QED
  BY <1>1 DEF ResultPart, DoneWell, Untouched, Onward

(* A call that did not take effect has failed, or was cut off.             *)
LEMMA CallMissed ==
  ASSUME TypeOK, NEW ctxBound \in BOOLEAN, NEW ok \in BOOLEAN, NEW done \in BOOLEAN,
         Call(ctxBound, ok, done), ~done
  PROVE  {"running", "pending"} \subseteq Good' \/ (ctxBound /\ ctxDone)
<1>1. ~ok /\ (faults' > 0 \/ (ctxBound /\ ctxDone))
  BY CallFact
<1> QED
  BY <1>1 DEF Good

LEMMA GoroutineResults ==
  ASSUME Inv, NEW s \in Steps, StepPart(s), ResultPart(s), StepGoroutine(s)
  PROVE  ResultPart(s)'
<1>0. /\ TypeOK /\ stepRow[s] \in StepRow /\ execRow[s] \in ExecRow
      /\ stepErr[s] \in BOOLEAN /\ ctxDone \in BOOLEAN
  BY DEF Inv, OwnInv, TypeOK, StepRow, ExecRow
<1> USE DEF dbVars, mainVars, stepVars
<1>1. CASE CreateStep(s)
  <2>1. /\ stepPc'[s] = "start" \/ (stepPc'[s] = "done" /\ stepErr'[s])
        /\ stepRow'[s].status \in {"absent", "pending"} /\ execRow'[s] = NoExecRow
    <3>1. PICK ok \in BOOLEAN, done \in BOOLEAN :
            /\ stepRow' = IF done THEN [stepRow EXCEPT ![s] = NewStepRow(BatchGroup)] ELSE stepRow
            /\ stepPc' = [stepPc EXCEPT ![s] = IF ok THEN "start" ELSE "done"]
            /\ stepErr' = [stepErr EXCEPT ![s] = ~ok]
      BY <1>1 DEF CreateStep
    <3>2. stepRow[s] = NoStepRow /\ execRow[s] = NoExecRow /\ execRow' = execRow
      BY <1>1 DEF CreateStep, StepPart, StepRowPart, ExecRowPart
    <3>3. /\ stepPc'[s] = (IF ok THEN "start" ELSE "done") /\ stepErr'[s] = ~ok
          /\ stepRow'[s] \in {NoStepRow, NewStepRow(BatchGroup)}
      BY <1>0, <3>1, <3>2 DEF TypeOK
    <3>4. NoStepRow.status = "absent" /\ NewStepRow(BatchGroup).status = "pending"
      BY DEF NoStepRow, NewStepRow
    <3> QED
      BY <3>2, <3>3, <3>4
  <2> QED
    BY <2>1 DEF ResultPart, DoneWell, NoExecRow, PhaseTerminal, StageTerminal
<1>2. CASE StartStep(s)
  <2>1. /\ stepPc'[s] = "submit" \/ (stepPc'[s] = "done" /\ stepErr'[s])
        /\ execRow'[s] = NoExecRow
    BY <1>0, <1>2 DEF StartStep, StartStepOr, StepPart, ExecRowPart, TypeOK
  <2>2. stepRow'[s].status \in {"pending", "running"}
    <3>1. stepRow[s].status = "pending" /\ stepRow'[s] \in {stepRow[s], UpdateStatus(stepRow[s], "running")}
      BY <1>0, <1>2 DEF StartStep, StartStepOr, StepPart, StepRowPart, TypeOK
    <3> QED
      BY <1>0, <3>1, UpdateEffect
  <2> QED
    BY <2>1, <2>2 DEF ResultPart, DoneWell, NoExecRow, PhaseTerminal, StageTerminal
<1>3. CASE Submit(s)
  <2>1. /\ stepPc'[s] = "record" \/ (stepPc'[s] = "finish" /\ stepErr'[s])
        /\ execRow'[s] = NoExecRow /\ stepRow'[s].status = "running"
    BY <1>0, <1>3 DEF Submit, SubmitOr, StepPart, StepRowPart, ExecRowPart, TypeOK
  <2> QED
    BY <2>1 DEF ResultPart, DoneWell, NoExecRow, PhaseTerminal, StageTerminal
<1>4. CASE RecordExecution(s)
  <2>1. PICK ok \in BOOLEAN, done \in BOOLEAN :
          /\ Call(TRUE, ok, done)
          /\ execRow' = IF done THEN [execRow EXCEPT ![s] = NewExecRow] ELSE execRow
          /\ stepPc' = [stepPc EXCEPT ![s] = IF ok THEN "poll" ELSE "finish"]
          /\ stepErr' = [stepErr EXCEPT ![s] = ~ok]
    BY <1>4 DEF RecordExecution
  <2>2. stepRow'[s].status = "running" /\ execRow[s] = NoExecRow /\ (ok => done)
    BY <1>0, <1>4, <2>1, CallFact DEF RecordExecution, StepPart, StepRowPart, ExecRowPart
  <2>3. /\ execRow'[s].status \in {"absent", "pending"}
        /\ ok => execRow'[s].status = "pending"
        /\ stepPc'[s] = (IF ok THEN "poll" ELSE "finish") /\ stepErr'[s] = ~ok
    BY <1>0, <2>1, <2>2 DEF TypeOK, NoExecRow, NewExecRow
  <2> QED
    BY <2>2, <2>3 DEF ResultPart, DoneWell, PhaseTerminal, StageTerminal
<1>5. CASE PollDone(s)
  <2>1. /\ stepPc'[s] = "finish" /\ stepErr'[s] /\ execRow'[s] = execRow[s]
        /\ stepRow'[s].status = "running" /\ execRow[s].status \in {"pending", "running"}
    BY <1>0, <1>5 DEF PollDone, StopPolling, StepPart, StepRowPart, ResultPart, TypeOK
  <2> QED
    BY <2>1 DEF ResultPart, DoneWell, PhaseTerminal, StageTerminal
<1>6. CASE PollRetry(s)
  <2>1. UNCHANGED vars
    BY <1>6 DEF PollRetry
  <2> QED
    BY <2>1 DEF vars, ResultPart, DoneWell, Good
<1>7. CASE PollTick(s)
  <2>1. /\ stepPc'[s] = "report" /\ execRow'[s] = execRow[s]
        /\ stepRow'[s].status = "running" /\ execRow[s].status \in {"pending", "running"}
    BY <1>0, <1>7 DEF PollTick, StepPart, StepRowPart, ResultPart, TypeOK
  <2> QED
    BY <2>1 DEF ResultPart, DoneWell, PhaseTerminal, StageTerminal
<1>8. CASE Report(s)
  <2>1. PICK ok \in BOOLEAN, done \in BOOLEAN :
          /\ Call(TRUE, ok, done)
          /\ execRow' = IF done THEN [execRow EXCEPT ![s] = UpdateExecution(@, phase[s])] ELSE execRow
    BY <1>8 DEF Report
  <2>2. /\ stepRow'[s].status = "running" /\ execRow[s].status \in {"pending", "running"}
        /\ phase[s] \in {"pending", "running", "succeeded", "failed"} /\ ctxDone' = ctxDone
    BY <1>8 DEF Report, StepPart, StepRowPart, ExecRowPart, ResultPart
  <2>3. execRow'[s].status = IF done THEN phase[s] ELSE execRow[s].status
    <3>1. UpdateExecution(execRow[s], phase[s]).status = phase[s]
      BY <1>0, <2>2, ExecutionEffect
    <3> QED
      BY <1>0, <2>1, <3>1 DEF TypeOK
  <2>4. CASE PhaseTerminal(phase[s])
    <3>1. stepPc'[s] = "finish" /\ stepErr'[s] = (phase[s] # "succeeded")
      BY <1>0, <1>8, <2>4 DEF Report, PhaseIsError, TypeOK
    <3>2. ~done => {"running", "pending"} \subseteq Good' \/ ctxDone
      BY <1>0, <2>1, CallMissed
    <3>3. "succeeded" \in Good'
      BY DEF Good
    <3> QED
      BY <2>2, <2>3, <2>4, <3>1, <3>2, <3>3 DEF ResultPart, DoneWell, PhaseTerminal, StageTerminal
  <2>5. CASE ~PhaseTerminal(phase[s])
    <3>1. stepPc'[s] = "poll" /\ phase[s] \in {"pending", "running"}
      BY <1>0, <1>8, <2>2, <2>5 DEF Report, TypeOK, PhaseTerminal
    <3> QED
      BY <2>2, <2>3, <3>1 DEF ResultPart, DoneWell, PhaseTerminal, StageTerminal
  <2> QED
    BY <2>4, <2>5
<1>9. CASE FinishStep(s)
  <2> DEFINE end == IF stepErr[s] THEN "failed" ELSE "succeeded"
  <2>1. PICK ok \in BOOLEAN, done \in BOOLEAN :
          /\ Call(FALSE, ok, done)
          /\ stepRow' = IF done THEN [stepRow EXCEPT ![s] = UpdateStatus(@, end)] ELSE stepRow
    BY <1>9 DEF FinishStep, FinishStepAs
  <2>2. /\ stepPc[s] = "finish" /\ stepPc'[s] = "done" /\ stepRow[s].status = "running"
        /\ stepErr' = stepErr /\ execRow' = execRow /\ ctxDone' = ctxDone
    BY <1>0, <1>9 DEF FinishStep, FinishStepAs, StepPart, StepRowPart, TypeOK
  <2>3. stepRow'[s].status = IF done THEN end ELSE "running"
    <3>1. UpdateStatus(stepRow[s], end).status = end
      BY <1>0, <2>2, UpdateEffect
    <3> QED
      BY <1>0, <2>1, <2>2, <3>1 DEF TypeOK
  <2>4. (~done => {"running", "pending"} \subseteq Good') /\ "succeeded" \in Good'
    BY <1>0, <2>1, CallMissed DEF Good
  <2>5. Good \subseteq Good'
    BY <1>0, <1>9, StepFrame, GoodGrows DEF StepGoroutine
  <2> QED
    BY <1>0, <2>2, <2>3, <2>4, <2>5 DEF ResultPart, DoneWell, PhaseTerminal, StageTerminal
<1> QED
  BY <1>1, <1>2, <1>3, <1>4, <1>5, <1>6, <1>7, <1>8, <1>9 DEF StepGoroutine

(* The cluster, the caller and a crash write no row; whoever dies leaves   *)
(* no result.                                                              *)
LEMMA EnvironmentFrame ==
  ASSUME TypeOK,
         \/ \E s \in Steps : ClusterStep(s) \/ VanishJob(s)
         \/ CancelRun \/ Crash \/ Finished \/ UNCHANGED vars
  PROVE  /\ Onward
         /\ UNCHANGED <<dbVars, stage, cursor, failed, verdict, stepErr>>
         /\ pc' \in {pc, "crashed"}
         /\ \A t \in Steps : stepPc'[t] = stepPc[t] \/
              (stepPc'[t] = "dead" /\ stepPc[t] \notin {"idle", "done"})
<1> USE DEF mainVars, stepVars, vars
<1>1. faults \in Nat /\ faults' \in Nat /\ faults' >= faults /\ (ctxDone => ctxDone')
  BY FaultsGrow DEF Next
<1>2. ctxDone \in BOOLEAN /\ ctxDone' \in BOOLEAN
  <2>1. TypeOK'
    BY TypeStep DEF Next
  <2> QED
    BY <2>1 DEF TypeOK
<1>3. UNCHANGED <<dbVars, stage, cursor, failed, verdict, stepErr>> /\ pc' \in {pc, "crashed"}
  BY DEF ClusterStep, VanishJob, CancelRun, Crash, Finished
<1>4. ASSUME NEW t \in Steps
      PROVE  stepPc'[t] = stepPc[t] \/ (stepPc'[t] = "dead" /\ stepPc[t] \notin {"idle", "done"})
  BY DEF ClusterStep, VanishJob, CancelRun, Crash, Finished
<1> QED
  BY <1>1, <1>2, <1>3, <1>4 DEF Onward

LEMMA NextKeepsResults ==
  ASSUME Inv, RowInv, RowInv', \A t \in Steps : ResultPart(t), [Next]_vars, NEW t \in Steps
  PROVE  ResultPart(t)'
<1>0. TypeOK /\ StepPart(t)' /\ ResultPart(t)
  BY DEF Inv, OwnInv, RowInv
<1>1. ASSUME NEW s \in Steps, StepGoroutine(s) PROVE ResultPart(t)'
  BY <1>0, <1>1, StepFrame, GoroutineResults, UntouchedResults DEF RowInv
<1>2. CASE \/ \E s \in Steps : ClusterStep(s) \/ VanishJob(s)
           \/ CancelRun \/ Crash \/ Finished \/ UNCHANGED vars
  <2>1. /\ Onward /\ UNCHANGED <<dbVars, stepErr>>
        /\ stepPc'[t] = stepPc[t] \/ (stepPc'[t] = "dead" /\ stepPc[t] \notin {"idle", "done"})
    BY <1>0, <1>2, EnvironmentFrame
  <2>2. Good \subseteq Good'
    BY <2>1, GoodGrows
  <2> QED
    BY <1>0, <2>1, <2>2 DEF ResultPart, DoneWell, dbVars, Onward
<1>3. CASE LaunchBatch
  <2>1. /\ UNCHANGED <<dbVars, stepErr, phase, kjob, ctxDone, faults>>
        /\ stepPc'[t] \in {"create", stepPc[t]}
    BY <1>3 DEF LaunchBatch
  <2>2. CASE stepPc'[t] = "create"
    <3>1. stepRow'[t] = NoStepRow /\ execRow'[t] = NoExecRow
      BY <1>0, <2>2 DEF StepPart, StepRowPart, ExecRowPart
    <3> QED
      BY <2>2, <3>1 DEF ResultPart, DoneWell, NoStepRow, NoExecRow, PhaseTerminal, StageTerminal
  <2>3. CASE stepPc'[t] = stepPc[t]
    BY <1>0, <2>1, <2>3 DEF ResultPart, DoneWell, Good, dbVars
  <2> QED
    BY <2>1, <2>2, <2>3
<1>4. CASE Main /\ ~LaunchBatch
  <2>1. UNCHANGED stepVars
    BY <1>4 DEF Main, StartRun, CreateJob, StartJob, FinishJob, FinishJobUnder, Decide, Finalize,
           FinalizeUnder, JoinBatch, RegisterArtifact, RegisteredAll, ResolveArtifact
  <2> QED
    BY <1>0, <1>4, <2>1, MainFrame, UntouchedResults DEF Untouched, stepVars
<1> QED
  BY <1>1, <1>2, <1>3, <1>4 DEF Next, Main

-----------------------------------------------------------------------------
(* Behind the frontier everything went well.                               *)

(* What is launched was idle.                                              *)
LEMMA LaunchesIdle ==
  ASSUME Inv, LaunchBatch, NEW t \in Steps, t \in InBatch
  PROVE  stepPc[t] = "idle"
<1>1. TypeOK /\ ControlInv /\ FrontierInv /\ pc = "launch"
  BY DEF Inv, OwnInv, LaunchBatch
<1>2. InStage /\ Advancing /\ stage \in Stages /\ cursor \in 1..StepCount(stage)
  BY <1>1, StepCountType DEF ControlInv, InStage, Advancing, TypeOK
<1>3. t[1] = stage /\ t[2] \in Batch(stage, cursor)
  BY DEF InBatch
<1>4. t[2] >= cursor
  BY <1>2, <1>3, BatchFact
<1>5. Ahead(t)
  BY <1>1, <1>3, <1>4 DEF Ahead
<1> QED
  BY <1>1, <1>2, <1>5 DEF FrontierInv

LEMMA DoneStays ==
  ASSUME Inv, [Next]_vars, NEW t \in Steps, DoneWell(t)
  PROVE  DoneWell(t)'
<1>0. TypeOK
  BY DEF Inv, OwnInv
<1> USE DEF DoneWell
<1>1. ASSUME NEW s \in Steps, StepGoroutine(s) PROVE DoneWell(t)'
  <2>1. s # t \/ UNCHANGED vars
    BY <1>1 DEF StepGoroutine, CreateStep, StartStep, StartStepOr, Submit, SubmitOr,
                RecordExecution, PollDone, StopPolling, PollRetry, PollTick, Report, FinishStep,
                FinishStepAs
  <2> QED
    BY <1>0, <1>1, <2>1, StepFrame DEF Untouched, vars, stepVars
<1>2. CASE \/ \E s \in Steps : ClusterStep(s) \/ VanishJob(s)
           \/ CancelRun \/ Crash \/ Finished \/ UNCHANGED vars
  BY <1>0, <1>2, EnvironmentFrame
<1>3. CASE LaunchBatch
  <2>1. t \notin InBatch
    BY <1>3, LaunchesIdle
  <2> QED
    BY <1>3, <2>1 DEF LaunchBatch
<1>4. CASE Main /\ ~LaunchBatch
  BY <1>4 DEF Main, StartRun, CreateJob, StartJob, FinishJob, FinishJobUnder, Decide, Finalize,
     FinalizeUnder, JoinBatch, RegisterArtifact, RegisteredAll, ResolveArtifact, stepVars
<1> QED
  BY <1>1, <1>2, <1>3, <1>4 DEF Next, Main

(* Run stays in its stage: what it leaves behind there went well.          *)
LEMMA WholeMoves ==
  ASSUME WholeInv, VerdictInv, Onward, UNCHANGED <<runRow, jobRow, stage, verdict>>,
         \A t \in Steps : DoneWell(t) => DoneWell(t)',
         verdict = "success" => UNCHANGED execRow,
         Advancing' => \A t \in Steps : Past(t)' => DoneWell(t)',
         pc' = "register" => DoneWell(<<Build, cursor>>)',
         pc' # "decide" \/ failed'
  PROVE  WholeInv'
<1>1. Good \subseteq Good'
  BY GoodGrows
<1>2. \A st \in Stages : JobGood(st) => JobGood(st)'
  BY <1>1 DEF JobGood
<1>3. \A t \in Steps : verdict = "success" /\ execRow[t].status \in Good => execRow'[t].status \in Good'
  BY <1>1
<1> QED
  BY <1>2, <1>3 DEF WholeInv

(* Whatever is not Run itself.                                             *)
LEMMA OthersKeepWhole ==
  ASSUME Inv, WholeInv, VerdictInv, Onward,
         UNCHANGED <<runRow, jobRow, stage, cursor, failed, verdict>>, pc' \in {pc, "crashed"},
         \A t \in Steps : DoneWell(t) => DoneWell(t)',
         verdict = "success" => UNCHANGED execRow
  PROVE  WholeInv'
<1>1. CASE pc = "decide" /\ pc' = pc
  <2>1. Good \subseteq Good'
    BY GoodGrows
  <2>2. \A st \in Stages : JobGood(st) => JobGood(st)'
    BY <2>1 DEF JobGood
  <2>3. verdict = "pending" /\ ~Advancing'
    BY <1>1 DEF VerdictInv, Advancing, InStage
  <2> QED
    BY <1>1, <2>2, <2>3 DEF WholeInv
<1>2. CASE pc' # "decide"
  <2>1. Advancing' => Advancing /\ \A t \in Steps : Past(t)' => Past(t)
    BY DEF Advancing, Past, InStage
  <2>2. pc' = "register" => DoneWell(<<Build, cursor>>)'
    <3>1. ASSUME pc' = "register" PROVE <<Build, cursor>> \in Steps /\ DoneWell(<<Build, cursor>>)
      <4>1. pc = "register"
        BY <3>1
      <4>2. Build \in Stages /\ cursor \in 1..StepCount(Build)
        BY <4>1, StepCountType DEF Inv, OwnInv, ControlInv, TypeOK, InStage, Stages, Build
      <4> QED
        BY <4>1, <4>2, StepFrom DEF WholeInv
    <3> QED
      BY <3>1
  <2>3. Advancing' => \A t \in Steps : Past(t)' => DoneWell(t)'
    BY <2>1 DEF WholeInv
  <2> QED
    BY <1>2, <2>2, <2>3, WholeMoves
<1> QED
  BY <1>1, <1>2

LEMMA GoroutineKeepsWhole ==
  ASSUME Inv, WholeInv, VerdictInv, NEW s \in Steps, StepGoroutine(s)
  PROVE  WholeInv'
<1>0. TypeOK /\ [Next]_vars
  BY DEF Inv, OwnInv, Next
<1>1. UNCHANGED <<mainVars, runRow, jobRow>> /\ Onward
  BY <1>0, StepFrame
<1>2. pc = "wait" \/ UNCHANGED vars
  <2>1. InFlight(s)
    BY DEF StepGoroutine, CreateStep, StartStep, StartStepOr, Submit, SubmitOr, RecordExecution,
           PollDone, StopPolling, PollRetry, PollTick, Report, FinishStep, FinishStepAs, InFlight
  <2> QED
    BY <2>1 DEF Inv, OwnInv, FrontierInv
<1>3. verdict = "success" => UNCHANGED execRow
  BY <1>2 DEF VerdictInv, vars, dbVars
<1>4. \A t \in Steps : DoneWell(t) => DoneWell(t)'
  BY <1>0, DoneStays
<1> QED
  BY <1>1, <1>3, <1>4, OthersKeepWhole DEF mainVars

LEMMA EnvironmentKeepsWhole ==
  ASSUME Inv, WholeInv, VerdictInv,
         \/ \E s \in Steps : ClusterStep(s) \/ VanishJob(s)
         \/ CancelRun \/ Crash \/ Finished \/ UNCHANGED vars
  PROVE  WholeInv'
<1>0. TypeOK /\ [Next]_vars
  BY DEF Inv, OwnInv, Next
<1>1. /\ Onward /\ UNCHANGED <<dbVars, stage, cursor, failed, verdict>> /\ pc' \in {pc, "crashed"}
  BY <1>0, EnvironmentFrame
<1>2. \A t \in Steps : DoneWell(t) => DoneWell(t)'
  BY <1>0, DoneStays
<1> QED
  BY <1>1, <1>2, OthersKeepWhole DEF dbVars

(* Run goes on behind the batch: it has run it, and well.                  *)
LEMMA PastOrInBatch ==
  ASSUME TypeOK, InStage, stage \in Stages, cursor \in 1..StepCount(stage), NextBatch,
         stage' = stage, NEW t \in Steps, Past(t)'
  PROVE  Past(t) \/ t \in InBatch
<1>1. /\ cursor' \in Nat /\ cursor' > cursor
      /\ \A m \in Nat : m < cursor' => m < cursor \/ m \in Batch(stage, cursor)
      /\ pc' \in {"launch", "finishJob"}
  BY NextBatchFact
<1>2. t[2] \in Nat /\ t = <<t[1], t[2]>>
  BY StepFact, StepCountType
<1> QED
  BY <1>1, <1>2 DEF Past, InStage, InBatch

(* Run within a stage.                                                     *)
LEMMA StageKeepsWhole ==
  ASSUME Inv, WholeInv, VerdictInv,
         LaunchBatch \/ JoinBatch \/ RegisterArtifact \/ RegisteredAll \/ ResolveArtifact
  PROVE  WholeInv'
<1>0. TypeOK /\ ControlInv /\ FrontierInv /\ [Next]_vars /\ Main
  BY DEF Inv, OwnInv, Next, Main
<1>1. Onward /\ UNCHANGED <<execRow, runRow, jobRow, stage, verdict>>
  <2>1. UNCHANGED <<runRow, jobRow, stage, verdict>>
    BY DEF LaunchBatch, JoinBatch, RegisterArtifact, RegisteredAll, ResolveArtifact, dbVars
  <2> QED
    BY <1>0, <2>1, MainFrame
<1>2. \A t \in Steps : DoneWell(t) => DoneWell(t)'
  BY <1>0, DoneStays
<1>3. /\ InStage /\ ~failed /\ Advancing /\ stage \in Stages /\ cursor \in 1..StepCount(stage)
      /\ pc' \in {"wait", "launch", "register", "finishJob"}
  <2>1. pc \in {"launch", "wait", "register", "resolve"}
    BY DEF LaunchBatch, JoinBatch, RegisterArtifact, RegisteredAll, ResolveArtifact
  <2>2. pc' \in {"wait", "launch", "register", "finishJob"}
    BY DEF LaunchBatch, JoinBatch, RegisterArtifact, RegisteredAll, ResolveArtifact, NextBatch
  <2> QED
    BY <1>0, <2>1, <2>2, StepCountType DEF ControlInv, InStage, Advancing, TypeOK
<1>4. SUFFICES /\ Advancing' => \A t \in Steps : Past(t)' => DoneWell(t)'
               /\ pc' = "register" => DoneWell(<<Build, cursor>>)'
  BY <1>1, <1>2, <1>3, WholeMoves
<1>5. \A t \in Steps : Past(t) => DoneWell(t)'
  BY <1>2, <1>3 DEF WholeInv
<1>6. pc = "register" => stage = Build /\ <<Build, cursor>> \in Steps /\ DoneWell(<<Build, cursor>>)
  BY <1>0, <1>3, StepFrom DEF ControlInv, WholeInv
<1>7. CASE LaunchBatch
  <2>1. cursor' = cursor /\ pc' = "wait"
    BY <1>7 DEF LaunchBatch
  <2> QED
    BY <1>1, <1>3, <1>5, <2>1 DEF Past, InStage
<1>8. CASE ResolveArtifact
  <2>1. cursor' = cursor /\ pc' # "register"
    BY <1>8 DEF ResolveArtifact
  <2> QED
    BY <1>1, <1>3, <1>5, <2>1 DEF Past
<1>9. CASE RegisterArtifact
  <2>1. cursor' = cursor /\ pc = "register"
    BY <1>9 DEF RegisterArtifact
  <2> QED
    BY <1>1, <1>2, <1>3, <1>5, <1>6, <2>1 DEF Past, DoneWell
<1>10. CASE RegisteredAll
  <2>1. pc = "register" /\ NextBatch /\ UNCHANGED stepVars
    BY <1>10 DEF RegisteredAll
  <2>2. \A t \in Steps : t \in InBatch => t = <<Build, cursor>>
    BY <1>6, <2>1, StepFact DEF InBatch, Batch, Build, Test
  <2>3. \A t \in Steps : Past(t)' => DoneWell(t)'
    BY <1>0, <1>1, <1>2, <1>3, <1>5, <1>6, <2>1, <2>2, PastOrInBatch
  <2> QED
    BY <2>1, <2>3 DEF NextBatch
<1>11. CASE JoinBatch
  <2>1. CASE BatchFailed
    BY <1>11, <2>1 DEF JoinBatch, Advancing
  <2>2. CASE ~BatchFailed
    <3>1. \A t \in Steps : t \in InBatch => DoneWell(t)
      BY <1>11, <2>2 DEF JoinBatch, BatchDone, BatchFailed, DoneWell
    <3>2. CASE stage = Build
      <4>1. pc' = "register" /\ cursor' = cursor /\ UNCHANGED stepVars
        BY <1>11, <2>2, <3>2 DEF JoinBatch
      <4>2. <<Build, cursor>> \in Steps /\ <<Build, cursor>> \in InBatch
        BY <1>3, <3>2, StepFrom, BatchFact DEF InBatch
      <4>3. DoneWell(<<Build, cursor>>)'
        BY <3>1, <4>1, <4>2 DEF DoneWell, stepVars
      <4> QED
        BY <1>1, <1>3, <1>5, <4>1, <4>3 DEF Past, InStage
    <3>3. CASE stage # Build
      <4>1. NextBatch
        BY <1>11, <2>2, <3>3 DEF JoinBatch
      <4>2. \A t \in Steps : Past(t)' => DoneWell(t)'
        BY <1>0, <1>1, <1>2, <1>3, <1>5, <3>1, <4>1, PastOrInBatch
      <4> QED
        BY <4>1, <4>2 DEF NextBatch
    <3> QED
      BY <3>2, <3>3
  <2> QED
    BY <2>1, <2>2
<1> QED
  BY <1>7, <1>8, <1>9, <1>10, <1>11

(* What EnterStageAfter passes over has no steps.                          *)
LEMMA EnterPassesOver ==
  ASSUME NEW st \in Nat, EnterStageAfter(st)
  PROVE  \/ /\ pc' = "createJob" /\ stage' \in Stages /\ stage' > st
            /\ \A u \in Stages : u < stage' => u <= st \/ StepCount(u) = 0
         \/ /\ pc' = "decide" /\ stage' = stage
            /\ \A u \in Stages : u <= st \/ StepCount(u) = 0
<1>1. CASE {t \in Stages : t > st /\ StepCount(t) > 0} = {}
  BY <1>1, StepCountType DEF EnterStageAfter, Stages, Build, Test, Deploy
<1>2. CASE {t \in Stages : t > st /\ StepCount(t) > 0} # {}
  BY <1>2, StepCountType DEF EnterStageAfter, Stages, Build, Test, Deploy
<1> QED
  BY <1>1, <1>2

(* Run is through with the stages up to st, and goes on.                   *)
LEMMA EnterWhole ==
  ASSUME TypeOK, NEW st \in Nat, EnterStageAfter(st), verdict' = "pending", runRow'.status # "success",
         \A u \in Stages : StepCount(u) = 0 => jobRow'[u] = NoRow,
         \A u \in Stages : u <= st => JobGood(u)',
         \A t \in Steps : t[1] <= st => DoneWell(t)',
         \A t \in Steps : t[1] > st => jobRow'[t[1]].status # "succeeded"
  PROVE  WholeInv'
<1>1. \A t \in Steps : t[1] \in Stages /\ StepCount(t[1]) > 0
  BY StepFact, StepCountType
<1>2. \A u \in Stages : StepCount(u) = 0 => JobGood(u)'
  BY DEF JobGood
<1>3. \A u \in Stages : jobRow'[u].status = "succeeded" => \A t \in Steps : t[1] = u => DoneWell(t)'
  BY <1>1 DEF Stages, Build, Test, Deploy
<1>4. CASE /\ pc' = "createJob" /\ stage' \in Stages /\ stage' > st
           /\ \A u \in Stages : u < stage' => u <= st \/ StepCount(u) = 0
  <2>1. \A t \in Steps : Past(t)' => DoneWell(t)'
    BY <1>1, <1>4 DEF Past, InStage
  <2> QED
    BY <1>2, <1>3, <1>4, <2>1 DEF WholeInv
<1>5. CASE /\ pc' = "decide" /\ stage' = stage
           /\ \A u \in Stages : u <= st \/ StepCount(u) = 0
  <2>1. (\A u \in Stages : JobGood(u)') /\ \A t \in Steps : DoneWell(t)'
    BY <1>1, <1>2, <1>5
  <2>2. ~Advancing'
    BY <1>5 DEF Advancing, InStage
  <2> QED
    BY <1>3, <1>5, <2>1, <2>2 DEF WholeInv
<1> QED
  BY <1>4, <1>5, EnterPassesOver

LEMMA MainKeepsWhole ==
  ASSUME Inv, RowInv, WholeInv, VerdictInv, \A s \in Steps : ResultPart(s), Main
  PROVE  WholeInv'
<1>0. TypeOK /\ ControlInv /\ RunRowInv /\ JobRowInv /\ [Next]_vars
  BY DEF Inv, OwnInv, RowInv, Next
<1>1. Onward /\ UNCHANGED <<execRow, ctxDone>>
  BY <1>0, MainFrame
<1>2. \A t \in Steps : DoneWell(t) => DoneWell(t)'
  BY <1>0, DoneStays
<1>3. Good \subseteq Good' /\ \A u \in Stages : JobGood(u) /\ jobRow'[u] = jobRow[u] => JobGood(u)'
  <2>1. Good \subseteq Good'
    BY <1>1, GoodGrows
  <2> QED
    BY <2>1 DEF JobGood
<1>4. \A t \in Steps : t[1] \in Stages /\ StepCount(t[1]) > 0 /\ t[2] \in Nat /\ t[2] >= 1
  BY StepFact, StepCountType
<1>5. CASE StartRun
  <2>1. PICK ok \in BOOLEAN, done \in BOOLEAN :
          /\ runRow' = IF done THEN UpdateStatus(runRow, "running") ELSE runRow
          /\ IF ok THEN EnterStageAfter(0) ELSE pc' = "returned" /\ UNCHANGED stage
    BY <1>5 DEF StartRun
  <2>2. stage = 0 /\ runRow = NewRow /\ jobRow' = jobRow /\ verdict' = "pending"
    BY <1>0, <1>5 DEF StartRun, ControlInv, RunRowInv, VerdictInv
  <2>3. runRow'.status # "success"
    BY <2>1, <2>2, StartedRow DEF NewRow, RunningRow
  <2>4. \A u \in Stages : jobRow'[u] = NoRow
    BY <1>0, <2>2 DEF JobRowInv, Stages, Build, Test, Deploy
  <2>5. CASE ok
    <3>1. EnterStageAfter(0) /\ 0 \in Nat
      BY <2>1, <2>5
    <3>2. \A u \in Stages : ~(u <= 0)
      BY DEF Stages, Build, Test, Deploy
    <3> QED
      BY <1>0, <1>4, <2>2, <2>3, <2>4, <3>1, <3>2, EnterWhole DEF NoRow
  <2>6. CASE ~ok
    <3>1. pc' = "returned" /\ stage' = 0
      BY <2>1, <2>2, <2>6
    <3>2. ~Advancing' /\ \A u \in Stages : ~(u < stage')
      BY <3>1 DEF Advancing, InStage, Stages, Build, Test, Deploy
    <3> QED
      BY <2>2, <2>3, <2>4, <3>1, <3>2 DEF WholeInv, NoRow
  <2> QED
    BY <2>5, <2>6
<1>6. CASE CreateJob \/ StartJob
  <2>1. /\ pc \in {"createJob", "startJob"} /\ UNCHANGED <<stage, runRow, verdict>>
        /\ pc' = "decide" => failed'
        /\ pc' \in {"decide", "startJob", "resolve", "launch"}
        /\ StartJob => cursor' = 1
        /\ CreateJob => pc' \in {"decide", "startJob"}
    BY <1>6 DEF CreateJob, StartJob
  <2>2. stage \in Stages /\ StepCount(stage) > 0 /\ Advancing /\ ~InStage /\ verdict = "pending"
    BY <1>0, <2>1 DEF ControlInv, InStage, Advancing, VerdictInv
  <2>3. \A u \in Stages : u # stage => jobRow'[u] = jobRow[u]
    BY <1>0, <1>6 DEF CreateJob, StartJob, TypeOK
  <2>4. jobRow'[stage].status # "succeeded"
    <3>1. CASE CreateJob
      <4>1. jobRow'[stage] \in {NoRow, NewRow}
        BY <1>0, <2>2, <3>1 DEF CreateJob, JobRowInv, TypeOK
      <4> QED
        BY <4>1 DEF NoRow, NewRow
    <3>2. CASE StartJob
      <4>1. jobRow'[stage] \in {NewRow, RunningRow}
        BY <1>0, <2>2, <3>2, StartedRow DEF StartJob, JobRowInv, TypeOK
      <4> QED
        BY <4>1 DEF NewRow, RunningRow
    <3> QED
      BY <1>6, <3>1, <3>2
  <2>5. \A t \in Steps : Past(t)' /\ Advancing' => Past(t)
    <3>1. CASE CreateJob
      BY <2>1, <2>2, <3>1 DEF Past, InStage
    <3>2. CASE StartJob
      BY <1>4, <2>1, <2>2, <3>2 DEF Past, InStage
    <3> QED
      BY <1>6, <3>1, <3>2
  <2>6. \A u \in Stages : u < stage => u # stage
    BY DEF Stages, Build, Test, Deploy
  <2>7. \A u \in Stages : u < stage' => JobGood(u)'
    BY <1>3, <2>1, <2>3, <2>6 DEF WholeInv
  <2>8. \A u \in Stages : /\ StepCount(u) = 0 => jobRow'[u] = NoRow
                          /\ jobRow'[u].status = "succeeded" => \A t \in Steps : t[1] = u => DoneWell(t)'
    BY <1>2, <2>2, <2>3, <2>4 DEF WholeInv
  <2>9. Advancing' => \A t \in Steps : Past(t)' => DoneWell(t)'
    BY <1>2, <2>2, <2>5 DEF WholeInv
  <2> QED
    BY <2>1, <2>2, <2>7, <2>8, <2>9 DEF WholeInv
<1>7. CASE FinishJob
  <2> DEFINE end == IF failed THEN "failed" ELSE "succeeded"
  <2>1. PICK ok \in BOOLEAN, done \in BOOLEAN :
          /\ Call(FALSE, ok, done)
          /\ jobRow' = IF done THEN [jobRow EXCEPT ![stage] = UpdateStatus(@, end)] ELSE jobRow
    BY <1>7 DEF FinishJob, FinishJobUnder
  <2>2. /\ pc = "finishJob" /\ UNCHANGED <<runRow, verdict, failed>>
        /\ stage \in Stages /\ StepCount(stage) > 0 /\ jobRow[stage] = RunningRow /\ InStage
    BY <1>0, <1>7 DEF FinishJob, FinishJobUnder, ControlInv, JobRowInv, InStage
  <2>3. \A u \in Stages : jobRow'[u] =
          IF done /\ u = stage THEN UpdateStatus(RunningRow, end) ELSE jobRow[u]
    BY <1>0, <2>1, <2>2 DEF TypeOK
  <2>4. UpdateStatus(RunningRow, end).status = end
    BY DEF UpdateStatus, RunningRow
  <2>5. verdict = "pending" /\ runRow.status # "success"
    BY <2>2 DEF VerdictInv, WholeInv
  <2>6. \A u \in Stages : StepCount(u) = 0 => jobRow'[u] = NoRow
    BY <2>2, <2>3 DEF WholeInv
  <2>7. \A u \in Stages : u < stage => JobGood(u)'
    <3>1. \A u \in Stages : u < stage => u # stage
      BY DEF Stages, Build, Test, Deploy
    <3> QED
      BY <1>3, <2>3, <3>1 DEF WholeInv
  <2>8. CASE failed
    <3>1. pc' = "decide" /\ stage' = stage
      BY <1>7, <2>8 DEF FinishJob, FinishJobUnder
    <3>2. \A u \in Stages : jobRow'[u].status = "succeeded" => jobRow[u].status = "succeeded"
      BY <2>3, <2>4, <2>8
    <3>3. ~Advancing'
      BY <3>1 DEF Advancing, InStage
    <3> QED
      BY <1>2, <2>2, <2>5, <2>6, <2>7, <2>8, <3>1, <3>2, <3>3 DEF WholeInv
  <2>9. CASE ~failed
    <3>1. EnterStageAfter(stage) /\ stage \in Nat
      BY <1>7, <2>2, <2>9 DEF FinishJob, FinishJobUnder, Stages, Build, Test, Deploy
    <3>2. Advancing /\ cursor > StepCount(stage)
      BY <1>0, <2>2, <2>9 DEF ControlInv, Advancing
    <3>3. \A t \in Steps : t[1] <= stage => Past(t)
      <4>1. ASSUME NEW t \in Steps, t[1] = stage PROVE t[2] < cursor
        BY <1>0, <3>2, <4>1, StepFact, StepCountType DEF TypeOK
      <4>2. \A t \in Steps : t[1] <= stage => t[1] = stage \/ t[1] < stage
        BY <1>4, <2>2 DEF Stages, Build, Test, Deploy
      <4> QED
        BY <2>2, <4>1, <4>2 DEF Past
    <3>4. \A t \in Steps : t[1] <= stage => DoneWell(t)'
      BY <1>2, <3>2, <3>3 DEF WholeInv
    <3>5. ASSUME NEW u \in Stages, u = stage PROVE JobGood(u)'
      <4>1. CASE done
        BY <2>3, <2>4, <2>9, <3>5, <4>1 DEF JobGood, Good
      <4>2. CASE ~done
        <5>1. {"running", "pending"} \subseteq Good'
          BY <1>0, <2>1, <4>2, CallMissed
        <5> QED
          BY <2>2, <2>3, <3>5, <4>2, <5>1 DEF JobGood, RunningRow
      <4> QED
        BY <4>1, <4>2
    <3>6. \A u \in Stages : u <= stage => JobGood(u)'
      BY <2>2, <2>7, <3>5 DEF Stages, Build, Test, Deploy
    <3>7. \A t \in Steps : t[1] > stage => jobRow'[t[1]].status # "succeeded"
      <4>1. \A u \in Stages : u > stage => u # stage /\ jobRow[u] = NoRow
        BY <1>0 DEF JobRowInv, Stages, Build, Test, Deploy
      <4> QED
        BY <1>4, <2>3, <4>1 DEF NoRow
    <3> QED
      BY <1>0, <2>2, <2>5, <2>6, <3>1, <3>4, <3>6, <3>7, EnterWhole
  <2> QED
    BY <2>8, <2>9
<1>8. CASE Decide
  <2>1. /\ pc = "decide" /\ pc' = "finalize" /\ UNCHANGED <<jobRow, runRow, stage, failed>>
        /\ verdict' = "success" => ~failed /\ ~ctxDone
    BY <1>8 DEF Decide, dbVars
  <2>2. ~Advancing' /\ runRow.status # "success"
    BY <2>1 DEF Advancing, InStage, VerdictInv, WholeInv
  <2>3. \A u \in Stages : JobGood(u) => JobGood(u)'
    BY <1>3, <2>1
  <2>4. verdict' = "success" => \A t \in Steps : DoneWell(t)' /\ execRow'[t].status \in Good'
    <3>1. ASSUME verdict' = "success", NEW t \in Steps
          PROVE  DoneWell(t)' /\ execRow'[t].status \in Good'
      <4>1. DoneWell(t) /\ ~ctxDone /\ ResultPart(t)
        BY <2>1, <3>1 DEF WholeInv
      <4>2. execRow[t].status \in Good
        BY <4>1 DEF ResultPart, DoneWell
      <4> QED
        BY <1>1, <1>2, <1>3, <4>1, <4>2
    <3> QED
      BY <3>1
  <2>5. verdict' = "success" => \A u \in Stages : JobGood(u)'
    BY <2>1, <2>3 DEF WholeInv
  <2> QED
    BY <1>2, <2>1, <2>2, <2>3, <2>4, <2>5 DEF WholeInv
<1>9. CASE Finalize
  <2>1. /\ pc = "finalize" /\ pc' = "returned" /\ UNCHANGED <<jobRow, verdict, stage>>
        /\ runRow' = runRow \/ runRow' = UpdateStatus(runRow, verdict)
    BY <1>9 DEF Finalize, FinalizeUnder
  <2>2. runRow \in RunRow /\ verdict \in RunStates
    BY <1>0 DEF TypeOK, RunRow
  <2>3. runRow'.status = "success" => verdict = "success"
    BY <2>1, <2>2, WrittenStatus DEF WholeInv
  <2>4. ~Advancing'
    BY <2>1 DEF Advancing, InStage
  <2>5. \A u \in Stages : JobGood(u) => JobGood(u)'
    BY <1>3, <2>1
  <2>6. verdict = "success" => \A t \in Steps : execRow'[t].status \in Good'
    BY <1>1, <1>3 DEF WholeInv
  <2> QED
    BY <1>2, <2>1, <2>3, <2>4, <2>5, <2>6 DEF WholeInv
<1> QED
  BY <1>5, <1>6, <1>7, <1>8, <1>9, StageKeepsWhole DEF Main

(* What the calls of Run and the rows keep saying together.                *)
LEMMA InitView == Init => ViewInv
<1> SUFFICES ASSUME Init PROVE ViewInv
  OBVIOUS
<1>1. VerdictInv /\ ~(verdict = "success") /\ runRow.status = "pending"
  BY DEF Init, VerdictInv, NewRow
<1>2. \A s \in Steps : ResultPart(s)
  BY DEF Init, ResultPart, DoneWell, NoExecRow, NoStepRow, PhaseTerminal, StageTerminal
<1>3. \A st \in Stages : jobRow[st] = NoRow /\ ~(st < stage)
  BY DEF Init, Stages, Build, Test, Deploy
<1>4. ~Advancing \/ \A t \in Steps : ~Past(t)
  BY DEF Init, Advancing, InStage
<1>5. WholeInv
  BY <1>1, <1>3, <1>4 DEF Init, WholeInv, NoRow
<1> QED
  BY <1>1, <1>2, <1>5 DEF ViewInv

LEMMA NextKeepsView == Inv /\ RowInv /\ ViewInv /\ [Next]_vars => ViewInv'
<1> SUFFICES ASSUME Inv, RowInv, RowInv', ViewInv, [Next]_vars PROVE ViewInv'
  BY NextKeepsRows
<1>1. OwnInv /\ WholeInv /\ VerdictInv /\ \A s \in Steps : ResultPart(s)
  BY DEF Inv, ViewInv
<1>2. VerdictInv'
  BY <1>1, VerdictStep
<1>3. \A s \in Steps : ResultPart(s)'
  BY <1>1, NextKeepsResults
<1>4. WholeInv'
  BY <1>1, MainKeepsWhole, GoroutineKeepsWhole, EnvironmentKeepsWhole DEF Next
<1> QED
  BY <1>2, <1>3, <1>4 DEF ViewInv

(* The rows of a run always go together: behind the frontier of Run every  *)
(* step ended well and its job says so, a final status is the result of    *)
(* its goroutine, and "success" is said of a run that is whole.            *)
THEOREM ViewInvariance == Spec => []ViewInv
<1>1. Init => Inv /\ RowInv /\ ViewInv
  BY InitInv, InitRows, InitView
<1>2. Inv /\ RowInv /\ ViewInv /\ [Next]_vars => Inv' /\ RowInv' /\ ViewInv'
  BY NextKeeps, NextKeepsRows, NextKeepsView
<1> QED
  BY <1>1, <1>2, PTL DEF Spec

-----------------------------------------------------------------------------
(* The rows as a reader sees them.                                         *)

LEMMA IdLengths ==
  /\ Len(<<>>) = 0
  /\ \A st : Len(<<st>>) = 1 /\ <<st>>[1] = st
  /\ \A s \in Steps : Len(s) = 2
  /\ \A x, y, z : Len(<<x, y, z>>) = 3
<1>1. \A x, y : Len(<<x, y>>) = 2
  OBVIOUS
<1> QED
  BY <1>1, StepFact

(* The place of a row tells which table it is of.                          *)
LEMMA TableRow ==
  ASSUME TypeOK, Registered \subseteq Declared, NEW r \in Table
  PROVE  /\ r = Row(r.id, r.status) /\ r.id \in Seq(Nat) /\ Len(r.id) \in 0..3
         /\ Len(r.id) = 0 => r.id = <<>> /\ r.status = runRow.status
         /\ Len(r.id) = 1 =>
              /\ r.id[1] \in Stages /\ r.id = <<r.id[1]>>
              /\ r.status = jobRow[r.id[1]].status /\ r.status # "absent"
         /\ Len(r.id) = 2 => r.id \in Steps /\ r.status = stepRow[r.id].status /\ r.status # "absent"
         /\ Len(r.id) = 3 =>
              \/ \E s \in Steps : r.id = <<s[1], s[2], 0>> /\ r.status = execRow[s].status /\ r.status # "absent"
              \/ \E a \in Registered : r.id = <<Build, a[1], a[2]>> /\ a[2] # 0 /\ r.status = "stored"
<1>1. \A s \in Steps : s \in Seq(Nat) /\ s[1] \in Nat /\ s[2] \in Nat
  <2>1. \A x, y \in Nat : <<x, y>> \in Seq(Nat)
    OBVIOUS
  <2>2. \A s \in Steps : s[1] \in Nat /\ s[2] \in Nat
    BY StepFact, StepCountType DEF Stages, Build, Test, Deploy
  <2> QED
    BY <2>1, <2>2, StepFact
<1>2. \A a \in Registered : a[1] \in Nat /\ a[2] \in Nat /\ a[2] # 0
  BY ConfigAssumption DEF Declared, Outputs, ConfigAssumption
<1>3. /\ \A x \in Nat : <<x>> \in Seq(Nat)
      /\ \A x, y, z \in Nat : <<x, y, z>> \in Seq(Nat)
  OBVIOUS
<1>4. CASE r = Row(<<>>, runRow.status)
  BY <1>4, IdLengths DEF Row
<1>5. CASE \E st \in Stages : jobRow[st].status # "absent" /\ r = Row(<<st>>, jobRow[st].status)
  BY <1>3, <1>5, IdLengths DEF Row, Stages, Build, Test, Deploy
<1>6. CASE \E s \in Steps : stepRow[s].status # "absent" /\ r = Row(s, stepRow[s].status)
  <2>1. PICK s \in Steps : stepRow[s].status # "absent" /\ r = Row(s, stepRow[s].status)
    BY <1>6
  <2>2. r = Row(r.id, r.status) /\ r.id = s /\ r.status = stepRow[s].status
    BY <2>1 DEF Row
  <2>3. s \in Seq(Nat) /\ Len(s) = 2
    BY <1>1, IdLengths
  <2> QED
    BY <2>1, <2>2, <2>3
<1>7. CASE \E s \in Steps : execRow[s].status # "absent" /\ r = Row(<<s[1], s[2], 0>>, execRow[s].status)
  BY <1>1, <1>3, <1>7, IdLengths DEF Row
<1>8. CASE \E a \in Registered : r = Row(<<Build, a[1], a[2]>>, "stored")
  BY <1>2, <1>3, <1>8, IdLengths DEF Row, Build
<1> QED
  BY <1>4, <1>5, <1>6, <1>7, <1>8 DEF Table

(* What belongs to a place begins with it.                                 *)
LEMMA PartFact ==
  ASSUME NEW a, NEW b, a.id \in Seq(Nat), b.id \in Seq(Nat), PartOf(b, a)
  PROVE  Len(b.id) > Len(a.id) /\ \A i \in 1..Len(a.id) : b.id[i] = a.id[i]
  BY SubSeqProperties DEF PartOf

(* The rows of one moment do not contradict each other.                    *)
LEMMA TableAgrees ==
  ASSUME Inv, RowInv, ViewInv, Registered \subseteq Declared, NEW a \in Table, NEW b \in Table
  PROVE  ~Contradict(a, b)
<1> SUFFICES ASSUME PartOf(b, a),
                    \/ a.status \in {"success", "succeeded"} /\ b.status = "failed"
                    \/ Len(a.id) = 2 /\ a.status = "failed" /\ b.status = "succeeded"
             PROVE  FALSE
  BY DEF Contradict
<1>0. TypeOK /\ WholeInv /\ \A s \in Steps : ResultPart(s)
  BY DEF Inv, OwnInv, ViewInv
<1>1. Len(b.id) > Len(a.id) /\ \A i \in 1..Len(a.id) : b.id[i] = a.id[i]
  BY <1>0, TableRow, PartFact
<1>2. /\ Len(a.id) \in {0, 1, 2}
      /\ Len(a.id) = 0 => Len(b.id) \in {1, 2, 3}
      /\ Len(a.id) = 1 => Len(b.id) \in {2, 3}
      /\ Len(a.id) = 2 => Len(b.id) = 3
  <2>1. \A m, n \in 0..3 : n > m =>
          m \in {0, 1, 2} /\ (m = 0 => n \in {1, 2, 3}) /\ (m = 1 => n \in {2, 3}) /\ (m = 2 => n = 3)
    OBVIOUS
  <2>2. Len(a.id) \in 0..3 /\ Len(b.id) \in 0..3
    BY <1>0, TableRow
  <2> QED
    BY <1>1, <2>1, <2>2
<1>3. "failed" \notin Good
  BY DEF Good
<1>4. \A s \in Steps : DoneWell(s) => stepRow[s].status # "failed" /\ execRow[s].status # "failed"
  BY <1>0, <1>3 DEF ResultPart, DoneWell, PhaseTerminal
<1>5. \A s \in Steps : s[1] \in Stages /\ StepCount(s[1]) > 0 /\ s = <<s[1], s[2]>>
  BY StepFact, StepCountType
<1>6. CASE Len(a.id) = 0
  <2>1. runRow.status = "success" /\ b.status = "failed"
    BY <1>0, <1>6, TableRow DEF TypeOK, RunStates
  <2>2. (\A st \in Stages : JobGood(st)) /\ \A t \in Steps : DoneWell(t)
    BY <1>0, <2>1 DEF WholeInv
  <2>3. CASE Len(b.id) = 1
    <3>1. b.id[1] \in Stages /\ jobRow[b.id[1]].status = "failed"
      BY <1>0, <2>1, <2>3, TableRow
    <3>2. StepCount(b.id[1]) > 0
      BY <1>0, <3>1, StepCountType DEF WholeInv, NoRow
    <3> QED
      BY <1>3, <2>2, <3>1, <3>2 DEF JobGood
  <2>4. CASE Len(b.id) = 2
    BY <1>0, <1>4, <2>1, <2>2, <2>4, TableRow
  <2>5. CASE Len(b.id) = 3
    BY <1>0, <1>4, <2>1, <2>2, <2>5, TableRow
  <2> QED
    BY <1>6, <1>2, <2>3, <2>4, <2>5
<1>7. CASE Len(a.id) = 1
  <2>1. a.id[1] \in Stages /\ jobRow[a.id[1]].status = "succeeded" /\ b.status = "failed" /\ b.id[1] = a.id[1]
    <3>1. a.id[1] \in Stages /\ a.status = jobRow[a.id[1]].status /\ b.id[1] = a.id[1]
      BY <1>0, <1>1, <1>7, TableRow
    <3>2. a.status # "success"
      BY <1>0, <3>1 DEF TypeOK, Rows, StageStates
    <3> QED
      BY <1>7, <3>1, <3>2
  <2>2. \A t \in Steps : t[1] = b.id[1] => DoneWell(t)
    BY <1>0, <2>1 DEF WholeInv
  <2>3. CASE Len(b.id) = 2
    BY <1>0, <1>4, <2>1, <2>2, <2>3, TableRow
  <2>4. CASE Len(b.id) = 3
    <3>1. PICK s \in Steps : b.id = <<s[1], s[2], 0>> /\ b.status = execRow[s].status
      BY <1>0, <2>1, <2>4, TableRow
    <3>2. s[1] = b.id[1]
      BY <3>1
    <3> QED
      BY <1>4, <2>1, <2>2, <3>1, <3>2
  <2> QED
    BY <1>7, <1>2, <2>3, <2>4
<1>8. CASE Len(a.id) = 2
  <2>1. a.id \in Steps /\ a.status = stepRow[a.id].status
    BY <1>0, <1>8, TableRow
  <2>2. StageTerminal(a.status) /\ (a.status = "failed" \/ b.status = "failed") /\ b.status \in {"failed", "succeeded"}
        /\ (a.status = "succeeded" <=> b.status = "failed")
    BY <1>0, <2>1 DEF StageTerminal, TypeOK, StageStates
  <2>3. Len(b.id) = 3
    BY <1>8, <1>2
  <2>4. PICK s \in Steps : b.id = <<s[1], s[2], 0>> /\ b.status = execRow[s].status
    BY <1>0, <2>2, <2>3, TableRow
  <2>5. s = a.id
    <3>1. b.id[1] = a.id[1] /\ b.id[2] = a.id[2]
      BY <1>1, <1>8
    <3>2. s[1] = a.id[1] /\ s[2] = a.id[2]
      BY <2>4, <3>1
    <3> QED
      BY <1>5, <2>1, <3>2
  <2>6. ResultPart(s) /\ PhaseTerminal(execRow[s].status)
    BY <1>0, <2>2, <2>4 DEF PhaseTerminal
  <2> QED
    BY <2>1, <2>2, <2>4, <2>5, <2>6 DEF ResultPart
<1> QED
  BY <1>6, <1>7, <1>8, <1>2

(* There is one row at a place.                                            *)
LEMMA TableKeys ==
  ASSUME TypeOK, Registered \subseteq Declared, NEW a \in Table, NEW b \in Table, a.id = b.id
  PROVE  a = b
<1>1. a = Row(a.id, a.status) /\ b = Row(b.id, b.status) /\ Len(a.id) \in {0, 1, 2, 3}
  <2>1. \A n \in 0..3 : n \in {0, 1, 2, 3}
    OBVIOUS
  <2> QED
    BY <2>1, TableRow
<1>2. a.status = b.status
  <2>1. CASE Len(a.id) \in {0, 1, 2}
    <3>1. Len(b.id) = Len(a.id)
      OBVIOUS
    <3>2. CASE Len(a.id) = 0
      BY <3>1, <3>2, TableRow
    <3>3. CASE Len(a.id) = 1
      BY <3>1, <3>3, TableRow
    <3>4. CASE Len(a.id) = 2
      BY <3>1, <3>4, TableRow
    <3> QED
      BY <2>1, <3>2, <3>3, <3>4
  <2>2. CASE Len(a.id) = 3
    <3>1. \/ \E s \in Steps : a.id = <<s[1], s[2], 0>> /\ a.status = execRow[s].status
          \/ \E x \in Registered : a.id = <<Build, x[1], x[2]>> /\ x[2] # 0 /\ a.status = "stored"
      BY <2>2, TableRow
    <3>2. \/ \E s \in Steps : a.id = <<s[1], s[2], 0>> /\ b.status = execRow[s].status
          \/ \E x \in Registered : a.id = <<Build, x[1], x[2]>> /\ x[2] # 0 /\ b.status = "stored"
      BY <2>2, TableRow
    <3>3. \A s, t \in Steps : <<s[1], s[2], 0>> = <<t[1], t[2], 0>> => s = t
      BY StepFact
    <3> QED
      BY <3>1, <3>2, <3>3
  <2> QED
    BY <1>1, <2>1, <2>2
<1> QED
  BY <1>1, <1>2

LEMMA CoversFact ==
  /\ \A id : ~Covers(<<"nothing">>, id)
  /\ \A id : Covers(<<"runs">>, id) <=> id = <<>>
  /\ \A id : Covers(<<"jobs">>, id) <=> Len(id) = 1
  /\ \A st \in Stages : \A id : Covers(<<"job", st>>, id) <=> id = <<st>>
  /\ \A st \in Stages : \A id : Covers(<<"steps", st>>, id) <=> Len(id) = 2 /\ id[1] = st
  /\ \A st \in Stages : \A id : Covers(<<"artifacts", st>>, id) <=> Len(id) = 3 /\ id[1] = st /\ id[3] # 0
  /\ \A s \in Steps : \A id : Covers(<<"step", s>>, id) <=> id = s
  /\ \A s \in Steps : \A id : Covers(<<"executions", s>>, id) <=> id = <<s[1], s[2], 0>>
  /\ \A a \in Declared : \A id : Covers(<<"artifact", a>>, id) <=> id = <<Build, a[1], a[2]>>
  BY DEF Covers

(* A query returns the rows at the places it asks for, and only reads.     *)
LEMMA ReadAnswers ==
  ASSUME TypeOK, Registered \subseteq Declared, Read
  PROVE  /\ UNCHANGED vars
         /\ answer'.rows = {r \in Table : Covers(answer'.asked, r.id)}
         /\ closed' = (closed \/ \E r \in answer'.rows : r.id = <<>> /\ RunTerminal(r.status))
<1>1. SUFFICES \E asked, rows : Select(asked, rows) /\ rows = {r \in Table : Covers(asked, r.id)}
  BY DEF Select
<1>2. ASSUME NEW asked, NEW id, One(asked, id), \A x : Covers(asked, x) <=> x = id
      PROVE  \E rows : Select(asked, rows) /\ rows = {r \in Table : Covers(asked, r.id)}
  <2>1. PICK r \in Table : r.id = id /\ Select(asked, {r})
    BY <1>2 DEF One
  <2>2. {r} = {x \in Table : Covers(asked, x.id)}
    BY <1>2, <2>1, TableKeys
  <2> QED
    BY <2>1, <2>2
<1>3. CASE RunByID \/ RunByPipeline \/ RunByStatus
  <2>1. CASE RunByID
    BY <1>2, <2>1, CoversFact DEF RunByID
  <2>2. CASE RunByPipeline
    BY <2>2, CoversFact DEF RunByPipeline
  <2>3. CASE RunByStatus
    <3>1. /\ {} = {r \in Table : Covers(<<"nothing">>, r.id)}
          /\ {r \in Table : r.id = <<>>} = {r \in Table : Covers(<<"runs">>, r.id)}
      BY CoversFact
    <3>2. \/ Select(<<"runs">>, {r \in Table : r.id = <<>>})
          \/ Select(<<"nothing">>, {})
      BY <2>3 DEF RunByStatus
    <3> QED
      BY <3>1, <3>2
  <2> QED
    BY <1>3, <2>1, <2>2, <2>3
<1>4. CASE JobByID \/ JobsByRun
  <2>1. CASE JobByID
    BY <1>2, <2>1, CoversFact DEF JobByID
  <2>2. CASE JobsByRun
    BY <2>2, CoversFact DEF JobsByRun
  <2> QED
    BY <1>4, <2>1, <2>2
<1>5. CASE StepByID \/ StepsByJob
  <2>1. CASE StepByID
    BY <1>2, <2>1, CoversFact DEF StepByID
  <2>2. CASE StepsByJob
    <3>1. PICK st \in Stages : Select(<<"steps", st>>, {r \in Table : Len(r.id) = 2 /\ r.id[1] = st})
      BY <2>2 DEF StepsByJob
    <3> DEFINE rows == {r \in Table : Len(r.id) = 2 /\ r.id[1] = st}
    <3>2. rows = {r \in Table : Covers(<<"steps", st>>, r.id)}
      BY <3>1, CoversFact
    <3>3. Select(<<"steps", st>>, rows)
      BY <3>1
    <3> QED
      BY <3>2, <3>3
  <2> QED
    BY <1>5, <2>1, <2>2
<1>6. CASE ExecutionByID \/ ExecutionByStep
  <2>1. CASE ExecutionByID
    BY <1>2, <2>1, CoversFact DEF ExecutionByID
  <2>2. CASE ExecutionByStep
    <3>1. PICK s \in Steps : Select(<<"executions", s>>, {r \in Table : r.id = <<s[1], s[2], 0>>})
      BY <2>2 DEF ExecutionByStep
    <3> DEFINE asked == <<"executions", s>>
               rows  == {r \in Table : r.id = <<s[1], s[2], 0>>}
    <3>2. Select(asked, rows) /\ rows = {r \in Table : Covers(asked, r.id)}
      BY <3>1, CoversFact
    <3> HIDE DEF asked, rows
    <3> QED
      BY <3>2
  <2> QED
    BY <1>6, <2>1, <2>2
<1>7. CASE ArtifactByID \/ ArtifactsByJob
  <2>1. CASE ArtifactByID
    BY <1>2, <2>1, CoversFact DEF ArtifactByID
  <2>2. CASE ArtifactsByJob
    <3>1. PICK st \in Stages :
            Select(<<"artifacts", st>>, {r \in Table : Len(r.id) = 3 /\ r.id[1] = st /\ r.id[3] # 0})
      BY <2>2 DEF ArtifactsByJob
    <3> DEFINE rows == {r \in Table : Len(r.id) = 3 /\ r.id[1] = st /\ r.id[3] # 0}
    <3>2. rows = {r \in Table : Covers(<<"artifacts", st>>, r.id)}
      BY <3>1, CoversFact
    <3>3. Select(<<"artifacts", st>>, rows)
      BY <3>1
    <3> QED
      BY <3>2, <3>3
  <2> QED
    BY <1>7, <2>1, <2>2
<1> QED
  BY <1>3, <1>4, <1>5, <1>6, <1>7 DEF Read

(* The row of an execution is written by its own goroutine, in two places. *)
LEMMA ExecWriters ==
  ASSUME TypeOK, [Next]_vars, NEW s \in Steps, stepPc[s] \notin {"record", "report"}
  PROVE  execRow'[s] = execRow[s]
<1> USE DEF dbVars, vars
<1>1. CASE Main
  BY <1>1, MainFrame
<1>2. ASSUME NEW t \in Steps, StepGoroutine(t), t # s PROVE execRow'[s] = execRow[s]
  BY <1>2, StepFrame DEF Untouched
<1>3. CASE StepGoroutine(s)
  BY <1>3 DEF StepGoroutine, CreateStep, StartStep, StartStepOr, Submit, SubmitOr, RecordExecution,
              PollDone, StopPolling, PollRetry, PollTick, Report, FinishStep, FinishStepAs
<1>4. CASE \/ \E t \in Steps : ClusterStep(t) \/ VanishJob(t)
           \/ CancelRun \/ Crash \/ Finished \/ UNCHANGED vars
  BY <1>4 DEF ClusterStep, VanishJob, CancelRun, Crash, Finished
<1> QED
  BY <1>1, <1>2, <1>3, <1>4 DEF Next

(* A final row stays.                                                      *)
LEMMA FinalStays ==
  ASSUME Inv, RowInv, ViewInv, [Next]_vars, Registered \subseteq Declared, NEW r \in Table, Final(r.status)
  PROVE  r \in Table'
<1>0. TypeOK /\ OwnInv /\ (\A s \in Steps : ResultPart(s) /\ ExecRowPart(s)) /\ RowsFollow
  BY NextFollows DEF Inv, OwnInv, ViewInv, RowInv, StepPart
<1>1. CASE r = Row(<<>>, runRow.status)
  <2>1. RunTerminal(runRow.status)
    BY <1>0, <1>1 DEF Final, Row, TypeOK, RunStates, RunTerminal, StageTerminal
  <2>2. runRow'.status = runRow.status
    BY <1>0, <2>1 DEF RowsFollow, RunTransitionOK, pipelineRunTransitions, RunTerminal, RunStates
  <2> QED
    BY <1>1, <2>2 DEF Table, Row
<1>2. ASSUME NEW row, NEW next, Follows(row, next), row.status \in StageStates, Final(row.status)
      PROVE  next.status = row.status
  BY <1>2 DEF Follows, StageTransitionOK, stageTransitions, StageStates, Final, RunTerminal, StageTerminal
<1>3. ASSUME NEW st \in Stages, jobRow[st].status # "absent", r = Row(<<st>>, jobRow[st].status)
      PROVE  r \in Table'
  <2>1. jobRow'[st].status = jobRow[st].status
    BY <1>0, <1>2, <1>3 DEF RowsFollow, Row, TypeOK, Rows
  <2> QED
    BY <1>3, <2>1 DEF Table, Row
<1>4. ASSUME NEW s \in Steps, stepRow[s].status # "absent", r = Row(s, stepRow[s].status)
      PROVE  r \in Table'
  <2>1. stepRow'[s].status = stepRow[s].status
    BY <1>0, <1>2, <1>4 DEF RowsFollow, Row, TypeOK
  <2> QED
    BY <1>4, <2>1 DEF Table, Row
<1>5. ASSUME NEW s \in Steps, execRow[s].status # "absent", r = Row(<<s[1], s[2], 0>>, execRow[s].status)
      PROVE  r \in Table'
  <2>1. PhaseTerminal(execRow[s].status)
    BY <1>0, <1>5 DEF Final, Row, TypeOK, Phases, RunTerminal, StageTerminal, PhaseTerminal
  <2>2. stepPc[s] \notin {"record", "report"}
    BY <1>0, <2>1 DEF ResultPart, ExecRowPart, NoExecRow, PhaseTerminal
  <2>3. execRow'[s] = execRow[s]
    BY <1>0, <2>2, ExecWriters
  <2> QED
    BY <1>5, <2>3 DEF Table, Row
<1>6. ASSUME NEW a \in Registered, r = Row(<<Build, a[1], a[2]>>, "stored")
      PROVE  r \in Table'
  <2>1. a \in Registered'
    BY <1>0, ArtifactsStay
  <2> QED
    BY <1>6, <2>1 DEF Table, Row
<1> QED
  BY <1>1, <1>3, <1>4, <1>5, <1>6 DEF Table

-----------------------------------------------------------------------------
(* What the reader may conclude.                                           *)

(* Whoever is found in a final state has come to rest with the whole run.  *)
LEMMA TerminalStopped ==
  ASSUME RowInv, RunTerminal(runRow.status)
  PROVE  Stopped
  BY DEF RowInv, RunRowInv, RunningRow, NewRow, RunTerminal, Stopped

LEMMA TableRests ==
  ASSUME Inv, RowInv, RunTerminal(runRow.status), [Next]_vars
  PROVE  Table' = Table /\ runRow' = runRow
<1>1. UNCHANGED dbVars
  BY TerminalStopped, StoppedRests DEF Inv
<1> QED
  BY <1>1 DEF dbVars, Table, Registered

(* The jobs of the table are a beginning of the configured stages.         *)
LEMMA TableBegins ==
  ASSUME Inv, RowInv, ViewInv, Registered \subseteq Declared, NEW r \in Table, Len(r.id) = 1,
         NEW st \in Stages, st < r.id[1], StepCount(st) > 0
  PROVE  FoundGood(<<st>>, {x \in Table : Len(x.id) = 1})
<1>0. TypeOK /\ WholeInv /\ JobRowInv
  BY DEF Inv, OwnInv, ViewInv, RowInv
<1>1. r.id[1] \in Stages /\ jobRow[r.id[1]].status # "absent"
  BY <1>0, TableRow
<1>2. ~(r.id[1] > stage)
  BY <1>0, <1>1 DEF JobRowInv, NoRow
<1>3. st < stage
  BY <1>0, <1>1, <1>2 DEF TypeOK, Stages, Build, Test, Deploy
<1>4. jobRow[st].status \in Good
  BY <1>0, <1>3 DEF WholeInv, JobGood
<1>5. Row(<<st>>, jobRow[st].status) \in Table
  BY <1>4 DEF Table, Good
<1> QED
  BY <1>4, <1>5, IdLengths DEF FoundGood, Good, Row

(* Everything the table has of a run that succeeded.                       *)
LEMMA TableWhole ==
  ASSUME Inv, ViewInv, runRow.status = "success"
  PROVE  /\ \A st \in Stages : StepCount(st) > 0 =>
              jobRow[st].status \in Good /\ Row(<<st>>, jobRow[st].status) \in Table
         /\ \A s \in Steps :
              /\ stepRow[s].status \in Good /\ Row(s, stepRow[s].status) \in Table
              /\ execRow[s].status \in Good /\ Row(<<s[1], s[2], 0>>, execRow[s].status) \in Table
         /\ \A a \in Declared : Row(<<Build, a[1], a[2]>>, "stored") \in Table
<1>1. verdict = "success" /\ WholeInv /\ EndInv /\ \A s \in Steps : ResultPart(s)
  BY DEF Inv, OwnInv, ViewInv, WholeInv
<1>2. \A st \in Stages : StepCount(st) > 0 => jobRow[st].status \in Good
  BY <1>1 DEF WholeInv, JobGood
<1>3. \A s \in Steps : stepRow[s].status \in Good /\ execRow[s].status \in Good
  BY <1>1 DEF WholeInv, ResultPart
<1>4. Declared \subseteq Registered
  BY <1>1 DEF EndInv, AllDone
<1>5. "absent" \notin Good
  BY DEF Good
<1> QED
  BY <1>2, <1>3, <1>4, <1>5 DEF Table

LEMMA InitReader == ReaderInit => ReaderInv
  BY DEF ReaderInit, ReaderInv, Nowhere, JobsAreBeginnings

(* The call of Run goes on beside the reader.                              *)
LEMMA RunKeepsReader ==
  ASSUME Inv, RowInv, ViewInv, ResultInv, ReaderInv, [Next]_vars, UNCHANGED readerVars
  PROVE  ReaderInv'
<1> USE DEF readerVars
<1>0. Registered \subseteq Declared
  BY DEF ResultInv, ArtifactInv
<1>1. \A r \in answer'.rows : Final(r.status) => r \in Table'
  BY <1>0, FinalStays DEF ReaderInv
<1>2. closed' => RunTerminal(runRow'.status)
                   /\ answer'.rows = {r \in Table' : Covers(answer'.asked, r.id)}
  BY TableRests DEF ReaderInv
<1>3. JobsAreBeginnings'
  <2>1. faults' = 0 => faults = 0
    BY FaultsGrow DEF Inv, OwnInv
  <2> QED
    BY <2>1 DEF ReaderInv, JobsAreBeginnings, FoundGood
<1> QED
  BY <1>1, <1>2, <1>3 DEF ReaderInv, Covers

LEMMA ReadKeepsReader ==
  ASSUME Inv, RowInv, ViewInv, ResultInv, ReaderInv, Read
  PROVE  ReaderInv'
<1>0. TypeOK /\ Registered \subseteq Declared
  BY DEF Inv, OwnInv, ResultInv, ArtifactInv
<1>1. /\ UNCHANGED vars /\ Table' = Table /\ faults' = faults
      /\ answer'.rows = {r \in Table : Covers(answer'.asked, r.id)}
      /\ closed' = (closed \/ \E r \in answer'.rows : r.id = <<>> /\ RunTerminal(r.status))
  BY <1>0, ReadAnswers DEF vars, dbVars, Table, Registered
<1>2. closed' => RunTerminal(runRow'.status)
  <2>1. ASSUME NEW r \in Table, r.id = <<>> PROVE r.status = runRow.status
    BY <1>0, <2>1, TableRow, IdLengths
  <2> QED
    BY <1>1, <2>1 DEF ReaderInv, vars, dbVars
<1>3. JobsAreBeginnings'
  <2> SUFFICES ASSUME answer'.asked = <<"jobs">>, NEW r \in answer'.rows, NEW st \in Stages,
                      st < r.id[1], StepCount(st) > 0
               PROVE  FoundGood(<<st>>, answer'.rows)
    BY <1>1 DEF JobsAreBeginnings, FoundGood
  <2>1. answer'.rows = {x \in Table : Len(x.id) = 1} /\ r \in Table /\ Len(r.id) = 1
    BY <1>1, CoversFact
  <2> QED
    BY <1>0, <2>1, TableBegins
<1>4. \A r \in answer'.rows : r \in Table'
  BY <1>1
<1>5. answer'.rows = {r \in Table' : Covers(answer'.asked, r.id)}
  BY <1>1
<1> QED
  BY <1>2, <1>3, <1>4, <1>5 DEF ReaderInv, Covers

LEMMA ReaderStep ==
  ASSUME [ReaderNext]_<<vars, readerVars>>, TypeOK, Registered \subseteq Declared
  PROVE  [Next]_vars /\ (Read \/ UNCHANGED readerVars)
  BY ReadAnswers DEF ReaderNext, readerVars

(* What the reader holds is still so where it is final, and all of it once *)
(* the run is over, whatever the call of Run does between two queries.     *)
THEOREM ReaderInvariance == ReaderSpec => [](Inv /\ RowInv /\ ResultInv /\ ViewInv /\ ReaderInv)
<1> DEFINE All == Inv /\ RowInv /\ ResultInv /\ ViewInv /\ ReaderInv
<1>1. ReaderInit => All
  BY InitInv, InitRows, InitResult, InitView, InitReader DEF ReaderInit
<1>2. All /\ [ReaderNext]_<<vars, readerVars>> => All'
  <2> SUFFICES ASSUME All, [ReaderNext]_<<vars, readerVars>> PROVE All'
    OBVIOUS
  <2>1. [Next]_vars /\ (Read \/ UNCHANGED readerVars)
    BY ReaderStep DEF Inv, OwnInv, ResultInv, ArtifactInv
  <2>2. Inv' /\ RowInv' /\ ResultInv' /\ ViewInv'
    BY <2>1, NextKeepsResult, NextKeepsView
  <2>3. ReaderInv'
    BY <2>1, RunKeepsReader, ReadKeepsReader
  <2> QED
    BY <2>2, <2>3
<1> QED
  BY <1>1, <1>2, PTL DEF ReaderSpec

(* Two queries, with anything in between, never contradict each other.     *)
THEOREM ReadsAgreeAlways == ReaderSpec => ReadsAgree
<1> DEFINE All == Inv /\ RowInv /\ ResultInv /\ ViewInv /\ ReaderInv
           Agree == \A a \in answer.rows, b \in answer'.rows : ~Contradict(a, b) /\ ~Contradict(b, a)
<1>1. All /\ [ReaderNext]_<<vars, readerVars>> => [Agree]_readerVars
  <2> SUFFICES ASSUME All, [ReaderNext]_<<vars, readerVars>>, readerVars' # readerVars,
                      NEW a \in answer.rows, NEW b \in answer'.rows
               PROVE  ~Contradict(a, b) /\ ~Contradict(b, a)
    OBVIOUS
  <2>1. TypeOK /\ Registered \subseteq Declared
    BY DEF Inv, OwnInv, ResultInv, ArtifactInv
  <2>2. b \in Table
    BY <2>1, ReaderStep, ReadAnswers
  <2>3. Final(a.status) => a \in Table
    BY DEF ReaderInv
  <2>4. Contradict(a, b) \/ Contradict(b, a) => Final(a.status)
    BY DEF Contradict, Final, RunTerminal, StageTerminal
  <2> QED
    BY <2>1, <2>2, <2>3, <2>4, TableAgrees
<1> QED
  BY <1>1, ReaderInvariance, PTL DEF ReaderSpec, ReadsAgree

(* Who has seen "success" finds every part there and good in each later    *)
(* query.                                                                  *)
THEOREM SuccessIsFoundWhole == ReaderSpec => SuccessIsWhole
<1> DEFINE All == Inv /\ RowInv /\ ResultInv /\ ViewInv /\ ReaderInv
           Whole == Row(<<>>, "success") \in answer.rows =>
             /\ \A st \in Stages :
                  answer'.asked = <<"jobs">> /\ StepCount(st) > 0 => FoundGood(<<st>>, answer'.rows)
             /\ \A s \in Steps :
                  /\ answer'.asked = <<"steps", s[1]>> => FoundGood(s, answer'.rows)
                  /\ answer'.asked = <<"executions", s>> => FoundGood(<<s[1], s[2], 0>>, answer'.rows)
             /\ \A a \in Declared :
                  answer'.asked = <<"artifacts", Build>> => FoundGood(<<Build, a[1], a[2]>>, answer'.rows)
<1>1. All /\ [ReaderNext]_<<vars, readerVars>> => [Whole]_readerVars
  <2> SUFFICES ASSUME All, [ReaderNext]_<<vars, readerVars>>, readerVars' # readerVars,
                      Row(<<>>, "success") \in answer.rows
               PROVE  Whole
    OBVIOUS
  <2>1. Read /\ TypeOK /\ Registered \subseteq Declared
    BY ReaderStep DEF Inv, OwnInv, ResultInv, ArtifactInv
  <2>2. runRow.status = "success"
    <3>1. Final("success") /\ Row(<<>>, "success").status = "success" /\ Row(<<>>, "success").id = <<>>
      BY DEF Final, RunTerminal, Row
    <3>2. Row(<<>>, "success") \in Table
      BY <3>1 DEF ReaderInv
    <3> QED
      BY <2>1, <3>1, <3>2, TableRow, IdLengths
  <2>3. answer'.rows = {r \in Table : Covers(answer'.asked, r.id)}
    BY <2>1, ReadAnswers
  <2>4. ASSUME NEW id, NEW status \in Good \cup {"stored"}, Row(id, status) \in Table, Covers(answer'.asked, id)
        PROVE  FoundGood(id, answer'.rows)
    BY <2>3, <2>4 DEF FoundGood, Good, Row
  <2>5. ASSUME NEW st \in Stages, StepCount(st) > 0, answer'.asked = <<"jobs">>
        PROVE  FoundGood(<<st>>, answer'.rows)
    BY <2>2, <2>4, <2>5, TableWhole, CoversFact, IdLengths
  <2>6. ASSUME NEW s \in Steps, answer'.asked = <<"steps", s[1]>>
        PROVE  FoundGood(s, answer'.rows)
    <3>1. Covers(answer'.asked, s)
      BY <2>6, CoversFact, IdLengths, StepFact
    <3> QED
      BY <2>2, <2>4, <3>1, TableWhole
  <2>7. ASSUME NEW s \in Steps, answer'.asked = <<"executions", s>>
        PROVE  FoundGood(<<s[1], s[2], 0>>, answer'.rows)
    BY <2>2, <2>4, <2>7, TableWhole, CoversFact
  <2>8. ASSUME NEW a \in Declared, answer'.asked = <<"artifacts", Build>>
        PROVE  FoundGood(<<Build, a[1], a[2]>>, answer'.rows)
    <3>1. a[2] # 0 /\ Build \in Stages
      BY ConfigAssumption DEF Declared, Outputs, ConfigAssumption, Stages
    <3>2. Covers(answer'.asked, <<Build, a[1], a[2]>>)
      BY <2>8, <3>1, CoversFact, IdLengths
    <3> QED
      BY <2>2, <2>4, <3>2, TableWhole
  <2> QED
    BY <2>5, <2>6, <2>7, <2>8
<1> QED
  BY <1>1, ReaderInvariance, PTL DEF ReaderSpec, SuccessIsWhole

(* Once the run was seen to be over, the same question has the same        *)
(* answer.                                                                 *)
THEOREM ClosedRests == ReaderSpec => ClosedIsAtRest
<1> DEFINE All == Inv /\ RowInv /\ ResultInv /\ ViewInv /\ ReaderInv
           Same == closed /\ answer'.asked = answer.asked => answer'.rows = answer.rows
<1>1. All /\ [ReaderNext]_<<vars, readerVars>> => [Same]_readerVars
  <2> SUFFICES ASSUME All, [ReaderNext]_<<vars, readerVars>>, readerVars' # readerVars
               PROVE  Same
    OBVIOUS
  <2>1. Read /\ TypeOK /\ Registered \subseteq Declared
    BY ReaderStep DEF Inv, OwnInv, ResultInv, ArtifactInv
  <2> QED
    BY <2>1, ReadAnswers DEF ReaderInv
<1> QED
  BY <1>1, ReaderInvariance, PTL DEF ReaderSpec, ClosedIsAtRest

(* A list of jobs never has a gap: what is listed comes after jobs that    *)
(* are listed too, and good.                                               *)
THEOREM JobListsAreBeginnings == ReaderSpec => []JobsAreBeginnings
<1>1. ReaderInv => JobsAreBeginnings
  BY DEF ReaderInv
<1> QED
  BY <1>1, ReaderInvariance, PTL
=============================================================================
