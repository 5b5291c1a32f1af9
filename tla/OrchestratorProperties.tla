----------------------- MODULE OrchestratorProperties -----------------------
(***************************************************************************)
(* What one call of Orchestrator.Run promises: to the reader of the        *)
(* database, to the cluster and to its caller.                             *)
(***************************************************************************)
EXTENDS Orchestrator

Rows == [status : StageStates \cup {"absent"}, started : BOOLEAN, finished : BOOLEAN]

(* Every row holds a state of its own machine: pipeline_runs those of      *)
(* pipeline_run_fsm.go, jobs and job_steps those of stage_fsm.go,          *)
(* executions the phases of executor.go; the control state stays in range. *)
TypeOK ==
  /\ runRow \in [status : RunStates, started : BOOLEAN, finished : BOOLEAN]
  /\ jobRow \in [Stages -> Rows]
  /\ stepRow \in [Steps -> [status : StageStates \cup {"absent"}, started : BOOLEAN,
                            finished : BOOLEAN, group : Nat]]
  /\ execRow \in [Steps -> [status : Phases \cup {"absent"}, completed : BOOLEAN]]
  /\ artifacts \in Seq(Nat \X Nat)
  /\ kjob \in [Steps -> Jobs]
  /\ pc \in {"start", "createJob", "startJob", "resolve", "launch", "wait", "register",
             "finishJob", "decide", "finalize", "returned", "crashed"}
  /\ stage \in Stages \cup {0} /\ cursor \in Nat /\ out \in Nat
  /\ deployed \in Nat \X Nat
  /\ failed \in BOOLEAN /\ ctxDone \in BOOLEAN
  /\ verdict \in RunStates
  /\ stepPc \in [Steps -> {"idle", "create", "start", "submit", "record", "poll", "report",
                           "finish", "done", "dead"}]
  /\ stepErr \in [Steps -> BOOLEAN]
  /\ phase \in [Steps -> Phases]
  /\ faults \in 0..MaxFaults

-----------------------------------------------------------------------------
(* The order the configuration asks for, told without the loops' Batch.    *)

(* Two test steps of one block of adjacent parallel steps.                 *)
SameBlock(t, s) ==
  /\ t[1] = Test /\ s[1] = Test
  /\ \A k \in t[2]..s[2] : TestSteps[k]
  /\ \A k \in s[2]..t[2] : TestSteps[k]

(* Step t has to be over before step s may begin.                          *)
Before(t, s) ==
  \/ t[1] < s[1]
  \/ t[1] = s[1] /\ t[2] < s[2] /\ ~SameBlock(t, s)

Passed(s)   == kjob[s].pod = "exited0"
InFlight(s) == stepPc[s] \in {"create", "start", "submit", "record", "poll", "report", "finish"}

Outputs(i)  == {<<i, j>> : j \in 1..Len(BuildSteps[i])}
Declared    == UNION {Outputs(i) : i \in 1..Len(BuildSteps)}
Registered  == {artifacts[k] : k \in DOMAIN artifacts}

-----------------------------------------------------------------------------
(* Safety of the order.                                                    *)

(* No command reaches the cluster before every step the configuration puts *)
(* before it has exited 0: the stages one after the other (executeStages), *)
(* the steps of a stage in order, parallel blocks joined (testinator.Run). *)
StageGate ==
  \A s, t \in Steps : Before(t, s) /\ kjob[s] # NoJob => Passed(t)

(* While a step's goroutine is still at work its job row and the run row   *)
(* say "running": runParallel joins every step, failed siblings or not,    *)
(* before the stage and the run are closed.                                *)
JoinBeforeClose ==
  \A s \in Steps : InFlight(s) =>
    jobRow[s[1]].status = "running" /\ runRow.status = "running"

(* Steps overlap only inside one block of parallel test steps, and two     *)
(* rows of a stage carry the same parallel_group exactly when their steps  *)
(* are of one block, so the group tells a reader what could overlap.       *)
GroupsAreBlocks ==
  \A s, t \in Steps : s # t =>
    /\ InFlight(s) /\ InFlight(t) => SameBlock(s, t)
    /\ s[1] = t[1] /\ stepRow[s].status # "absent" /\ stepRow[t].status # "absent" =>
         (SameBlock(s, t) <=> stepRow[s].group # 0 /\ stepRow[s].group = stepRow[t].group)

(* What is deployed is the first output of the wanted type in the order of *)
(* the configuration, and by then every build output is registered: the    *)
(* search over rows by created_at agrees with the order of declaration.    *)
DeploysFirstDeclared ==
  deployed # NoArtifactRow =>
    /\ Declared \subseteq Registered
    /\ deployed \in Declared
    /\ BuildSteps[deployed[1]][deployed[2]] = DeployArtifact
    /\ \A d \in Declared :
         BuildSteps[d[1]][d[2]] = DeployArtifact =>
           d[1] > deployed[1] \/ (d[1] = deployed[1] /\ d[2] >= deployed[2])

-----------------------------------------------------------------------------
(* The rows tell the truth.                                                *)

(* A run recorded as "success" ran every step of the configuration to exit *)
(* code 0 and registered every declared output, whatever calls failed.     *)
NoFalseSuccess ==
  runRow.status = "success" => (\A s \in Steps : Passed(s)) /\ Declared \subseteq Registered

(* A step or execution row says "succeeded" only of a command that exited  *)
(* 0, and as long as nothing was cancelled and no call failed it says      *)
(* "failed" only of one that exited 1; a finished step's execution agrees. *)
Undisturbed == faults = 0 /\ ~ctxDone

StepRowTruth ==
  \A s \in Steps :
    /\ "succeeded" \in {stepRow[s].status, execRow[s].status} => Passed(s)
    /\ Undisturbed /\ "failed" \in {stepRow[s].status, execRow[s].status} =>
         kjob[s].pod = "exited1"
    /\ Undisturbed /\ StageTerminal(stepRow[s].status) =>
         execRow[s].status = stepRow[s].status

(* Timestamps agree with statuses although each UPDATE sets at most one    *)
(* column: a row that has left "pending" keeps started_at, a row with      *)
(* finished_at is terminal (startedFinishedForStatus, COALESCE).           *)
RowTimes ==
  LET Times(row, terminal) ==
        /\ row.status \notin {"absent", "pending"} => row.started
        /\ row.finished => terminal
  IN /\ Times(runRow, RunTerminal(runRow.status))
     /\ \A st \in Stages : Times(jobRow[st], StageTerminal(jobRow[st].status))
     /\ \A s \in Steps : Times(stepRow[s], StageTerminal(stepRow[s].status))

(* When no call failed on its own, what Run returns agrees with the run    *)
(* row: nil with "success" or, when the cancellation came too late to stop *)
(* anything, "canceled".  A row of a run, a job, a step or an execution is *)
(* left unfinished only by a cancellation, which cut off the very call     *)
(* that wrote it (nothing has followed it) or let poll return without one. *)
ReturnAgrees ==
  pc = "returned" /\ faults = 0 =>
    /\ runRow.status \in
         IF ctxDone
         THEN {"pending", "running", "canceled", IF failed THEN "failed" ELSE "success"}
         ELSE {IF failed THEN "failed" ELSE "success"}
    /\ runRow.status \in {"pending", "running"} =>
         failed /\ jobRow = [st \in Stages |-> NoRow]
    /\ \A st \in Stages : jobRow[st].status \in {"pending", "running"} =>
         ctxDone /\ failed /\ \A s \in Steps : s[1] = st => stepRow[s].status = "absent"
    /\ \A s \in Steps : stepRow[s].status \in {"pending", "running"} =>
         ctxDone /\ failed /\ kjob[s] = NoJob
    /\ \A s \in Steps : execRow[s].status \in {"pending", "running"} =>
         ctxDone /\ (kjob[s].deleted \/ stepRow[s].status = "failed" \/ Passed(s))

(* The orchestrator does not forget work in the cluster: a Job that may    *)
(* still do something is one a goroutine is watching, or one left behind   *)
(* by a failed call, or by a cancellation that arrived during Submit or    *)
(* before the execution was recorded, so that no phase was ever reported.  *)
OrphansAreExplained ==
  \A s \in Steps : Live(kjob[s]) =>
    \/ stepPc[s] \in {"record", "poll", "report"}
    \/ faults > 0
    \/ ctxDone /\ execRow[s].status \in {"absent", "pending"}

(* The rows of runs, jobs and steps take a listed transition or none.      *)
Follows(row, next) ==
  \/ row.status = "absent" /\ next.status = "pending"
  \/ StageTransitionOK(row.status, next.status)

RowsFollow ==
  /\ RunTransitionOK(runRow.status, runRow'.status)
  /\ \A st \in Stages : Follows(jobRow[st], jobRow'[st])
  /\ \A s \in Steps : Follows(stepRow[s], stepRow'[s])

(* The two state machines are never consulted by the code that writes the  *)
(* rows (ValidateTransition has no caller), and yet one call of Run obeys  *)
(* them: rows of runs, jobs and steps only take listed transitions.        *)
StatusesFollowFsm == [][RowsFollow]_vars

-----------------------------------------------------------------------------
(* Liveness.                                                               *)

(* Run stops once its context is cancelled, however long the commands take *)
(* and whether or not the Jobs can still be read: poll selects on the      *)
(* context as well as on the ticker.                                       *)
CancelStops == ctxDone ~> Stopped

(* The only thing Run can wait for without end, commands that end          *)
(* provided, is a Job that has disappeared: poll retries Status for ever.  *)
HangsOnlyOnVanishedJob ==
  <>Stopped \/ <>[](\E s \in Steps : stepPc[s] = "poll" /\ kjob[s].deleted)

(* With no failed call and no cancellation, a configuration whose commands *)
(* all exit 0 and whose build declares what it deploys ends in "success".  *)
Deployable ==
  DeployArtifact = NoArtifact \/ \E d \in Declared : BuildSteps[d[1]][d[2]] = DeployArtifact

SucceedsWhenAllPass ==
  Deployable /\ [](Undisturbed /\ \A s \in Steps : kjob[s].pod # "exited1")
    => <>(runRow.status = "success")
=============================================================================
