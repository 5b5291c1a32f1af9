# Shipinator: specifications, checks and proofs

Shipinator is a CI/CD orchestrator written in Go. A *pipeline run* executes the
stages of a `.shipinator.yaml`: build, test, deploy. Every step of a stage is a
shell command that runs in a Kubernetes Job; every run, job (one per stage),
step, execution (one attempt of a step) and artifact is a row in Postgres.

This directory holds TLA+ modules translated from that code, the TLC
configurations that check them on small instances, and proofs that TLAPS checks
for every instance.

## 1. The system

| Component | Code | State it keeps | Operations |
|---|---|---|---|
| State machines | `internal/orchestrator/{pipeline_run_fsm,stage_fsm,states,errors}.go` | none | `ValidateTransition`, `IsTerminal` |
| Orchestrator | `internal/orchestrator/orchestrator.go` | the control of its goroutines | `Run`, with `executeStages`, `runStage`, `runStep`, `executeAndPoll`, `poll` |
| Buildinator, Testinator, Deployinator | `internal/{build,test,deploy}inator/` | the control of their loops | `Run` of one stage |
| Executor | `internal/executor/`, `internal/executor/kubernetes/` | the Job objects in the cluster | `Submit`, `Status`, `Cancel` |
| Postgres stores | `internal/store/postgres/` | `pipeline_runs`, `jobs`, `job_steps`, `executions`, `artifacts`; `projects`, `repositories`, `pipelines` | create, get, list, update, delete |
| Artifact store | `internal/artifact/filesystem/store.go` | payload files under a base directory | `Put`, `Get` |
| Pipeline configuration | `internal/config/config.go` | none | `Load`, with validation |
| Server configuration | `internal/server/config/config.go` | none | `Load` |
| Server process | `cmd/server/main.go` | listener, connections, database pool | start, health endpoint, shutdown |

How they interact:

* the caller of `Run` gives a context and waits. It can cancel the context at any
  moment. (At this commit `main.go` does not call `Run`; the tests do.)
* `Run` calls the three stages one after the other; each stage calls back into
  `runStep` through the step runner it was built with. Testinator starts one
  goroutine for each step of a block of adjacent parallel steps and waits for all
  of them. All other steps run one at a time.
* `runStep` talks to two systems that know nothing of each other: rows in
  Postgres, Jobs in Kubernetes. There is no transaction over the two and none over
  two rows. Every call is an interleaving point and can fail.
* `poll` reads a Job every tick and writes the phase to the execution row until
  the phase is terminal or the context is done.
* whoever shows a run reads its rows through the query methods of the stores, one
  query at a time, while `Run` goes on writing them. Nothing keeps a second call of
  `Run` from working on the same run.
* Buildinator registers a step's outputs as artifact rows; Deployinator searches
  the rows of the build job for the first of the wanted type.

What is hard in it: interleavings of the parallel steps and of their failures; a
cancellation between any two calls, or in the middle of one; calls that fail after
they took effect; writes whose failure is only logged; a Job that somebody else
deletes; a phase read from the cluster and used later; a crash; a reader between two
writes; a signal, a failing listener and requests while the pool is closed. `PROJECT.json`
lists each of these at its line together with the property that would notice.

What makes each component correct:

* state machines: a row moves only along listed transitions (`StatusesFollowFsm`),
  and the literals in every place that compares them agree
  (`TypeOK`, `TerminalStepsHaveFinishedAt`);
* orchestrator: stages and steps keep the order of the configuration
  (`StageGate`), "success" is never recorded wrongly (`NoFalseSuccess`), rows and the result of `Run` tell the truth
  (`StepRowTruth`, `ReturnAgrees`), no Job is forgotten (`OrphansAreExplained`), `Run` ends when
  it should (`CancelStops`, `HangsOnlyOnVanishedJob`, `SucceedsWhenAllPass`);
* Testinator: a block is joined before anything follows (`JoinBeforeClose`) and
  the row's group names are the blocks (`GroupsAreBlocks`);
* Deployinator and Buildinator: what is deployed is what the configuration
  declares first (`DeploysFirstDeclared`);
* executor: a status ends a step only when the Job has ended (`StepRowTruth`);
* stores: an update keeps the timestamp it does not set (`RowTimes`); a run belongs to
  a project through rows that are all there (`RunsBelongToProjects`), a name finds one
  project (`NamesFindOneProject`), a repeated `Create` makes no second row
  (`OneRowPerStruct`); a view put together from several queries does not
  contradict itself (`ReadsAgree`, `SuccessIsWhole`, `ClosedIsAtRest`,
  `JobsAreBeginnings`);
* two calls of `Run` on one run: "success" was earned by one of them
  (`SuccessWasEarned`) and the row ends as what one of them decided (`RowIsAVerdict`);
* artifact store: what was put is what is read (`ReadsWhatWasPut`), and metadata stands
  beside whole payloads only (`MetadataMarksComplete`);
* pipeline configuration: what is accepted has all that the stages take for granted
  (`AcceptedCanRun`);
* server: the environment wins over file and default (`EnvironmentWins`), no request is
  served without a pool (`PoolOutlivesRequests`), exit code 1 has a cause
  (`ExitCodeTells`), a signal stops the process (`StopsUnlessHeld`).

## 2. The modules

| Module | Models |
|---|---|
| `LifecycleStates` | the state values, the two transition tables, `ValidateTransition`, `IsTerminal` |
| `StatusRows` | the status and timestamp columns; `Create` and `UpdateStatus` of the stores |
| `KubernetesExecutor` | the Job of one execution, `Submit`, `Cancel`, `jobToStatus`, and what the cluster does with a Job by itself |
| `Orchestrator` | one call of `Run`: its main goroutine, one goroutine per step, the cluster, the caller, failures |
| `OrchestratorProperties` | `TypeOK`, the safety properties, the action property, liveness |
| `GatedExecution` | the abstract specification: what a run promises, without rows, goroutines or polling |
| `OrchestratorRefinement` | the mapping from `Orchestrator` to `GatedExecution` |
| `OrchestratorInvariant`, `OrchestratorProofs` | the inductive invariant `Inv` of the order, with the part a call keeps beside another one (`OwnInv`), and the theorems from it |
| `OrchestratorRowInvariant`, `OrchestratorResultInvariant`, `OrchestratorRowProofs` | `RowInv`, what the rows hold at each point of the control; `ResultInv`, what a run leaves behind; and the theorems from both |
| `OrchestratorClaims` | a statement of the comments and tests that the code does not keep |
| `MCOrchestrator` | pipelines for TLC |
| `RunReader`, `MCRunReader` | `Orchestrator` composed with a reader of the run's rows: the query methods of the stores |
| `RunReaderInvariant` | `ViewInv`, what the rows say together, and `ReaderInv`, what a reader can still count on |
| `ObserverProofs` | a run seen from outside: that it implements `GatedExecution`, and the theorems about the reader |
| `RunRetries`, `MCRunRetries` | two instances of `Orchestrator` on one run row, and the inductive invariant `RetriesInv` of the two |
| `RunRetriesProofs` | the theorems about two calls |
| `ArtifactStore`, `MCArtifactStore` | `Put` and `Get` of the filesystem store as file operations, with their properties |
| `ArtifactStoreInvariant`, `ArtifactStoreProofs` | `StoreInv`, what a file holds at each point of the operations on it, and the theorems from it |
| `Catalog`, `MCCatalog` | projects, repositories, pipelines and the creation of runs: the statements of the stores under the keys of the migrations, with their properties |
| `CatalogProofs` | the theorems about `Catalog` |
| `PipelineConfig`, `MCPipelineConfig` | which documents `config.Load` accepts, by the validate tags |
| `PipelineConfigProofs` | the theorem about `PipelineConfig` |
| `ServerConfig` | the server's `Load`: defaults, file, environment, as the program uses viper |
| `ServerProcess` | `main` from `Load` to its exit, the serving goroutine, connections, pool and signals |
| `ServerProofs` | the theorems about both |

### State and code

| Variable | In the code |
|---|---|
| `runRow`, `jobRow`, `stepRow`, `execRow` | the rows; a run has one job per stage and one execution per step, so a row is named by its stage or step. A timestamp is modelled by whether it is set; `group` is `parallel_group` (0 is NULL) |
| `artifacts` | the artifact rows in the order of `created_at`, each named by build step and output |
| `kjob` | the Job: its only pod (`BackoffLimit` 0, `RestartPolicyNever`), whether the controller has posted the result, whether the object has been deleted |
| `pc`, `stage`, `cursor`, `out`, `failed`, `verdict`, `deployed` | where the goroutine of `Run` is, the loop variables, `runErr != nil`, `finalState`, the artifact Deployinator chose |
| `stepPc`, `stepErr`, `phase` | where the goroutine of a step is, the error of `runStep`, the phase of the last `Status` |
| `ctxDone` | `ctx.Err() != nil` |
| `faults` | failures so far, never more than `MaxFaults` |

A step is a pair of its stage and its position; build and deploy steps run on
the goroutine of the caller, and the model lets it wait for a batch of one.

### Actions and code

`StartRun`, `Decide`, `Finalize` are the three parts of `Run` between its two
writes; `CreateJob`, `StartJob`, `FinishJob` are `runStage`; `LaunchBatch`,
`JoinBatch` and the operators `Batch`, `NextBatch` are the loops of the stages
with `runParallel`; `RegisterArtifact`, `RegisteredAll` are the second half of
Buildinator's loop; `ResolveArtifact` is Deployinator's search. `CreateStep`,
`StartStep`, `FinishStep` are `runStep`; `Submit`, `RecordExecution` are
`executeAndPoll`; `PollDone`, `PollRetry`, `PollTick`, `Report` are `poll`.

One action is one call to the database or the cluster with the computation up to
the next call. `Call(ctxBound, ok, done)` says what such a call may do: succeed;
be cut off because its context is done, with or without effect (pgx and client-go
may have sent the request already); or fail by itself, with or without effect
(`Fault`). The writes under
`context.WithoutCancel` and the `Cancel` under a context of its own have
`ctxBound` FALSE. An early return is a branch of the action; a failure that is
only logged (`FinishJob`, `Finalize`, `Report`, `FinishStep`) leaves no trace in
the control, as in the code. A failed `Status` is `PollRetry`, a step that changes
nothing.

`ClusterStep` is the Job controller and the kubelet, `VanishJob` somebody else who
deletes a Job, `CancelRun` the caller, `Crash` the death of the process.

In `ArtifactStore` a step is one file operation: `MakeDir`, `CreatePayload`
(`os.Create`, which truncates), `Copy` once per block and once for the end of the
content, `OpenMeta` and `WriteMeta` (the two halves of `os.WriteFile`), `ClosePayload` (the
deferred `Close`). Each may fail. When one before the close does, `Put` leaves the files as
they are, closes the payload if it was opened ("abort"), and returns the error. A close that fails takes the last block with it, as a write that NFS refuses
late does. `Open` is `Get`, given the Ref of a `Put` that returned or a Ref of another
backend; `Read` is the caller. `Crash` ends every call that is going on. `payload`,
`exists` and `meta` are the files; `putPc`, `putOff`, `getPc`, `getOff`, `got` the calls;
`owner`, `overlap`, `lost` are history that only the properties look at.

In `Catalog` a step is one SQL statement of one client. `rows` holds every table;
`hand` is the struct a client has read or handed to `Create`, `answer` the kind of its
last result. `Insert`, `Fetch`, `Update`, `Delete` are the four kinds of
statement, and one action per store method names the table. `Insert` takes a new struct, or
the one in hand, which keeps the id `EnsureID` gave it when the call failed. `Update` writes all of
the struct, changed in one column, whatever the row has become since. Every call may fail
before its statement took effect (`Fails`) or after it (`Write`), and the client may call again.
`made` is history that only a property looks at: the ids under which rows were made of a
client's struct.

`RunReader` leaves the actions of `Orchestrator` as they are and adds the reader: one
action per query method, each a single `SELECT` over the rows as they are at that moment.
A row is named by its place (`<<>>` the run, `<<stage>>` a job, and so on), `answer` is
what the last query returned, and `closed` remembers that the run was seen terminal. A
property relates one answer to the next, with any number of steps of `Run` between them.

`RunRetries` instantiates `OrchestratorProofs` twice, so that what is proved of one call is there
for each of the two. The calls share `runRow` and
the count of `faults`; everything else has ids of its own, since each call creates its
jobs, steps and Kubernetes Jobs. The second may begin before the first, during it, after
it, or after its process has died.

`PipelineConfig` has one step: a document becomes a configuration or an error
(`LoadFromFile`). The rules of the tags are one operator per struct.

In `ServerProcess` the variable `main` is the point of `main.go` that comes next and
`server` the goroutine around `e.Start`. `conn` is the state `net/http` keeps of each
connection; `Shutdown` closes the listener, idle connections and those that have sent nothing,
and waits for the rest; `Serve` may still register a connection it had accepted by then. `os.Exit` in any place is `Stop`: it ends the
goroutines and the connections and leaves the pool as it is. `LoadConfig` evaluates
`ServerConfig`'s `Load` on what is `given`: for each key a default or none, what the file
says, what the environment says. echo, `net/http`, pgx and viper are not in the
repository and are modelled from how `main.go` and `config.go` use them.

### Abstractions

Commands, images, environment, volumes, storage paths, checksums, ids, times and
error texts are left out. A command is its exit code, 0 or 1. The
`created_at` of two artifact rows of one run is taken to grow with the order of
insertion. An execution's result columns are not modelled: the
orchestrator never writes them. In `Catalog` the columns besides the reference to the
parent are one value; of a project it is the unique name. `Timeout` is never set by a stage, so a Job has no
deadline.

Operators marked *Slip* stand before the definition they could replace. No action
uses them; each is a plausible mistake in that place of the code, and
`PROJECT.json` ("mutants") names the property that notices it.

## 3. What TLC checks

| Run | Configuration | Properties | Distinct states |
|---|---|---|---|
| `one_fault` | 2 build steps with 1 and 2 outputs, tests parallel, parallel, sequential, parallel, deploy; cancellation; 1 fault | `TypeOK`, `Inv`, all safety properties of `Orchestrator`, `StatusesFollowFsm` | 431,616 |
| `ends` | 1 build step, 2 parallel tests, deploy; cancellation; 1 fault; fair cluster | `SucceedsWhenAllPass`, `HangsOnlyOnVanishedJob` | 295,912 |
| `promises` | 1 build step, 2 parallel tests; cancellation; 1 fault; only the program is fair | `CancelStops`, `GatedSpec` | 288,325 |
| `reader` | 1 build step with 1 output, 1 test; cancellation; 1 fault; one reader | `ViewInv`, `ReaderInv`, `JobsAreBeginnings`, `ReadsAgree`, `SuccessIsWhole`, `ClosedIsAtRest` | 185,039 |
| `retries` | two calls, 1 test step each; a cancellation of each; 1 fault or crash | `SuccessWasEarned`, `RowIsAVerdict` | 1,414,503 |
| `puts` | Puts of 2, 1 and 0 blocks under one id, one Get; 2 faults | `TypeOK`, `ReadsWhatWasPut`, `MetadataMarksComplete` | 225,406 |
| `catalog` | 2 projects, 1 repository, pipeline and run, 2 names, 2 clients | `TypeOK`, `RunsBelongToProjects`, `NamesFindOneProject`, `OneRowPerStruct` | 248,965 |
| `config` | documents with one stage varied in everything, the others absent, good or bad | `AcceptedCanRun` | 26,623 |
| `server` | 3 settings, each given in every way; 3 connections | `TypeOK`, `EnvironmentWins`, `PoolOutlivesRequests`, `ExitCodeTells`, `StopsUnlessHeld` | 92,712 |
| `finished_at`, `put_content`, `reopened` | 1 build step; as `puts`; as `retries` | one claim each, violated | stop early |

What the bounds are and why they are enough:

* *Steps.* The stages need: a build step after a build step, two outputs in one
  step with one type declared twice, a parallel block with something after it in
  the same stage, a second block, whose group name could collide with the
  first, and a later stage. `one_fault` has each. A third step of a block would add
  interleavings of the same pairwise kind; for the order, the truth of "success"
  and the join the proofs cover every number of steps.
* *Faults.* `MaxFaults` counts calls that fail by themselves, lost replies,
  vanished Jobs and a crash together. One is enough to be on each error path; the
  cancellation is not counted, so `one_fault` also has it together with each fault. Two
  faults mostly repeat the paths of one, since an error ends the run; the proofs allow any
  number.
* *Artifact store.* A short Put after a longer one, an empty one, and a Put that dies between
  two others need three Puts and two lengths; calls of different ids share no file, so
  one id is enough. Two faults let a Put fail and its repetition crash.
* *Catalog.* Moving a repository takes two projects, colliding names take two of them and two
  names; two clients are enough for one to work with a struct the other has outdated, and for one to
  delete a row between two `Create`s of the other; a second row of a struct needs the second
  project. More rows and clients are what the proofs cover.
* *Reader.* Two stages are needed for one to come before the other, and one fault for a row
  that stays behind. The properties speak of an answer and the next one, so that the state
  keeps one answer only, whichever of the queries it belongs to.
* *Retries.* The calls meet in the run row, which only the two ends of `Run` write; one step
  each is enough for either to fail, to be cancelled or to die anywhere between.
* *Configuration.* The rules of one stage do not look at the others, so one stage is varied at
  a time, with lists of up to two elements: a rule that looks at the first only would be
  seen. The proofs cover every document.
* *Server.* `db.name` is required, `log_level` can be wrong and has a default, `kubeconfig`
  has none: every branch of `Load` for a key. Three connections can be new, active and idle
  at once.
* Nothing else is bounded: polling may go on for ever and is a cycle in the state
  graph.

Deadlock is checked in every run but those of `ArtifactStore`, where the calls come to
their ends and nothing is left to do. `Finished` is the only stuttering of a stopped
program, and `PollRetry` is a real step of the code. Symmetry is used for the clients
of `Catalog` only, whose properties are all safety: steps and Puts differ in order and
size.

### Fairness

`ProgramFairness` is weak fairness of the goroutine of `Run` and of each step's
goroutine. Goroutines that can run are run by the Go scheduler, and a call returns;
in `poll` it also says that not every `Status` of a readable Job fails.
`FairSpec` adds that the cluster schedules each pod, the command ends and the
controller posts the result. That is not the code's to promise, so `CancelStops`
does without it: a cancelled `Run` stops even when a command never ends or the Job
is gone. `HangsOnlyOnVanishedJob` says where `Run` waits for ever although every command
ends: `poll` of a Job that somebody else deleted, since `Status` then fails at each tick
and `poll` retries without a limit.

`FairSpec` of `ServerProcess` is weak fairness of `main` and of the serving goroutine,
whose calls return, and of the loop in which `Shutdown` closes quiet connections.
Nothing is assumed of the clients, so `StopsUnlessHeld` excepts the client that holds a
request for ever: `Shutdown` is given no deadline and would wait for it.

### Where the code and what is said of it part

| Run | Said | Done |
|---|---|---|
| `finished_at` | `states.go:4-5`: the literals "can never silently diverge"; `job_step_test.go:119-120` expects `FinishedAt` of a step that succeeded | `helpers.go:69` knows "success", jobs and steps are written "succeeded": they end without `finished_at` |
| `put_content` | `store.go:37`: "Put writes content to <basePath>/<id>/payload", on an "NFS mount" too (22-24) | `store.go:50`: the error of the deferred `Close` is dropped, so a Ref is returned for a payload that may be cut short |
| `reopened` | `pipeline_run_fsm.go:29-30`: "Terminal states have no outgoing transitions" | `orchestrator.go:92` writes "running" without a look at the row: a second `Run` reopens a run that has ended |

Other places where a document says more than the code does have no run of their own; the
properties that hold state exactly what remains:

* `tdd.md:462`, "Cancellation propagates to active stages": a context that is done during
  `Submit`, or before the execution is recorded, leaves the Job running
  (the exceptions of `OrphansAreExplained`);
* `orchestrator.go:188-189` and `246-247`: a step whose start is cancelled stays "pending", and
  a cancelled execution keeps the last polled phase (the exceptions of `ReturnAgrees`);
* `tdd.md:459`, "All state transitions are persisted": a failed final write is logged and
  `Run` returns (`ReturnAgrees` speaks of runs without such a failure);
* `dmd.md:309`, "Artifacts are immutable": a second `Put` of an id truncates the payload of
  the first (`ReadsWhatWasPut` excepts it).

## 4. What is proved

About `Orchestrator`, alone, beside a reader or beside a second call, the theorems hold for every
configuration `ConfigAssumption` allows, every number of steps and every number of faults
(`FaultAssumption`; `RetriesAssumption` is both for two calls). About the other modules they hold
for every value of their constants under `StoreAssumption`, `CatalogAssumption` and
`SettingsAssumption`; `PipelineConfig` assumes nothing of its documents.

| Theorem | Statement |
|---|---|
| `TypeCorrect`, `Invariance` | `Spec => []TypeOK`, `Spec => []Inv` |
| `StagesAreGated`, `SuccessIsTrue`, `NothingClosesEarly` | `StageGate`, `NoFalseSuccess`, `JoinBeforeClose` always hold |
| `ImplementsGatedExecution` | `Spec => GatedSpec` |
| `RowInvariance` | `Spec => [](Inv /\ RowInv)` |
| `TimesAgree`, `RowsTellTheTruth`, `NoJobIsForgotten` | `RowTimes`, `StepRowTruth`, `OrphansAreExplained` always hold |
| `TransitionsAreListed` | `Spec => StatusesFollowFsm` |
| `ResultInvariance` | `Spec => [](Inv /\ RowInv /\ ResultInv)` |
| `FirstDeclaredIsDeployed`, `GroupsNameBlocks`, `ReturnTellsTheRows` | `DeploysFirstDeclared`, `GroupsAreBlocks`, `ReturnAgrees` always hold |
| `ViewInvariance`, `ReaderInvariance` | `Spec => []ViewInv`, `ReaderSpec => [](Inv /\ RowInv /\ ResultInv /\ ViewInv /\ ReaderInv)` |
| `ReadsAgreeAlways`, `SuccessIsFoundWhole`, `ClosedRests` | `ReaderSpec` implies `ReadsAgree`, `SuccessIsWhole`, `ClosedIsAtRest`, which relate an answer to the next |
| `JobListsAreBeginnings` | `ReaderSpec => []JobsAreBeginnings` |
| `RetriesInvariance` | `Spec => []RetriesInv` of `RunRetries` |
| `SuccessIsEarned`, `RowHoldsAVerdict` | `SuccessWasEarned`, `RowIsAVerdict` of `RunRetries` |
| `StoreInvariance`, `StoreTypes`, `WhatIsPutIsRead`, `MetadataIsHonest` | `StoreInv`, `TypeOK`, `ReadsWhatWasPut`, `MetadataMarksComplete` of `ArtifactStore` |
| `CatalogInvariance`, `CatalogTypes`, `NamesAreUnique`, `RunsStayConnected` | `CatalogInv`, `TypeOK`, `NamesFindOneProject`, `RunsBelongToProjects` of `Catalog` |
| `CreatesMakeOneRow` | `OneRowPerStruct` of `Catalog` |
| `AcceptedConfigsRun` | `AcceptedCanRun` of `PipelineConfig` |
| `ServerInvariance`, `ServerTypes`, `RequestsHaveThePool`, `ExitCodesTell`, `EnvironmentPrevails` | `ServerInv`, `TypeOK`, `PoolOutlivesRequests`, `ExitCodeTells`, `EnvironmentWins` of `ServerProcess` |

`ConfigAssumption` is what `config.Load` guarantees of a configuration, with the
types kept as plain values.

`StageGate` is not inductive: that a step may be submitted depends on where the loops of
`Run` are, on the results the goroutines have handed back, and on the Jobs. `Inv` ties
the three together:

* `StepInv`, one step: before "submit" there is no Job; a goroutine that ended well
  has seen exit code 0;
* `ControlInv`: what `stage` and `cursor` may be at each point of `Run`, and that the
  job row already says "running" there;
* `FrontierInv`: steps the loops have *passed* exited 0 and their outputs are
  registered; steps *ahead* have not been started; steps in flight are in the current
  batch, and `Run` waits for them;
* `EndInv`: a verdict of success rests on every step having passed.

Together with the types these are `OwnInv`: none of them looks at the row of the run, which the
code writes and never reads, so a call keeps them whatever a second call does to that row
(`OwnStep`, `OthersKeep`). `RunRowSays` adds what the row of the run says as long as nobody else
writes it, and `Inv` is both.

The proof first shows `TypeOK`, then lemmas on the configuration's order (what comes
before the batch is past or of an earlier batch, the batch is a block), then that
each action keeps each part: one step per action, the parts it cannot disturb from
lemmas about what stays the same. The theorems follow from `Inv` alone.
`ImplementsGatedExecution` uses `Inv` before and after a step, and `OpenInv`: the abstract
run is closed only when no goroutine of a step is at work any more.

What the rows say depends on the control that wrote them, and on what may have failed. `RowInv`
gives the row of the run for each point of `Run`, the row of a job for each point of
`runStage`, and of a step its row, its execution and its Job for each point of its goroutine:
`TruthPart` says what the rows tell of the command, with the stronger half only while
nothing has failed and nobody has cancelled, `WatchPart` who watches a Job that may still
run. It is inductive together with `Inv`. A goroutine touches its own step only
(`StepFrame`), and what is said of the other steps survives since failures and the end of the
context are never taken back (`Onward`, `UntouchedKeeps`). `TransitionsAreListed` follows from
the row each write finds.

`ResultInv` adds three things. `ArtifactInv`: the artifact rows are in the order of
declaration and Buildinator's loop is ahead of them; hence the first match in the table is
the first match in the configuration. `GroupInv`: a batch begins where its block begins and
a step's group is the begin of its block; hence equal groups are equal blocks, since two
blocks never touch. `ReturnInv`, as long as no call has failed: how far each row has come at
each point, with the cases of a cancellation; hence what `ReturnAgrees` allows when `Run` is
over.

Two calls on one run (`RetriesInv`) each keep `OwnInv` and pass their verdict once (`VerdictInv`);
`RowInv` of `RunRetries` says of the row they share that it holds a verdict of one of them, or else
that a call is at work, was cut off, or a call failed. A step of either call changes the row to "running" or to its
own verdict only (`VerdictStep`), which is all the other has to know. `SuccessIsEarned` then
needs `EndInv` of the call whose verdict the row repeats. So the second "running",
written without a look at the row, may undo a verdict (`reopened`) and yet never leads to a success
that adds up from two halves. TLC has found `RetriesInv` true in
every state of `retries`; the run does not repeat it, as it would take twice as long.

`ViewInv` is what makes several rows tell one story. Per step (`ResultPart`), a final
status of the execution and of the step is the result of its goroutine and is written when the
goroutine is past polling. Over the steps (`WholeInv`), what is behind the frontier of `Run` ended
well, its rows are `Good` ("succeeded", or left behind by a call that failed), a job that succeeded
is over steps that did, and the run's success over jobs and steps that did. `ReaderInv` lets the reader
keep an answer while `Run` goes on: a row that was final when it was read is still
in the table (`FinalStays`), and once the run was seen to be over, the whole answer is what the
query would answer now, since then no row changes (`TableRests`). The properties about two answers thus come down to
facts about the table at one moment: no two rows contradict each other (`TableAgrees`), and a
success has all its parts (`TableWhole`).

`StoreInv` says of a file that only its owner has had open (`Undivided`) that it is the
prefix of the owner's content up to the owner's offset, of a `Get` that it has read a prefix of
such a file, and of the metadata of an id put once that it is written behind the whole
payload. Neither property is inductive without the offsets.

`RunsBelongToProjects` follows three references and is not inductive: a step keeps it only
when each of them keeps pointing to a row of the right table. `CatalogInv` says so for
every row (`ReferencesInv`), together with the types, which say which table a reference
leads to, and `NamesFindOneProject`. The proof looks at the three ways a statement can end:
it writes a row under the child's key and the UNIQUE name (`WriteKeeps`), it removes a row
under the parent's key (`DeleteKeeps`), it writes nothing. `CatalogAssumption` only says that
the tables' ids are disjoint and that `Nothing` is neither an id nor a row. What `hand`
holds need not be up to date anywhere in the argument. For `CreatesMakeOneRow` it only matters
which id it has: `Insert` uses that id again (`CreateFact`), an `Update` keeps it, and a
client that takes another struct starts over (`TakeHands`, `KeepHands`).

`ServerInv` says which of the goroutine, the pool and the connections there are at each point of
`main` (`PlacesInv`) and that what `Load` returned came from what was given (`GivenInv`), for any
settings and any number of connections. The theorem about `PipelineConfig` unfolds `Load`
for a document it does not refuse; documents are any set.

Every safety property and every action property that a passing run checks is the conclusion of a
theorem. Only model-checked are the liveness properties (`CancelStops`, `SucceedsWhenAllPass`,
`HangsOnlyOnVanishedJob`, `StopsUnlessHeld`): liveness under fairness is out of the prover's reach
and stays with TLC. So would be induction over data and RECURSIVE operators, which the modules
avoid.

## 5. Not modelled, and what is left

Not modelled:

* the API definition: messages and services, the Go code is generated and no handler exists;
* mocks and the helpers of the tests, which are no part of the running system;
* the health endpoint (one constant reply) and logging;
* the executor's timeout, which becomes `ActiveDeadlineSeconds` cut down to whole seconds, and the
  metadata of a result: no caller sets the one or reads the other;
* the content of `metadata.json`: nothing reads it back;
* migrations below `pipeline_runs`: those rows are only inserted, under ids their writer has
  just made, so their keys cannot fail;
* that an artifact reaches a step: at this commit its location is never handed to the executor.

What is left to do, most important first:

1. `ExecutorContract`: what `executor.go` promises of an execution (a phase never goes back from
   terminal, `Cancel` can be repeated), refined by `KubernetesExecutor`, with the deadline once a
   stage sets one.
2. A reader beside two calls of `Run`, when the code says which of the calls it should show.
