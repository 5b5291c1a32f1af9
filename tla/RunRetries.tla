----------------------------- MODULE RunRetries ------------------------------
(***************************************************************************)
(* Two calls of Orchestrator.Run on one pipeline run: a retry after the    *)
(* first has ended, after its process has died, or while it is still at    *)
(* work, which nothing prevents.  Each call creates jobs, steps, artifacts *)
(* and Kubernetes Jobs under ids of its own; they meet in the run's row.   *)
(***************************************************************************)
EXTENDS Integers, Sequences, StatusRows

CONSTANTS ArtifactTypes, NoArtifact, BuildSteps, TestSteps, DeployArtifact, MaxFaults

(* What both calls take for granted: config.Load's guarantees, see         *)
(* Orchestrator.                                                           *)
ASSUME RetriesAssumption ==
  /\ BuildSteps \in Seq(Seq(ArtifactTypes))
  /\ TestSteps \in Seq(BOOLEAN)
  /\ DeployArtifact \in ArtifactTypes \cup {NoArtifact}
  /\ NoArtifact \notin ArtifactTypes
  /\ MaxFaults \in Nat

VARIABLES
  runRow, faults,  \* shared: the row of the run, and the failures so far
  aJobRow, aStepRow, aExecRow, aArtifacts, aKjob,
  aPc, aStage, aCursor, aOut, aDeployed, aFailed, aVerdict, aStepPc, aStepErr, aPhase, aCtxDone,
  bJobRow, bStepRow, bExecRow, bArtifacts, bKjob,
  bPc, bStage, bCursor, bOut, bDeployed, bFailed, bVerdict, bStepPc, bStepErr, bPhase, bCtxDone

aVars == <<aJobRow, aStepRow, aExecRow, aArtifacts, aKjob, aPc, aStage, aCursor, aOut, aDeployed,
           aFailed, aVerdict, aStepPc, aStepErr, aPhase, aCtxDone>>
bVars == <<bJobRow, bStepRow, bExecRow, bArtifacts, bKjob, bPc, bStage, bCursor, bOut, bDeployed,
           bFailed, bVerdict, bStepPc, bStepErr, bPhase, bCtxDone>>

(* Two calls of Run, each with what is proved of one.                      *)
A == INSTANCE OrchestratorProofs WITH
       jobRow <- aJobRow, stepRow <- aStepRow, execRow <- aExecRow, artifacts <- aArtifacts,
       kjob <- aKjob, pc <- aPc, stage <- aStage, cursor <- aCursor, out <- aOut,
       deployed <- aDeployed, failed <- aFailed, verdict <- aVerdict, stepPc <- aStepPc,
       stepErr <- aStepErr, phase <- aPhase, ctxDone <- aCtxDone

B == INSTANCE OrchestratorProofs WITH
       jobRow <- bJobRow, stepRow <- bStepRow, execRow <- bExecRow, artifacts <- bArtifacts,
       kjob <- bKjob, pc <- bPc, stage <- bStage, cursor <- bCursor, out <- bOut,
       deployed <- bDeployed, failed <- bFailed, verdict <- bVerdict, stepPc <- bStepPc,
       stepErr <- bStepErr, phase <- bPhase, ctxDone <- bCtxDone

Init == A!Init /\ B!Init

FirstCall  == A!Next /\ UNCHANGED bVars
SecondCall == B!Next /\ UNCHANGED aVars

Next == FirstCall \/ SecondCall

Spec == Init /\ [][Next]_<<runRow, faults, aVars, bVars>>

-----------------------------------------------------------------------------
(* The inductive invariant behind SuccessWasEarned and RowIsAVerdict: each *)
(* call keeps its own, and the row of the run holds the verdict of one of  *)
(* them unless a call is at work or was cut off.                           *)

(* A call that did not get as far as deciding: it died, or it gave up on   *)
(* its first write, which may still have reached the database.             *)
CutOff(pc, verdict, ctxDone) == pc = "crashed" \/ (verdict = "pending" /\ ctxDone)

RowInv ==
  /\ runRow.status \in {"pending", "running"} \cup ({aVerdict, bVerdict} \ {"pending"})
  /\ faults = 0 /\ runRow.status \in {"pending", "running"} =>
       \/ ~A!Stopped \/ CutOff(aPc, aVerdict, aCtxDone)
       \/ ~B!Stopped \/ CutOff(bPc, bVerdict, bCtxDone)

RetriesInv ==
  /\ A!OwnInv /\ A!VerdictInv
  /\ B!OwnInv /\ B!VerdictInv
  /\ RowInv

-----------------------------------------------------------------------------
(* A run recorded as "success" was earned by one call that ran every step  *)
(* to exit code 0: two calls that each did a part never add up to one.     *)
SuccessWasEarned ==
  runRow.status = "success" =>
    \/ aVerdict = "success" /\ \A s \in A!Steps : A!Passed(s)
    \/ bVerdict = "success" /\ \A s \in B!Steps : B!Passed(s)

(* When both calls are over and no call failed on its own account, the row *)
(* holds what one of them decided; it is left "running" only by a call     *)
(* that was cut off, whatever the other one had written before.            *)
RowIsAVerdict ==
  A!Stopped /\ B!Stopped /\ (faults = 0 \/ "crashed" \in {aPc, bPc}) =>
    \/ runRow.status \in {aVerdict, bVerdict} \ {"pending"}
    \/ runRow.status \in {"pending", "running"} /\
         (CutOff(aPc, aVerdict, aCtxDone) \/ CutOff(bPc, bVerdict, bCtxDone))

(* pipeline_run_fsm.go:29-30, "Terminal states have no outgoing            *)
(* transitions": a run that has ended keeps its status and its times.  Run *)
(* writes "running" without a look at the row it finds.                    *)
EndedRunsStayEnded == [][RunTerminal(runRow.status) => runRow' = runRow]_runRow
=============================================================================
